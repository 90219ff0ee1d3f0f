-------------------------- MODULE AccountingProofs --------------------------
(* Proofs about the accounts of the five harnesses, for any files, batches and
   order of import: those of Claude Code, Copilot CLI and VS Code, and with those
   of LineageProofs the properties of the suite. *)
EXTENDS LineageProofs

(***************************************************************************)
(* Claude Code: lines of one call in several files and readings.           *)
(***************************************************************************)
(* The library as the module of the harness sees it. *)
LEMMA ClaudeLibrary ==
  /\ \A S : Claude!Cardinality(S) = Cardinality(S)
  /\ \A S : Claude!IsFiniteSet(S) <=> IsFiniteSet(S)
<1>1. \A S : Claude!IsFiniteSet(S) <=> IsFiniteSet(S)
  BY DEF Claude!IsFiniteSet, IsFiniteSet
<1>2. \A S : Claude!Cardinality(S) = Cardinality(S)
  BY DEF Claude!Cardinality, Cardinality
<1> QED BY <1>1, <1>2

-----------------------------------------------------------------------------
(* Rows come from the files that were read, and there are finitely many. *)

LEMMA ClaudeReadingsFinite ==
  ASSUME Claude!ClaudeConstants
  PROVE  IsFiniteSet(Claude!Readings)
<1> DEFINE P == ClaudeFiles \X Claude!Profiles
           f == [p \in P |-> [file |-> p[1], profile |-> p[2]]]
<1>1. IsFiniteSet(Claude!Profiles)
  <2>1. IsFiniteSet({"previous"}) /\ IsFiniteSet({"current"})
    BY FS_Singleton
  <2>2. IsFiniteSet({"previous"} \cup {"current"})
    BY <2>1, FS_Union
  <2>3. {"previous"} \cup {"current"} = Claude!Profiles
    BY DEF Claude!Profiles
  <2> QED BY <2>2, <2>3
<1>2. IsFiniteSet(P)
  BY ClaudeLibrary, <1>1, FS_Product DEF Claude!ClaudeConstants
<1>3. Claude!Readings = {f[p] : p \in P}
  <2>1. \A g \in Claude!Readings : <<g.file, g.profile>> \in P /\ f[<<g.file, g.profile>>] = g
    BY DEF Claude!Readings
  <2>2. \A p \in P : f[p] \in Claude!Readings
    BY DEF Claude!Readings
  <2> HIDE DEF f, P
  <2> QED BY <2>1, <2>2
<1> HIDE DEF P, f
<1> QED BY <1>2, <1>3, FiniteImage

LEMMA ClaudeRowOrigin ==
  ASSUME NEW L, NEW r \in Claude!Rows(L)
  PROVE  \E g \in L : /\ Claude!Accepted(g.file) /\ r.file = g.file /\ r.session = g.file.session
                      /\ r.current = (g.profile = "current")
                      /\ \E i \in DOMAIN g.file.lines : r = Claude!Row(g.profile, g.file, i)
                      /\ r \in Claude!ReadRows(g.profile, g.file)
<1>1. PICK g \in L : r \in Claude!ReadRows(g.profile, g.file)
  BY DEF Claude!Rows
<1>2. Claude!Accepted(g.file) /\ \E i \in DOMAIN g.file.lines : r = Claude!Row(g.profile, g.file, i)
  BY <1>1 DEF Claude!ReadRows
<1>3. r.file = g.file /\ r.session = g.file.session /\ r.current = (g.profile = "current")
  BY <1>2 DEF Claude!Row
<1> QED BY <1>1, <1>2, <1>3

LEMMA ClaudeFiniteRows ==
  ASSUME Claude!ClaudeConstants, NEW L, L \subseteq Claude!Readings
  PROVE  IsFiniteSet(L) /\ IsFiniteSet(Claude!Rows(L))
<1>1. IsFiniteSet(L)
  BY ClaudeReadingsFinite, FS_Subset
<1>2. ASSUME NEW g \in L
      PROVE  IsFiniteSet(Claude!ReadRows(g.profile, g.file))
  <2> DEFINE S == {j \in DOMAIN g.file.lines : Claude!IsUsage(g.file.lines[j])}
             f == [i \in S |-> Claude!Row(g.profile, g.file, i)]
  <2>1. g.file \in ClaudeFiles
    BY DEF Claude!Readings
  <2>2. IsFiniteSet(S)
    <3>1. S \in SUBSET DOMAIN g.file.lines
      OBVIOUS
    <3> HIDE DEF S
    <3>2. IsFiniteSet(DOMAIN g.file.lines)
      BY ClaudeLibrary, <2>1 DEF Claude!ClaudeConstants
    <3> QED BY <3>1, <3>2, FS_Subset
  <2>3. IsFiniteSet({f[i] : i \in S})
    <3> HIDE DEF S, f
    <3> QED BY <2>2, FiniteImage
  <2>4. {f[i] : i \in S} = {Claude!Row(g.profile, g.file, i) : i \in S}
    OBVIOUS
  <2>5. IsFiniteSet({})
    BY FS_EmptySet
  <2> QED BY <2>3, <2>4, <2>5 DEF Claude!ReadRows
<1>3. IsFiniteSet(Claude!Rows(L))
  <2> DEFINE h == [g \in L |-> Claude!ReadRows(g.profile, g.file)]
             T == {h[g] : g \in L}
  <2>1. Claude!Rows(L) = UNION T
    BY DEF Claude!Rows
  <2>2. \A t \in T : IsFiniteSet(t)
    BY <1>2
  <2>3. IsFiniteSet(T)
    <3> HIDE DEF h
    <3> QED BY <1>1, FiniteImage
  <2> HIDE DEF T
  <2> QED BY <2>1, <2>2, <2>3, FS_UNION
<1> QED BY <1>1, <1>3

-----------------------------------------------------------------------------
(* Components: the rows connected with one. *)

LEMMA ClaudeJoinedIsSymmetric == \A r, q : Claude!Joined(r, r) /\ (Claude!Joined(r, q) <=> Claude!Joined(q, r))
BY DEF Claude!Joined

ClaudeJoinedRows(C) == {x \in C \X C : Claude!Joined(x[1], x[2])}
ClaudeWhole(C, G) == \A r \in G, q \in C : Claude!Joined(r, q) => q \in G

LEMMA ClaudeComponentIsRounds ==
  ASSUME NEW C, IsFiniteSet(C), NEW r \in C
  PROVE  \E f : /\ f[0] = {r} /\ \A k \in 1..Cardinality(C) : f[k] = Near(C, ClaudeJoinedRows(C), f[k - 1])
                /\ Claude!Component(C, r) = f[Cardinality(C)]
<1> DEFINE n == Cardinality(C)
           J == CHOOSE f : f = [k \in 0..n |-> IF k = 0 THEN {r} ELSE {q \in C : \E p \in f[k - 1] : Claude!Joined(p, q)}]
           F == [X \in SUBSET C |-> {q \in C : \E p \in X : Claude!Joined(p, q)}]
<1>0. n \in Nat
  BY FS_CardinalityType
<1>1. Claude!Component(C, r) = J[n]
  BY ClaudeLibrary, Zenon DEF Claude!Component
<1> HIDE DEF n
<1>2. \E f : f = [k \in 0..n |-> IF k = 0 THEN {r} ELSE {q \in C : \E p \in f[k - 1] : Claude!Joined(p, q)}]
  <2>0. {r} \in SUBSET C /\ F \in [SUBSET C -> SUBSET C]
    OBVIOUS
  <2> HIDE DEF F
  <2>1. PICK f \in [0..n -> SUBSET C] : f[0] = {r} /\ \A k \in 1..n : f[k] = F[f[k - 1]]
    <3> DEFINE A == SUBSET C
               base == {r}
    <3>1. base \in A /\ F \in [A -> A]
      BY <2>0
    <3> HIDE DEF A, base, J
    <3>2. \E f : InRounds(f, A, base, F, n)
      BY <1>0, <3>1, RoundsExist
    <3> QED BY <3>2 DEF A, base, InRounds
  <2>2. \A k \in 0..n : f[k] = IF k = 0 THEN {r} ELSE {q \in C : \E p \in f[k - 1] : Claude!Joined(p, q)}
    <3> TAKE k \in 0..n
    <3>1. CASE k = 0
      BY <2>1, <3>1
    <3>2. CASE k # 0
      <4>1. k \in 1..n /\ k - 1 \in 0..n
        BY <1>0, <3>2
      <4>2. f[k - 1] \in SUBSET C
        BY <2>1, <4>1
      <4>3. F[f[k - 1]] = {q \in C : \E p \in f[k - 1] : Claude!Joined(p, q)}
        BY <4>2 DEF F
      <4> QED BY <2>1, <3>2, <4>1, <4>3
    <3> QED BY <3>1, <3>2
  <2> DEFINE g == [k \in 0..n |-> IF k = 0 THEN {r} ELSE {q \in C : \E p \in f[k - 1] : Claude!Joined(p, q)}]
  <2>3. f = g
    BY <2>1, <2>2
  <2> QED BY <2>3, Zenon
<1>3. J = [k \in 0..n |-> IF k = 0 THEN {r} ELSE {q \in C : \E p \in J[k - 1] : Claude!Joined(p, q)}]
  BY <1>2, Zenon
<1> HIDE DEF J
<1>4. J[0] = {r}
  BY <1>0, <1>3
<1>5. \A k \in 1..n : J[k] = {q \in C : \E p \in J[k - 1] : Claude!Joined(p, q)}
  <2> TAKE k \in 1..n
  <2>1. k \in 0..n /\ k # 0
    BY <1>0
  <2>2. J[k] = IF k = 0 THEN {r} ELSE {q \in C : \E p \in J[k - 1] : Claude!Joined(p, q)}
    BY <1>3, <2>1, Zenon
  <2> QED BY <2>1, <2>2
<1>6. \A k \in 0..n : J[k] \subseteq C
  <2> TAKE k \in 0..n
  <2> QED BY <1>4, <1>5, <1>0
<1>7. \A k \in 1..n : J[k] = Near(C, ClaudeJoinedRows(C), J[k - 1])
  <2> TAKE k \in 1..n
  <2>1. J[k - 1] \subseteq C
    BY <1>0, <1>6
  <2> QED BY <1>5, <2>1 DEF Near, ClaudeJoinedRows
<1> QED BY <1>1, <1>4, <1>7 DEF n

(* A component is the least set with the row that joins what it touches. *)
LEMMA ClaudeComponentIsLeast ==
  ASSUME NEW C, IsFiniteSet(C), NEW r \in C
  PROVE  /\ Claude!Component(C, r) \subseteq C /\ r \in Claude!Component(C, r) /\ ClaudeWhole(C, Claude!Component(C, r))
         /\ \A G \in SUBSET C : r \in G /\ ClaudeWhole(C, G) => Claude!Component(C, r) \subseteq G
<1> DEFINE R == ClaudeJoinedRows(C)
<1>1. PICK f : /\ f[0] = {r} /\ \A k \in 1..Cardinality(C) : f[k] = Near(C, R, f[k - 1])
               /\ Claude!Component(C, r) = f[Cardinality(C)]
  BY ClaudeComponentIsRounds
<1>2. \A p \in C : <<p, p>> \in R
  BY ClaudeJoinedIsSymmetric DEF ClaudeJoinedRows
<1>3. ASSUME NEW G \in SUBSET C PROVE Closed(C, R, G) <=> ClaudeWhole(C, G)
  BY DEF Closed, ClaudeWhole, ClaudeJoinedRows
<1> HIDE DEF R
<1> DEFINE X == f[Cardinality(C)]
<1>4. /\ X \subseteq C /\ r \in X /\ Closed(C, R, X)
      /\ \A Y \in SUBSET C : r \in Y /\ Closed(C, R, Y) => X \subseteq Y
  BY <1>1, <1>2, ConnectedInRounds
<1> HIDE DEF X
<1>5. Claude!Component(C, r) = X
  BY <1>1 DEF X
<1> QED BY <1>3, <1>4, <1>5

(* Rows of one component have the same. *)
LEMMA ClaudeSameComponent ==
  ASSUME NEW C, IsFiniteSet(C), NEW r \in C, NEW q \in Claude!Component(C, r)
  PROVE  q \in C /\ Claude!Component(C, q) = Claude!Component(C, r)
<1> DEFINE G == Claude!Component(C, r)
           H == Claude!Component(C, q)
<1>1. /\ G \subseteq C /\ r \in G /\ ClaudeWhole(C, G)
      /\ \A X \in SUBSET C : r \in X /\ ClaudeWhole(C, X) => G \subseteq X
  BY ClaudeComponentIsLeast
<1>2. q \in C
  BY <1>1
<1>3. /\ H \subseteq C /\ q \in H /\ ClaudeWhole(C, H)
      /\ \A X \in SUBSET C : q \in X /\ ClaudeWhole(C, X) => H \subseteq X
  BY <1>2, ClaudeComponentIsLeast
<1>4. q \in G
  OBVIOUS
<1> HIDE DEF G, H
<1>5. H \subseteq G
  BY <1>1, <1>3, <1>4
<1>6. r \in H
  <2>1. SUFFICES ASSUME r \notin H PROVE FALSE
    OBVIOUS
  <2>2. ClaudeWhole(C, G \ H)
    BY <1>1, <1>3, ClaudeJoinedIsSymmetric DEF ClaudeWhole
  <2>3. G \subseteq G \ H
    BY <1>1, <2>1, <2>2
  <2> QED BY <1>3, <1>4, <2>3
<1>7. G \subseteq H
  BY <1>1, <1>3, <1>6
<1> QED BY <1>2, <1>5, <1>7 DEF G, H

LEMMA ClaudeJoinedComponent ==
  ASSUME NEW C, IsFiniteSet(C), NEW r \in C, NEW q \in C, Claude!Joined(r, q)
  PROVE  Claude!Component(C, q) = Claude!Component(C, r)
<1>1. q \in Claude!Component(C, r)
  BY ClaudeComponentIsLeast DEF ClaudeWhole
<1> QED BY <1>1, ClaudeSameComponent

(* What joins nothing else has its components for itself. *)
LEMMA ClaudeComponentWithin ==
  ASSUME NEW C, IsFiniteSet(C), NEW D, D \subseteq C, ClaudeWhole(C, D), NEW r \in D
  PROVE  Claude!Component(D, r) = Claude!Component(C, r)
<1> DEFINE G == Claude!Component(D, r)
           H == Claude!Component(C, r)
<1>1. IsFiniteSet(D)
  BY FS_Subset
<1>2. /\ G \subseteq D /\ r \in G /\ ClaudeWhole(D, G)
      /\ \A X \in SUBSET D : r \in X /\ ClaudeWhole(D, X) => G \subseteq X
  BY <1>1, ClaudeComponentIsLeast
<1>3. /\ H \subseteq C /\ r \in H /\ ClaudeWhole(C, H)
      /\ \A X \in SUBSET C : r \in X /\ ClaudeWhole(C, X) => H \subseteq X
  BY ClaudeComponentIsLeast
<1> HIDE DEF G, H
<1>4. ClaudeWhole(C, G)
  BY <1>2 DEF ClaudeWhole
<1>5. H \subseteq G
  BY <1>2, <1>3, <1>4
<1>6. ClaudeWhole(D, H)
  BY <1>3 DEF ClaudeWhole
<1>7. G \subseteq H
  BY <1>2, <1>3, <1>5, <1>6
<1> QED BY <1>5, <1>7 DEF G, H

-----------------------------------------------------------------------------
(* The sessions an import decides again. *)

ClaudeAcceptedOf(L) == {g \in L : Claude!Accepted(g.file)}
LEMMA ClaudeLinksFinite ==
  ASSUME Claude!ClaudeConstants, NEW L, L \subseteq Claude!Readings
  PROVE  IsFiniteSet(Claude!Links(L))
<1> DEFINE A == ClaudeAcceptedOf(L)
           B == {h \in L : Claude!Accepted(h.file) /\ h.file.parent # None}
           M == {q \in Claude!Rows(L) : q.message # None}
           Q == {q \in Claude!Rows(L) : q.request # None}
           a == [g \in A |-> {<<"locator", g.file.locator>>, Claude!Session(g.file.session)}]
           b == [g \in B |-> {<<"locator", g.file.parent>>, Claude!Session(g.file.session)}]
           m == [r \in M |-> {Claude!Session(r.session), <<"message", r.message>>}]
           q == [r \in Q |-> {Claude!Session(r.session), <<"request", r.request>>}]
           e == [r \in Claude!Rows(L) |-> {Claude!Session(r.session), <<"entry", r.entry>>}]
<1>1. IsFiniteSet(L) /\ IsFiniteSet(Claude!Rows(L))
  BY ClaudeFiniteRows
<1>2. A \in SUBSET L /\ B \in SUBSET L /\ M \in SUBSET Claude!Rows(L) /\ Q \in SUBSET Claude!Rows(L)
  BY DEF ClaudeAcceptedOf
<1>3. Claude!Links(L) = {a[g] : g \in A} \cup {b[g] : g \in B} \cup {m[r] : r \in M} \cup {q[r] : r \in Q}
                 \cup {e[r] : r \in Claude!Rows(L)}
  BY Zenon DEF Claude!Links, ClaudeAcceptedOf
<1> HIDE DEF A, B, M, Q, a, b, m, q, e
<1>4. IsFiniteSet(A) /\ IsFiniteSet(B) /\ IsFiniteSet(M) /\ IsFiniteSet(Q)
  BY <1>1, <1>2, FS_Subset
<1>5. /\ IsFiniteSet({a[g] : g \in A}) /\ IsFiniteSet({b[g] : g \in B})
      /\ IsFiniteSet({m[r] : r \in M}) /\ IsFiniteSet({q[r] : r \in Q}) /\ IsFiniteSet({e[r] : r \in Claude!Rows(L)})
  BY <1>1, <1>4, FiniteImage
<1> DEFINE SA == {a[g] : g \in A}  SB == {b[g] : g \in B}  SM == {m[r] : r \in M}
           SQ == {q[r] : r \in Q}  SE == {e[r] : r \in Claude!Rows(L)}
<1>6. Claude!Links(L) = SA \cup SB \cup SM \cup SQ \cup SE
  BY <1>3
<1>7. IsFiniteSet(SA) /\ IsFiniteSet(SB) /\ IsFiniteSet(SM) /\ IsFiniteSet(SQ) /\ IsFiniteSet(SE)
  BY <1>5
<1> HIDE DEF SA, SB, SM, SQ, SE
<1>8. IsFiniteSet(SA \cup SB)
  BY <1>7, FS_Union
<1>9. IsFiniteSet((SA \cup SB) \cup SM)
  BY <1>7, <1>8, FS_Union
<1>10. IsFiniteSet(((SA \cup SB) \cup SM) \cup SQ)
  BY <1>7, <1>9, FS_Union
<1>11. IsFiniteSet((((SA \cup SB) \cup SM) \cup SQ) \cup SE)
  BY <1>7, <1>10, FS_Union
<1> QED BY <1>6, <1>11

(* The keys that _affected_sessions reaches: all that a reached one is linked to. *)
LEMMA ClaudeAffectedIsRounds ==
  ASSUME Claude!ClaudeConstants, NEW L, L \subseteq Claude!Readings, NEW locators
  PROVE  \E X : /\ {<<"locator", l>> : l \in locators} \subseteq X
                /\ \A l \in Claude!Links(L) : l \cap X # {} => l \subseteq X
                /\ Claude!Affected(L, locators) = {s \in Claude!Sessions(L) : Claude!Session(s) \in X}
<1> DEFINE links == Claude!Links(L)
           n == Cardinality(links)
           base == {<<"locator", l>> : l \in locators}
           J == CHOOSE f : f = [k \in 0..n |->
                  IF k = 0 THEN base ELSE f[k - 1] \cup UNION {l \in links : l \cap f[k - 1] # {}}]
<1>0. IsFiniteSet(links) /\ n \in Nat
  BY ClaudeLinksFinite, FS_CardinalityType
<1>1. Claude!Affected(L, locators) = {s \in Claude!Sessions(L) : Claude!Session(s) \in J[n]}
  BY ClaudeLibrary, Zenon DEF Claude!Affected
<1> HIDE DEF links, base
<1>2. \E f : f = [k \in 0..n |->
               IF k = 0 THEN base ELSE f[k - 1] \cup UNION {l \in links : l \cap f[k - 1] # {}}]
  <2> HIDE DEF n, J
  <2>1. \E f : IsFollowing(f, links, base, n)
    BY <1>0, FollowingExists
  <2> QED BY <2>1, Zenon DEF IsFollowing
<1>3. J = [k \in 0..n |-> IF k = 0 THEN base ELSE J[k - 1] \cup UNION {l \in links : l \cap J[k - 1] # {}}]
  BY <1>2, Zenon
<1> HIDE DEF J
<1>4. J[0] = base
  BY <1>0, <1>3
<1>5. \A k \in 1..n : J[k] = Follows(links, J[k - 1])
  <2> TAKE k \in 1..n
  <2>1. k \in 0..n /\ k # 0
    BY <1>0
  <2>2. J[k] = IF k = 0 THEN base ELSE J[k - 1] \cup UNION {l \in links : l \cap J[k - 1] # {}}
    BY <1>3, <2>1, Zenon
  <2> QED BY <2>1, <2>2 DEF Follows
<1>6. base \subseteq J[n] /\ \A l \in links : l \cap J[n] # {} => l \subseteq J[n]
  BY <1>0, <1>4, <1>5, LinkedInRounds
<1> QED BY <1>1, <1>6 DEF links, base

(* What an import adds is in its scope, and rows that join are both in it or
   both outside. *)
ClaudeScope(L, b) == Claude!Affected(L, {g.file.locator : g \in b})
LEMMA ClaudeScopeIsWhole ==
  ASSUME Claude!ClaudeConstants, NEW L, L \subseteq Claude!Readings, NEW b
  PROVE  /\ ClaudeScope(L, b) \subseteq Claude!Sessions(L)
         /\ \A g \in b \cap L : Claude!Accepted(g.file) => g.file.session \in ClaudeScope(L, b)
         /\ \A r, q \in Claude!Rows(L) : Claude!Joined(r, q) => (r.session \in ClaudeScope(L, b) <=> q.session \in ClaudeScope(L, b))
<1> DEFINE locators == {g.file.locator : g \in b}
<1>1. PICK X : /\ {<<"locator", l>> : l \in locators} \subseteq X
               /\ \A l \in Claude!Links(L) : l \cap X # {} => l \subseteq X
               /\ Claude!Affected(L, locators) = {s \in Claude!Sessions(L) : Claude!Session(s) \in X}
  BY ClaudeAffectedIsRounds
<1>2. ClaudeScope(L, b) = {s \in Claude!Sessions(L) : Claude!Session(s) \in X}
  BY <1>1 DEF ClaudeScope
<1>3. ASSUME NEW g \in b \cap L, Claude!Accepted(g.file)
      PROVE  g.file.session \in ClaudeScope(L, b)
  <2>1. g.file.session \in Claude!Sessions(L)
    BY <1>3 DEF Claude!Sessions
  <2>2. {<<"locator", g.file.locator>>, Claude!Session(g.file.session)} \in Claude!Links(L)
    BY <1>3, Zenon DEF Claude!Links
  <2>3. <<"locator", g.file.locator>> \in X
    BY <1>1
  <2>4. Claude!Session(g.file.session) \in X
    BY <1>1, <2>2, <2>3
  <2> QED BY <1>2, <2>1, <2>4
<1>4. ASSUME NEW r \in Claude!Rows(L)
      PROVE  /\ r.session \in Claude!Sessions(L)
             /\ {Claude!Session(r.session), <<"entry", r.entry>>} \in Claude!Links(L)
             /\ r.message # None => {Claude!Session(r.session), <<"message", r.message>>} \in Claude!Links(L)
             /\ r.request # None => {Claude!Session(r.session), <<"request", r.request>>} \in Claude!Links(L)
  <2>1. r.session \in Claude!Sessions(L)
    BY ClaudeRowOrigin DEF Claude!Sessions
  <2>2. {Claude!Session(r.session), <<"entry", r.entry>>} \in Claude!Links(L)
    BY Zenon DEF Claude!Links
  <2>3. r.message # None => {Claude!Session(r.session), <<"message", r.message>>} \in Claude!Links(L)
    BY Zenon DEF Claude!Links
  <2>4. r.request # None => {Claude!Session(r.session), <<"request", r.request>>} \in Claude!Links(L)
    BY Zenon DEF Claude!Links
  <2> QED BY <2>1, <2>2, <2>3, <2>4
<1>40. ASSUME NEW s, NEW t, NEW key, {s, key} \in Claude!Links(L), {t, key} \in Claude!Links(L), s \in X
       PROVE  t \in X
  <2>1. key \in X
    BY <1>1, <1>40
  <2> QED BY <1>1, <1>40, <2>1
<1>5. ASSUME NEW r \in Claude!Rows(L), NEW q \in Claude!Rows(L), Claude!Joined(r, q), Claude!Session(r.session) \in X
      PROVE  Claude!Session(q.session) \in X
  <2>1. CASE Claude!Observation(r) = Claude!Observation(q)
    BY <1>5, <2>1 DEF Claude!Observation
  <2>2. CASE r.entry = q.entry
    <3>1. {Claude!Session(r.session), <<"entry", r.entry>>} \in Claude!Links(L) /\ {Claude!Session(q.session), <<"entry", r.entry>>} \in Claude!Links(L)
      BY <1>4, <2>2
    <3> QED BY <1>40, <1>5, <3>1
  <2>3. CASE r.message # None /\ r.message = q.message
    <3>1. {Claude!Session(r.session), <<"message", r.message>>} \in Claude!Links(L) /\ {Claude!Session(q.session), <<"message", r.message>>} \in Claude!Links(L)
      BY <1>4, <2>3
    <3> QED BY <1>40, <1>5, <3>1
  <2>4. CASE r.request # None /\ r.request = q.request
    <3>1. {Claude!Session(r.session), <<"request", r.request>>} \in Claude!Links(L) /\ {Claude!Session(q.session), <<"request", r.request>>} \in Claude!Links(L)
      BY <1>4, <2>4
    <3> QED BY <1>40, <1>5, <3>1
  <2> QED BY <1>5, <2>1, <2>2, <2>3, <2>4 DEF Claude!Joined
<1>6. ASSUME NEW r \in Claude!Rows(L), NEW q \in Claude!Rows(L), Claude!Joined(r, q)
      PROVE  r.session \in ClaudeScope(L, b) <=> q.session \in ClaudeScope(L, b)
  BY <1>2, <1>4, <1>5, <1>6, ClaudeJoinedIsSymmetric
<1> QED BY <1>2, <1>3, <1>6

-----------------------------------------------------------------------------
(* Deciding the scope of an import, and deciding everything. *)

ClaudeRowsIn(L, scope) == {r \in Claude!Rows(L) : r.session \in scope}

LEMMA ClaudeAllRows ==
  ASSUME NEW L
  PROVE  ClaudeRowsIn(L, Claude!Sessions(L)) = Claude!Rows(L)
<1>1. \A r \in Claude!Rows(L) : r.session \in Claude!Sessions(L)
  BY ClaudeRowOrigin DEF Claude!Sessions
<1> QED BY <1>1 DEF ClaudeRowsIn

(* What is decided of an observation, by any of its rows. *)
ClaudeDecides(d, L, C) ==
  /\ DOMAIN d = {Claude!Observation(r) : r \in C} /\ d = [o \in DOMAIN d |-> d[o]]
  /\ \A r \in C : d[Claude!Observation(r)] = Claude!DecideCall(L, Claude!Component(C, r), Claude!Observation(r))
LEMMA ClaudeDecidedIs ==
  ASSUME Claude!ClaudeConstants, NEW L, L \subseteq Claude!Readings, NEW scope
  PROVE  ClaudeDecides(Claude!Decide(L, scope), L, ClaudeRowsIn(L, scope))
<1> DEFINE C == ClaudeRowsIn(L, scope)
           d == [o \in {Claude!Observation(r) : r \in C} |-> Claude!DecideCall(L, Claude!Component(C, CHOOSE r \in C : Claude!Observation(r) = o), o)]
<1>1. Claude!Decide(L, scope) = d
  BY Zenon DEF Claude!Decide, ClaudeRowsIn
<1>2. IsFiniteSet(C)
  BY ClaudeFiniteRows, FS_Subset DEF ClaudeRowsIn
<1> HIDE DEF C
<1>3. ASSUME NEW r \in C
      PROVE  d[Claude!Observation(r)] = Claude!DecideCall(L, Claude!Component(C, r), Claude!Observation(r))
  <2> DEFINE q == CHOOSE q \in C : Claude!Observation(q) = Claude!Observation(r)
  <2>1. q \in C /\ Claude!Observation(q) = Claude!Observation(r)
    OBVIOUS
  <2>2. d[Claude!Observation(r)] = Claude!DecideCall(L, Claude!Component(C, q), Claude!Observation(r))
    OBVIOUS
  <2> HIDE DEF q, d
  <2>3. Claude!Joined(r, q)
    BY <2>1 DEF Claude!Joined
  <2>4. Claude!Component(C, q) = Claude!Component(C, r)
    BY <1>2, <2>1, <2>3, ClaudeJoinedComponent
  <2> QED BY <2>2, <2>4
<1>4. DOMAIN d = {Claude!Observation(r) : r \in C} /\ d = [o \in DOMAIN d |-> d[o]]
  OBVIOUS
<1> HIDE DEF d
<1> QED BY <1>1, <1>3, <1>4 DEF C, ClaudeDecides

LEMMA ClaudeAllDecidedIs ==
  ASSUME Claude!ClaudeConstants, NEW L, L \subseteq Claude!Readings
  PROVE  ClaudeDecides(Claude!Decide(L, Claude!Sessions(L)), L, Claude!Rows(L))
<1> DEFINE scope == Claude!Sessions(L)
<1>1. ClaudeRowsIn(L, scope) = Claude!Rows(L)
  BY ClaudeAllRows
<1> HIDE DEF scope
<1>2. ClaudeDecides(Claude!Decide(L, scope), L, ClaudeRowsIn(L, scope))
  BY ClaudeDecidedIs
<1>3. ClaudeDecides(Claude!Decide(L, scope), L, Claude!Rows(L))
  BY <1>1, <1>2
<1> QED BY <1>3 DEF scope

(* A call is decided alike as long as the same of its rows are replaced. *)
LEMMA ClaudeSameDecision ==
  ASSUME NEW K, NEW L, NEW G, \A r \in G : Claude!Superseded(K, r) <=> Claude!Superseded(L, r)
  PROVE  /\ Claude!Active(K, G) = Claude!Active(L, G)
         /\ \A o : Claude!DecideCall(K, G, o) = Claude!DecideCall(L, G, o)
<1>1. Claude!Active(K, G) = Claude!Active(L, G)
  <2>1. {r \in G : ~Claude!Superseded(K, r)} = {r \in G : ~Claude!Superseded(L, r)}
    OBVIOUS
  <2> QED BY <2>1 DEF Claude!Active
<1>2. {r \in G : Claude!Identified(r) /\ ~Claude!Superseded(K, r)} = {r \in G : Claude!Identified(r) /\ ~Claude!Superseded(L, r)}
  OBVIOUS
<1>3. Claude!Canonical(K, G) = Claude!Canonical(L, G)
  BY <1>2, Zenon DEF Claude!Canonical
<1>4. ASSUME NEW o PROVE Claude!DecideCall(K, G, o) = Claude!DecideCall(L, G, o)
  BY <1>1, <1>2, <1>3, Zenon DEF Claude!DecideCall
<1> QED BY <1>1, <1>4

(* Outside the scope nothing is new, and components are what they were. *)
ClaudeStays(K, L, scope, r) ==
  LET G == Claude!Component(Claude!Rows(K), r) IN
  /\ r \in Claude!Rows(K) /\ G = Claude!Component(Claude!Rows(L), r) /\ Claude!Active(K, G) = Claude!Active(L, G)
  /\ \A o : Claude!DecideCall(K, G, o) = Claude!DecideCall(L, G, o)
  /\ \A q \in G : q \in Claude!Rows(L) /\ q.session \notin scope
LEMMA ClaudeOutsideScope ==
  ASSUME Claude!ClaudeConstants, NEW K, K \subseteq Claude!Readings, NEW b, b \subseteq Claude!Readings,
         NEW L, L = K \cup b, NEW r \in Claude!Rows(L), r.session \notin ClaudeScope(L, b)
  PROVE  ClaudeStays(K, L, ClaudeScope(L, b), r)
<1> DEFINE D == {q \in Claude!Rows(L) : q.session \notin ClaudeScope(L, b)}
<1>1. L \subseteq Claude!Readings /\ b \subseteq L
  OBVIOUS
<1>2. /\ \A g \in b : Claude!Accepted(g.file) => g.file.session \in ClaudeScope(L, b)
      /\ \A p, q \in Claude!Rows(L) : Claude!Joined(p, q) => (p.session \in ClaudeScope(L, b) <=> q.session \in ClaudeScope(L, b))
  BY <1>1, ClaudeScopeIsWhole
<1>3. Claude!Rows(K) \subseteq Claude!Rows(L)
  BY DEF Claude!Rows
<1>4. \A q \in D : q \in Claude!Rows(K) /\ (Claude!Superseded(K, q) <=> Claude!Superseded(L, q))
  <2> TAKE q \in D
  <2>1. PICK g \in L : /\ Claude!Accepted(g.file) /\ q.file = g.file /\ q.session = g.file.session
                       /\ q \in Claude!ReadRows(g.profile, g.file)
    BY ClaudeRowOrigin
  <2>2. g \in K
    BY <1>2, <2>1
  <2>3. q \in Claude!Rows(K)
    BY <2>1, <2>2 DEF Claude!Rows
  <2>4. ASSUME NEW h \in L, h.file = q.file, Claude!Accepted(h.file)
        PROVE  h \in K
    BY <1>2, <2>1, <2>4
  <2> QED BY <2>3, <2>4 DEF Claude!Superseded
<1>5. D \subseteq Claude!Rows(L) /\ D \subseteq Claude!Rows(K) /\ r \in D
  BY <1>4
<1>6. ClaudeWhole(Claude!Rows(L), D) /\ ClaudeWhole(Claude!Rows(K), D)
  BY <1>2, <1>3, <1>5 DEF ClaudeWhole
<1>7. IsFiniteSet(Claude!Rows(L)) /\ IsFiniteSet(Claude!Rows(K)) /\ IsFiniteSet(D)
  BY <1>1, <1>5, ClaudeFiniteRows, FS_Subset
<1> DEFINE G == Claude!Component(D, r)
<1>8. G = Claude!Component(Claude!Rows(K), r) /\ G = Claude!Component(Claude!Rows(L), r) /\ G \subseteq D
  <2> HIDE DEF D
  <2>1. G = Claude!Component(Claude!Rows(K), r)
    BY <1>5, <1>6, <1>7, ClaudeComponentWithin
  <2>2. G = Claude!Component(Claude!Rows(L), r)
    BY <1>5, <1>6, <1>7, ClaudeComponentWithin
  <2>3. G \subseteq D
    BY <1>5, <1>7, ClaudeComponentIsLeast
  <2> QED BY <2>1, <2>2, <2>3
<1>9. \A q \in G : Claude!Superseded(K, q) <=> Claude!Superseded(L, q)
  BY <1>4, <1>8
<1> HIDE DEF G
<1>10. Claude!Active(K, G) = Claude!Active(L, G) /\ \A o : Claude!DecideCall(K, G, o) = Claude!DecideCall(L, G, o)
  BY <1>9, ClaudeSameDecision
<1> QED BY <1>5, <1>8, <1>10 DEF ClaudeStays

LEMMA ClaudeInsideScope ==
  ASSUME Claude!ClaudeConstants, NEW L, L \subseteq Claude!Readings, NEW b,
         NEW r \in Claude!Rows(L), r.session \in ClaudeScope(L, b)
  PROVE  /\ r \in ClaudeRowsIn(L, ClaudeScope(L, b))
         /\ Claude!Component(ClaudeRowsIn(L, ClaudeScope(L, b)), r) = Claude!Component(Claude!Rows(L), r)
<1> DEFINE D == ClaudeRowsIn(L, ClaudeScope(L, b))
<1>1. D \subseteq Claude!Rows(L) /\ r \in D
  BY DEF ClaudeRowsIn
<1>2. ClaudeWhole(Claude!Rows(L), D)
  BY ClaudeScopeIsWhole DEF ClaudeWhole, ClaudeRowsIn
<1>3. IsFiniteSet(Claude!Rows(L))
  BY ClaudeFiniteRows
<1> HIDE DEF D
<1>4. Claude!Component(D, r) = Claude!Component(Claude!Rows(L), r)
  BY <1>1, <1>2, <1>3, ClaudeComponentWithin
<1> QED BY <1>1, <1>4 DEF D

ClaudeMerges(d, L, scope, part, before) ==
  d = [o \in Claude!Observations(L) |-> IF o.session \in scope THEN part[o] ELSE before[o]]
LEMMA ClaudeScopeDecidesAll ==
  ASSUME Claude!ClaudeConstants, NEW K, K \subseteq Claude!Readings, NEW b, b \subseteq Claude!Readings,
         NEW L, L = K \cup b, NEW scope, scope = ClaudeScope(L, b),
         NEW part, part = Claude!Decide(L, scope), NEW before, before = Claude!Decide(K, Claude!Sessions(K)),
         NEW d, ClaudeMerges(d, L, scope, part, before)
  PROVE  d = Claude!Decide(L, Claude!Sessions(L))
<1> DEFINE all == Claude!Decide(L, Claude!Sessions(L))
<1>0. L \subseteq Claude!Readings
  OBVIOUS
<1>1. ClaudeDecides(all, L, Claude!Rows(L)) /\ ClaudeDecides(part, L, ClaudeRowsIn(L, scope)) /\ ClaudeDecides(before, K, Claude!Rows(K))
  BY <1>0, ClaudeDecidedIs, ClaudeAllDecidedIs
<1> HIDE DEF all
<1>2. DOMAIN all = Claude!Observations(L) /\ all = [o \in DOMAIN all |-> all[o]]
  BY <1>1 DEF ClaudeDecides, Claude!Observations
<1>3. /\ \A r \in Claude!Rows(L) : all[Claude!Observation(r)] = Claude!DecideCall(L, Claude!Component(Claude!Rows(L), r), Claude!Observation(r))
      /\ \A r \in ClaudeRowsIn(L, scope) :
           part[Claude!Observation(r)] = Claude!DecideCall(L, Claude!Component(ClaudeRowsIn(L, scope), r), Claude!Observation(r))
      /\ \A r \in Claude!Rows(K) : before[Claude!Observation(r)] = Claude!DecideCall(K, Claude!Component(Claude!Rows(K), r), Claude!Observation(r))
  BY <1>1 DEF ClaudeDecides
<1>4. ASSUME NEW o \in Claude!Observations(L)
      PROVE  (IF o.session \in scope THEN part[o] ELSE before[o]) = all[o]
  <2>1. PICK r \in Claude!Rows(L) : o = Claude!Observation(r)
    BY DEF Claude!Observations
  <2>2. o.session = r.session
    BY <2>1 DEF Claude!Observation
  <2>3. CASE r.session \in scope
    <3>1. r \in ClaudeRowsIn(L, scope) /\ Claude!Component(ClaudeRowsIn(L, scope), r) = Claude!Component(Claude!Rows(L), r)
      BY <1>0, <2>3, ClaudeInsideScope
    <3> QED BY <1>3, <2>1, <2>2, <2>3, <3>1
  <2>4. CASE r.session \notin scope
    <3>0. r.session \notin ClaudeScope(L, b)
      BY <2>4
    <3>1. ClaudeStays(K, L, ClaudeScope(L, b), r)
      BY <3>0, ClaudeOutsideScope
    <3>2. /\ r \in Claude!Rows(K) /\ Claude!Component(Claude!Rows(K), r) = Claude!Component(Claude!Rows(L), r)
          /\ Claude!DecideCall(K, Claude!Component(Claude!Rows(K), r), o) = Claude!DecideCall(L, Claude!Component(Claude!Rows(K), r), o)
      BY <3>1 DEF ClaudeStays
    <3> QED BY <1>3, <2>1, <2>2, <2>4, <3>2
  <2> QED BY <2>3, <2>4
<1>5. [o \in Claude!Observations(L) |-> IF o.session \in scope THEN part[o] ELSE before[o]] = all
  BY <1>2, <1>4, Zenon
<1> QED BY <1>5, Zenon DEF all, ClaudeMerges

(* The observations of calls whose rows tell different outputs. *)
ClaudeVaries(L, G) == Cardinality({r.output : r \in Claude!Active(L, G)}) > 1
ClaudeOneVaries(L, C, o) ==
  \E r \in C : LET G == Claude!Component(C, r) IN ClaudeVaries(L, G) /\ \E q \in Claude!Active(L, G) : o = Claude!Observation(q)

LEMMA ClaudeVaryingIs ==
  ASSUME NEW L, NEW scope, NEW o
  PROVE  o \in Claude!Varying(L, scope) <=> ClaudeOneVaries(L, ClaudeRowsIn(L, scope), o)
<1> DEFINE C == ClaudeRowsIn(L, scope)
<1>1. o \in Claude!Varying(L, scope) <=>
        o \in UNION {{Claude!Observation(r) : r \in A} :
                       A \in {B \in {Claude!Active(L, G) : G \in Claude!Components(C)} : Cardinality({r.output : r \in B}) > 1}}
  BY ClaudeLibrary, Zenon DEF Claude!Varying, ClaudeRowsIn
<1> HIDE DEF C
<1>2. o \in Claude!Varying(L, scope) <=>
        \E G \in Claude!Components(C) : ClaudeVaries(L, G) /\ \E q \in Claude!Active(L, G) : o = Claude!Observation(q)
  <2> DEFINE S == {Claude!Active(L, G) : G \in Claude!Components(C)}
             D == {B \in S : Cardinality({r.output : r \in B}) > 1}
             T == {{Claude!Observation(r) : r \in A} : A \in D}
  <2>1. \A B : B \in S <=> \E G \in Claude!Components(C) : B = Claude!Active(L, G)
    BY Zenon
  <2>2. \A B : B \in D <=> B \in S /\ Cardinality({r.output : r \in B}) > 1
    BY Zenon
  <2>3. \A X : X \in T <=> \E A \in D : X = {Claude!Observation(r) : r \in A}
    BY Zenon
  <2>4. o \in Claude!Varying(L, scope) <=> o \in UNION T
    BY <1>1, Zenon
  <2> HIDE DEF S, D, T
  <2>5. o \in UNION T <=> \E A \in D : o \in {Claude!Observation(r) : r \in A}
    BY <2>3, Zenon
  <2>6. \A A : o \in {Claude!Observation(r) : r \in A} <=> \E q \in A : o = Claude!Observation(q)
    BY Zenon
  <2>7. o \in UNION T <=> \E A \in D : \E q \in A : o = Claude!Observation(q)
    BY <2>5, <2>6, Zenon
  <2>8. \A G : ClaudeVaries(L, G) <=> Cardinality({r.output : r \in Claude!Active(L, G)}) > 1
    BY Zenon DEF ClaudeVaries
  <2>9. \A B : B \in D <=> \E G \in Claude!Components(C) : ClaudeVaries(L, G) /\ B = Claude!Active(L, G)
    BY <2>1, <2>2, <2>8, Zenon
  <2>10. (\E A \in D : \E q \in A : o = Claude!Observation(q))
           <=> \E G \in Claude!Components(C) : ClaudeVaries(L, G) /\ \E q \in Claude!Active(L, G) : o = Claude!Observation(q)
    BY <2>9, Zenon
  <2> QED BY <2>4, <2>7, <2>10
<1>3. \A G : G \in Claude!Components(C) <=> \E r \in C : G = Claude!Component(C, r)
  BY Zenon DEF Claude!Components
<1>4. o \in Claude!Varying(L, scope) <=> ClaudeOneVaries(L, C, o)
  BY <1>2, <1>3, Zenon DEF ClaudeOneVaries
<1> QED BY <1>4, Zenon DEF C

LEMMA ClaudeAllVaryingIs ==
  ASSUME NEW L, NEW o
  PROVE  o \in Claude!Varying(L, Claude!Sessions(L)) <=> ClaudeOneVaries(L, Claude!Rows(L), o)
<1> DEFINE scope == Claude!Sessions(L)
<1>1. ClaudeRowsIn(L, scope) = Claude!Rows(L)
  BY ClaudeAllRows
<1> HIDE DEF scope
<1>2. o \in Claude!Varying(L, scope) <=> ClaudeOneVaries(L, ClaudeRowsIn(L, scope), o)
  BY ClaudeVaryingIs
<1>3. o \in Claude!Varying(L, scope) <=> ClaudeOneVaries(L, Claude!Rows(L), o)
  BY <1>1, <1>2
<1> QED BY <1>3 DEF scope

LEMMA ClaudeActiveInCall == ASSUME NEW L, NEW G, NEW r \in Claude!Active(L, G) PROVE r \in G
BY DEF Claude!Active

LEMMA ClaudeScopeVariesAll ==
  ASSUME Claude!ClaudeConstants, NEW K, K \subseteq Claude!Readings, NEW b, b \subseteq Claude!Readings,
         NEW L, L = K \cup b, NEW scope, scope = ClaudeScope(L, b)
  PROVE  {o \in Claude!Varying(K, Claude!Sessions(K)) : o.session \notin scope} \cup Claude!Varying(L, scope) = Claude!Varying(L, Claude!Sessions(L))
<1>0. L \subseteq Claude!Readings /\ Claude!Rows(K) \subseteq Claude!Rows(L)
  BY DEF Claude!Rows
<1>1. \A r : Claude!Observation(r).session = r.session
  BY DEF Claude!Observation
<1>2. IsFiniteSet(Claude!Rows(K)) /\ IsFiniteSet(Claude!Rows(L))
  BY <1>0, ClaudeFiniteRows
<1>3. ASSUME NEW r \in Claude!Rows(L), r.session \notin scope
      PROVE  /\ r \in Claude!Rows(K) /\ Claude!Component(Claude!Rows(K), r) = Claude!Component(Claude!Rows(L), r)
             /\ Claude!Active(K, Claude!Component(Claude!Rows(K), r)) = Claude!Active(L, Claude!Component(Claude!Rows(K), r))
             /\ \A q \in Claude!Component(Claude!Rows(K), r) : q \in Claude!Rows(L) /\ q.session \notin scope
  <2>1. r.session \notin ClaudeScope(L, b)
    BY <1>3
  <2>2. ClaudeStays(K, L, ClaudeScope(L, b), r)
    BY <2>1, ClaudeOutsideScope
  <2> QED BY <2>2 DEF ClaudeStays
<1>4. ASSUME NEW r \in Claude!Rows(L), r.session \in scope
      PROVE  r \in ClaudeRowsIn(L, scope) /\ Claude!Component(ClaudeRowsIn(L, scope), r) = Claude!Component(Claude!Rows(L), r)
  BY <1>0, <1>4, ClaudeInsideScope
<1>5. ASSUME NEW o \in Claude!Varying(L, Claude!Sessions(L))
      PROVE  o \in Claude!Varying(L, scope) \/ (o \in Claude!Varying(K, Claude!Sessions(K)) /\ o.session \notin scope)
  <2>1. PICK r \in Claude!Rows(L) : /\ ClaudeVaries(L, Claude!Component(Claude!Rows(L), r))
                             /\ \E q \in Claude!Active(L, Claude!Component(Claude!Rows(L), r)) : o = Claude!Observation(q)
    <3>1. ClaudeOneVaries(L, Claude!Rows(L), o)
      BY <1>5, ClaudeAllVaryingIs
    <3> QED BY <3>1, Zenon DEF ClaudeOneVaries
  <2>2. CASE r.session \in scope
    <3>1. ClaudeOneVaries(L, ClaudeRowsIn(L, scope), o)
      BY <1>4, <2>1, <2>2, Zenon DEF ClaudeOneVaries
    <3> QED BY <3>1, ClaudeVaryingIs
  <2>3. CASE r.session \notin scope
    <3>1. PICK q \in Claude!Active(L, Claude!Component(Claude!Rows(L), r)) : o = Claude!Observation(q)
      BY <2>1
    <3>2. /\ r \in Claude!Rows(K) /\ Claude!Component(Claude!Rows(K), r) = Claude!Component(Claude!Rows(L), r)
          /\ Claude!Active(K, Claude!Component(Claude!Rows(K), r)) = Claude!Active(L, Claude!Component(Claude!Rows(K), r))
          /\ \A p \in Claude!Component(Claude!Rows(K), r) : p \in Claude!Rows(L) /\ p.session \notin scope
      BY <1>3, <2>3
    <3>3. q.session \notin scope
      BY <3>1, <3>2, ClaudeActiveInCall
    <3>4. ClaudeVaries(K, Claude!Component(Claude!Rows(K), r)) /\ q \in Claude!Active(K, Claude!Component(Claude!Rows(K), r))
      BY <2>1, <3>1, <3>2 DEF ClaudeVaries
    <3>5. o \in Claude!Varying(K, Claude!Sessions(K))
      <4>1. ClaudeOneVaries(K, Claude!Rows(K), o)
        BY <3>1, <3>2, <3>4, Zenon DEF ClaudeOneVaries
      <4> QED BY <4>1, ClaudeAllVaryingIs
    <3> QED BY <1>1, <3>1, <3>3, <3>5
  <2> QED BY <2>2, <2>3
<1>6. ASSUME NEW o \in Claude!Varying(L, scope)
      PROVE  o \in Claude!Varying(L, Claude!Sessions(L))
  <2>1. PICK r \in ClaudeRowsIn(L, scope) : /\ ClaudeVaries(L, Claude!Component(ClaudeRowsIn(L, scope), r))
                             /\ \E q \in Claude!Active(L, Claude!Component(ClaudeRowsIn(L, scope), r)) : o = Claude!Observation(q)
    <3>1. ClaudeOneVaries(L, ClaudeRowsIn(L, scope), o)
      BY <1>6, ClaudeVaryingIs
    <3> QED BY <3>1, Zenon DEF ClaudeOneVaries
  <2>2. r \in Claude!Rows(L) /\ r.session \in scope
    BY DEF ClaudeRowsIn
  <2>3. ClaudeOneVaries(L, Claude!Rows(L), o)
    BY <1>4, <2>1, <2>2, Zenon DEF ClaudeOneVaries
  <2> QED BY <2>3, ClaudeAllVaryingIs
<1>7. ASSUME NEW o \in Claude!Varying(K, Claude!Sessions(K)), o.session \notin scope
      PROVE  o \in Claude!Varying(L, Claude!Sessions(L))
  <2>1. PICK r \in Claude!Rows(K) : /\ ClaudeVaries(K, Claude!Component(Claude!Rows(K), r))
                             /\ \E q \in Claude!Active(K, Claude!Component(Claude!Rows(K), r)) : o = Claude!Observation(q)
    <3>1. ClaudeOneVaries(K, Claude!Rows(K), o)
      BY <1>7, ClaudeAllVaryingIs
    <3> QED BY <3>1, Zenon DEF ClaudeOneVaries
  <2>2. PICK q \in Claude!Active(K, Claude!Component(Claude!Rows(K), r)) : o = Claude!Observation(q)
    BY <2>1
  <2>3. q \in Claude!Rows(K) /\ Claude!Component(Claude!Rows(K), q) = Claude!Component(Claude!Rows(K), r)
    BY <1>2, <2>2, ClaudeActiveInCall, ClaudeSameComponent
  <2>4. q \in Claude!Rows(L) /\ q.session \notin scope
    BY <1>0, <1>1, <1>7, <2>2, <2>3
  <2>5. /\ Claude!Component(Claude!Rows(K), q) = Claude!Component(Claude!Rows(L), q)
        /\ Claude!Active(K, Claude!Component(Claude!Rows(K), q)) = Claude!Active(L, Claude!Component(Claude!Rows(K), q))
    BY <1>3, <2>4
  <2>6. ClaudeVaries(L, Claude!Component(Claude!Rows(L), q)) /\ q \in Claude!Active(L, Claude!Component(Claude!Rows(L), q))
    BY <2>1, <2>2, <2>3, <2>5 DEF ClaudeVaries
  <2>7. ClaudeOneVaries(L, Claude!Rows(L), o)
    BY <2>2, <2>4, <2>6, Zenon DEF ClaudeOneVaries
  <2> QED BY <2>7, ClaudeAllVaryingIs
<1> QED BY <1>5, <1>6, <1>7

-----------------------------------------------------------------------------
(* Deciding part is deciding everything. *)

ClaudeAccountsInv == read \subseteq Claude!Readings /\ Claude!Incremental

LEMMA ClaudeAccountsInit == ASSUME Claude!Init PROVE ClaudeAccountsInv
BY DEF Claude!Init, ClaudeAccountsInv, Claude!Incremental, Claude!Readings, Claude!Profiles

LEMMA ClaudeAccountsStep ==
  ASSUME Claude!ClaudeConstants, ClaudeAccountsInv, [Claude!Next]_Claude!vars
  PROVE  ClaudeAccountsInv'
<1>1. CASE UNCHANGED Claude!vars
  BY <1>1 DEF Claude!vars, ClaudeAccountsInv, Claude!Incremental
<1>2. ASSUME NEW b \in Claude!Batches, Claude!Import(b)
      PROVE  ClaudeAccountsInv'
  <2> DEFINE L == read \cup b
             scope == Claude!Affected(L, {g.file.locator : g \in b})
  <2>1. b \subseteq Claude!Readings
    BY DEF Claude!Batches, Claude!Readings, Claude!Profiles
  <2>2. /\ read' = L
        /\ decision' = [o \in Claude!Observations(L) |-> IF o.session \in scope THEN Claude!Decide(L, scope)[o] ELSE decision[o]]
        /\ varying' = {o \in varying : o.session \notin scope} \cup Claude!Varying(L, scope)
    BY <1>2, Zenon DEF Claude!Import
  <2>3. scope = ClaudeScope(L, b)
    BY Zenon DEF ClaudeScope
  <2>4. decision = Claude!Decide(read, Claude!Sessions(read)) /\ varying = Claude!Varying(read, Claude!Sessions(read)) /\ read \subseteq Claude!Readings
    BY DEF ClaudeAccountsInv, Claude!Incremental
  <2>5. L = read \cup b
    OBVIOUS
  <2> HIDE DEF L, scope
  <2>6. decision' = Claude!Decide(L, Claude!Sessions(L))
    <3> DEFINE part == Claude!Decide(L, scope)
               anew == decision'
    <3>1. ClaudeMerges(anew, L, scope, part, decision)
      BY <2>2, Zenon DEF ClaudeMerges
    <3>2. part = Claude!Decide(L, scope)
      OBVIOUS
    <3> HIDE DEF part, anew
    <3>3. anew = Claude!Decide(L, Claude!Sessions(L))
      BY <2>1, <2>3, <2>4, <2>5, <3>1, <3>2, ClaudeScopeDecidesAll
    <3> QED BY <3>3 DEF anew
  <2>7. varying' = Claude!Varying(L, Claude!Sessions(L))
    <3>1. {o \in Claude!Varying(read, Claude!Sessions(read)) : o.session \notin scope} \cup Claude!Varying(L, scope)
            = Claude!Varying(L, Claude!Sessions(L))
      BY <2>1, <2>3, <2>4, <2>5, ClaudeScopeVariesAll
    <3> QED BY <2>2, <2>4, <3>1, Zenon
  <2>8. read' \subseteq Claude!Readings
    BY <2>1, <2>2, <2>4, <2>5
  <2> QED BY <2>2, <2>6, <2>7, <2>8 DEF ClaudeAccountsInv, Claude!Incremental
<1> QED BY <1>1, <1>2 DEF Claude!Next

LEMMA ClaudeAccountsAlways == ASSUME Claude!ClaudeConstants PROVE Claude!Spec => []ClaudeAccountsInv
<1>1. ClaudeAccountsInv /\ [Claude!Next]_Claude!vars => ClaudeAccountsInv'
  BY ClaudeAccountsStep
<1>2. Claude!Init => ClaudeAccountsInv
  BY ClaudeAccountsInit
<1> QED BY <1>1, <1>2, PTL DEF Claude!Spec

(* Storage._affected_sessions reaches from the files of a transaction every
   session whose rows they could be one call with, so deciding those sessions only
   leaves the decisions and the warnings that deciding all of them would make:
   for any files, in any order and batches. *)
THEOREM ClaudeDecidedAsAll == ASSUME Claude!ClaudeConstants PROVE Claude!Spec => []Claude!Incremental
<1>1. ClaudeAccountsInv => Claude!Incremental
  BY DEF ClaudeAccountsInv
<1> QED BY <1>1, ClaudeAccountsAlways, PTL

-----------------------------------------------------------------------------
(* The first of some rows: their ranks are ordered as words are. *)

ClaudeRowRank(r) == /\ DOMAIN Claude!Rank(r) = 1..5 /\ \A k \in 1..5 : Claude!Rank(r)[k] \in Nat
LEMMA ClaudeRanksAreNumbers ==
  ASSUME Claude!ClaudeConstants, NEW L, L \subseteq Claude!Readings, NEW r \in Claude!Rows(L)
  PROVE  ClaudeRowRank(r)
<1>1. PICK g \in L : /\ r.file = g.file
                     /\ \E i \in DOMAIN g.file.lines : r = Claude!Row(g.profile, g.file, i)
  BY ClaudeRowOrigin
<1>2. PICK i \in DOMAIN g.file.lines : r = Claude!Row(g.profile, g.file, i)
  BY <1>1
<1>3. g.file \in ClaudeFiles
  BY DEF Claude!Readings
<1>4. r.line = i /\ r.at = g.file.lines[i].at
  BY <1>2 DEF Claude!Row
<1>5. r.file.place \in Nat /\ r.line \in Nat /\ r.at \in Nat \cup {None}
  BY <1>1, <1>3, <1>4 DEF Claude!ClaudeConstants
<1>6. /\ (IF r.current THEN 0 ELSE 1) \in Nat
      /\ (IF r.at = None THEN 1 ELSE 0) \in Nat
      /\ (IF r.at = None THEN 0 ELSE r.at) \in Nat
  BY <1>5
<1> DEFINE a == IF r.current THEN 0 ELSE 1
           b == IF r.at = None THEN 1 ELSE 0
           c == IF r.at = None THEN 0 ELSE r.at
           d == r.file.place
           e == r.line
<1>7. Claude!Rank(r) = <<a, b, c, d, e>> /\ a \in Nat /\ b \in Nat /\ c \in Nat /\ d \in Nat /\ e \in Nat
  BY <1>5, <1>6 DEF Claude!Rank
<1> HIDE DEF a, b, c, d, e
<1>8. DOMAIN <<a, b, c, d, e>> = 1..5 /\ \A k \in 1..5 : <<a, b, c, d, e>>[k] \in Nat
  BY <1>7
<1> QED BY <1>7, <1>8 DEF ClaudeRowRank

(* The rows of R least at one place of their ranks. *)
ClaudeLeastAt(R, k) == {r \in R : \A q \in R : Claude!Rank(r)[k] <= Claude!Rank(q)[k]}
LEMMA ClaudeLeastAtIs ==
  ASSUME NEW R, R # {}, \A r \in R : ClaudeRowRank(r), NEW k \in 1..5
  PROVE  ClaudeLeastAt(R, k) # {} /\ ClaudeLeastAt(R, k) \subseteq R
<1> DEFINE T == {Claude!Rank(r)[k] : r \in R}
<1>1. T \subseteq Nat /\ T # {}
  BY DEF ClaudeRowRank
<1>2. \A n : n \in T <=> \E r \in R : n = Claude!Rank(r)[k]
  OBVIOUS
<1> HIDE DEF T
<1>3. PICK n \in T : \A m \in T : n <= m
  BY <1>1, LeastNumber
<1>4. PICK r \in R : n = Claude!Rank(r)[k]
  BY <1>2
<1>5. \A q \in R : Claude!Rank(r)[k] <= Claude!Rank(q)[k]
  BY <1>2, <1>3, <1>4
<1> QED BY <1>5 DEF ClaudeLeastAt

LEMMA ClaudeFirstIs ==
  ASSUME NEW R, R # {}, \A r \in R : ClaudeRowRank(r)
  PROVE  Claude!First(R) \in R
<1> DEFINE R1 == ClaudeLeastAt(R, 1)
           R2 == ClaudeLeastAt(R1, 2)
           R3 == ClaudeLeastAt(R2, 3)
           R4 == ClaudeLeastAt(R3, 4)
           R5 == ClaudeLeastAt(R4, 5)
<1>1. R1 # {} /\ R1 \subseteq R
  BY ClaudeLeastAtIs
<1>10. \A r \in R1 : ClaudeRowRank(r)
  BY <1>1
<1>2. R2 # {} /\ R2 \subseteq R1
  <2> HIDE DEF R1
  <2> QED BY <1>1, <1>10, ClaudeLeastAtIs
<1>11. \A r \in R2 : ClaudeRowRank(r)
  BY <1>10, <1>2
<1>3. R3 # {} /\ R3 \subseteq R2
  <2> HIDE DEF R2
  <2> QED BY <1>2, <1>11, ClaudeLeastAtIs
<1>12. \A r \in R3 : ClaudeRowRank(r)
  BY <1>11, <1>3
<1>4. R4 # {} /\ R4 \subseteq R3
  <2> HIDE DEF R3
  <2> QED BY <1>3, <1>12, ClaudeLeastAtIs
<1>13. \A r \in R4 : ClaudeRowRank(r)
  BY <1>12, <1>4
<1>5. R5 # {} /\ R5 \subseteq R4
  <2> HIDE DEF R4
  <2> QED BY <1>4, <1>13, ClaudeLeastAtIs
<1>14. /\ \A x \in R1, q \in R : Claude!Rank(x)[1] <= Claude!Rank(q)[1]
       /\ \A x \in R2, q \in R1 : Claude!Rank(x)[2] <= Claude!Rank(q)[2]
       /\ \A x \in R3, q \in R2 : Claude!Rank(x)[3] <= Claude!Rank(q)[3]
       /\ \A x \in R4, q \in R3 : Claude!Rank(x)[4] <= Claude!Rank(q)[4]
       /\ \A x \in R5, q \in R4 : Claude!Rank(x)[5] <= Claude!Rank(q)[5]
  BY DEF ClaudeLeastAt
<1>15. /\ \A q \in R : (\A x \in R : Claude!Rank(q)[1] <= Claude!Rank(x)[1]) => q \in R1
       /\ \A q \in R1 : (\A x \in R1 : Claude!Rank(q)[2] <= Claude!Rank(x)[2]) => q \in R2
       /\ \A q \in R2 : (\A x \in R2 : Claude!Rank(q)[3] <= Claude!Rank(x)[3]) => q \in R3
       /\ \A q \in R3 : (\A x \in R3 : Claude!Rank(q)[4] <= Claude!Rank(x)[4]) => q \in R4
  BY DEF ClaudeLeastAt
<1> HIDE DEF R1, R2, R3, R4, R5
<1>6. PICK r \in R5 : TRUE
  BY <1>5
<1>7. r \in R /\ r \in R1 /\ r \in R2 /\ r \in R3 /\ r \in R4
  BY <1>1, <1>2, <1>3, <1>4, <1>5, <1>6
<1>8. ASSUME NEW q \in R, Claude!Before(Claude!Rank(q), Claude!Rank(r))
      PROVE  FALSE
  <2>0. ClaudeRowRank(r) /\ ClaudeRowRank(q)
    BY <1>7
  <2> DEFINE s == Claude!Rank(q)
             t == Claude!Rank(r)
  <2>1. /\ DOMAIN s = 1..5 /\ \A k \in 1..5 : s[k] \in Nat /\ t[k] \in Nat
    BY <2>0 DEF ClaudeRowRank
  <2>2. PICK k \in DOMAIN s : s[k] < t[k] /\ \A j \in 1 .. k - 1 : s[j] = t[j]
    BY <1>8, Zenon DEF Claude!Before
  <2>13. k \in 1..5
    BY <2>1, <2>2
  <2>14. k = 1 \/ k = 2 \/ k = 3 \/ k = 4 \/ k = 5
    BY <2>13
  <2>3. ASSUME s[1] = t[1] PROVE q \in R1
    BY <1>7, <1>14, <1>15, <2>3
  <2>4. ASSUME q \in R1, s[2] = t[2] PROVE q \in R2
    BY <1>7, <1>14, <1>15, <2>4
  <2>5. ASSUME q \in R2, s[3] = t[3] PROVE q \in R3
    BY <1>7, <1>14, <1>15, <2>5
  <2>6. ASSUME q \in R3, s[4] = t[4] PROVE q \in R4
    BY <1>7, <1>14, <1>15, <2>6
  <2>7. /\ t[1] <= s[1] /\ (q \in R1 => t[2] <= s[2]) /\ (q \in R2 => t[3] <= s[3])
        /\ (q \in R3 => t[4] <= s[4]) /\ (q \in R4 => t[5] <= s[5])
    BY <1>6, <1>7, <1>14
  <2> HIDE DEF s, t
  <2>8. CASE k = 1
    BY <2>1, <2>2, <2>7, <2>8
  <2>9. CASE k = 2
    <3>1. s[1] = t[1]
      BY <2>2, <2>9
    <3> QED BY <2>1, <2>2, <2>3, <2>7, <2>9, <3>1
  <2>10. CASE k = 3
    <3>1. s[1] = t[1] /\ s[2] = t[2]
      BY <2>2, <2>10
    <3> QED BY <2>1, <2>2, <2>3, <2>4, <2>7, <2>10, <3>1
  <2>11. CASE k = 4
    <3>1. s[1] = t[1] /\ s[2] = t[2] /\ s[3] = t[3]
      BY <2>2, <2>11
    <3> QED BY <2>1, <2>2, <2>3, <2>4, <2>5, <2>7, <2>11, <3>1
  <2>12. CASE k = 5
    <3>1. s[1] = t[1] /\ s[2] = t[2] /\ s[3] = t[3] /\ s[4] = t[4]
      BY <2>2, <2>12
    <3> QED BY <2>1, <2>2, <2>3, <2>4, <2>5, <2>6, <2>7, <2>12, <3>1
  <2> QED BY <2>14, <2>8, <2>9, <2>10, <2>11, <2>12
<1>9. \E x \in R : \A q \in R : ~Claude!Before(Claude!Rank(q), Claude!Rank(x))
  BY <1>7, <1>8
<1> QED BY <1>9, Zenon DEF Claude!First

-----------------------------------------------------------------------------
(* The row of a call, and what is decided by it. *)

ClaudeNamedRows(L, G) == {r \in G : Claude!Identified(r) /\ ~Claude!Superseded(L, r)}

LEMMA ClaudeObservationTells ==
  ASSUME NEW r, NEW q, Claude!Observation(r) = Claude!Observation(q)
  PROVE  /\ r.session = q.session /\ r.entry = q.entry /\ r.signature = q.signature
         /\ r.output = q.output /\ r.finality = q.finality
BY DEF Claude!Observation

ClaudeCanonicalOf(L, G, c) ==
  c \in ClaudeNamedRows(L, G) /\ ((\E r \in ClaudeNamedRows(L, G) : r.finality = "final") => c.finality = "final")
LEMMA ClaudeCanonicalIs ==
  ASSUME Claude!ClaudeConstants, NEW L, L \subseteq Claude!Readings, NEW G, G \subseteq Claude!Rows(L), ClaudeNamedRows(L, G) # {}
  PROVE  ClaudeCanonicalOf(L, G, Claude!Canonical(L, G))
<1> DEFINE named == ClaudeNamedRows(L, G)
           Same(r) == {q \in named : Claude!Observation(q) = Claude!Observation(r)}
           firsts == {Claude!First(Same(r)) : r \in named}
           final == Claude!OfFinality(firsts, "final")
           R == IF final = {} THEN firsts ELSE final
<1>1. Claude!Canonical(L, G) = Claude!First(R)
  BY Zenon DEF Claude!Canonical, ClaudeNamedRows
<1>2. named \subseteq Claude!Rows(L) /\ named # {}
  BY DEF ClaudeNamedRows
<1>3. \A r \in Claude!Rows(L) : ClaudeRowRank(r)
  BY ClaudeRanksAreNumbers
<1>4. ASSUME NEW r \in named
      PROVE  Claude!First(Same(r)) \in named /\ Claude!Observation(Claude!First(Same(r))) = Claude!Observation(r)
  <2> DEFINE S == Same(r)
  <2>1. S # {} /\ S \subseteq Claude!Rows(L)
    BY <1>2
  <2>2. \A q \in S : q \in named /\ Claude!Observation(q) = Claude!Observation(r)
    OBVIOUS
  <2> HIDE DEF S, named
  <2>3. Claude!First(S) \in S
    BY <1>3, <2>1, ClaudeFirstIs
  <2>4. Claude!First(S) \in named /\ Claude!Observation(Claude!First(S)) = Claude!Observation(r)
    BY <2>2, <2>3
  <2> QED BY <2>4 DEF S
<1> HIDE DEF Same
<1>5. firsts # {} /\ firsts \subseteq named
  BY <1>2, <1>4
<1>6. \A r \in named : r.finality = "final" => final # {}
  <2> TAKE r \in named
  <2> HAVE r.finality = "final"
  <2>1. Claude!First(Same(r)).finality = "final"
    BY <1>4, ClaudeObservationTells
  <2>2. Claude!First(Same(r)) \in firsts
    OBVIOUS
  <2> HIDE DEF firsts
  <2> QED BY <2>1, <2>2 DEF Claude!OfFinality
<1> HIDE DEF firsts, named
<1>7. R # {} /\ R \subseteq named /\ (final # {} => R = final)
  BY <1>5 DEF Claude!OfFinality
<1>8. \A r \in final : r.finality = "final"
  BY DEF Claude!OfFinality
<1> HIDE DEF R, final
<1>9. Claude!First(R) \in R
  <2>1. \A r \in R : ClaudeRowRank(r)
    BY <1>2, <1>3, <1>7
  <2> QED BY <1>7, <2>1, ClaudeFirstIs
<1> QED BY <1>1, <1>6, <1>7, <1>8, <1>9 DEF named, ClaudeCanonicalOf

LEMMA ClaudeDecideCallIs ==
  ASSUME NEW L, NEW G, NEW o, Claude!DecideCall(L, G, o) # None
  PROVE  /\ Claude!DecideCall(L, G, o) = Claude!Observation(Claude!Canonical(L, G))
         /\ ~Claude!Contradicts(G, Claude!Active(L, G)) /\ ClaudeNamedRows(L, G) # {}
BY Zenon DEF Claude!DecideCall, ClaudeNamedRows

LEMMA ClaudeCanonicalCounts ==
  ASSUME Claude!ClaudeConstants, NEW L, L \subseteq Claude!Readings, NEW G, G \subseteq Claude!Rows(L),
         ~Claude!Contradicts(G, Claude!Active(L, G)), ClaudeNamedRows(L, G) # {}
  PROVE  Claude!DecideCall(L, G, Claude!Observation(Claude!Canonical(L, G))) = Claude!Observation(Claude!Canonical(L, G))
<1> DEFINE c == Claude!Canonical(L, G)
           A == Claude!Active(L, G)
<1>1. c \in ClaudeNamedRows(L, G)
  BY ClaudeCanonicalIs DEF ClaudeCanonicalOf
<1>2. c \in A /\ Claude!Identified(c)
  BY <1>1 DEF ClaudeNamedRows, Claude!Active
<1> HIDE DEF c, A
<1>3. Claude!Observation(c) \notin Claude!Identityless(A)
  <2>1. c.entry \in Claude!IdentifiedEntries(A)
    BY <1>2 DEF Claude!IdentifiedEntries
  <2>2. \A r \in A : Claude!Observation(r) = Claude!Observation(c) => r.entry = c.entry
    BY ClaudeObservationTells
  <2> QED BY <2>1, <2>2 DEF Claude!Identityless
<1> QED BY <1>3, Zenon DEF c, A, Claude!DecideCall, ClaudeNamedRows

(* What is decided of the observation of a row, and by which row. *)
ClaudeStands(L, d, r, c) ==
  LET G == Claude!Component(Claude!Rows(L), r) IN
  /\ ClaudeCanonicalOf(L, G, c) /\ ~Claude!Contradicts(G, Claude!Active(L, G))
  /\ d[Claude!Observation(r)] = Claude!Observation(c) /\ d[Claude!Observation(c)] = Claude!Observation(c)
LEMMA ClaudeDecisionStands ==
  ASSUME Claude!ClaudeConstants, NEW L, L \subseteq Claude!Readings, NEW d, ClaudeDecides(d, L, Claude!Rows(L)),
         NEW r \in Claude!Rows(L), d[Claude!Observation(r)] # None
  PROVE  ClaudeStands(L, d, r, Claude!Canonical(L, Claude!Component(Claude!Rows(L), r)))
<1> DEFINE G == Claude!Component(Claude!Rows(L), r)
           c == Claude!Canonical(L, G)
<1>1. IsFiniteSet(Claude!Rows(L))
  BY ClaudeFiniteRows
<1>2. G \subseteq Claude!Rows(L)
  BY <1>1, ClaudeComponentIsLeast
<1>3. d[Claude!Observation(r)] = Claude!DecideCall(L, G, Claude!Observation(r))
  BY DEF ClaudeDecides
<1>4. \A q \in Claude!Rows(L) : d[Claude!Observation(q)] = Claude!DecideCall(L, Claude!Component(Claude!Rows(L), q), Claude!Observation(q))
  BY DEF ClaudeDecides
<1>5. \A q \in G : q \in Claude!Rows(L) /\ Claude!Component(Claude!Rows(L), q) = G
  BY <1>1, ClaudeSameComponent
<1> HIDE DEF G
<1>6. d[Claude!Observation(r)] = Claude!Observation(c) /\ ~Claude!Contradicts(G, Claude!Active(L, G)) /\ ClaudeNamedRows(L, G) # {}
  BY <1>3, ClaudeDecideCallIs
<1>7. ClaudeCanonicalOf(L, G, c)
  BY <1>2, <1>6, ClaudeCanonicalIs
<1>8. Claude!DecideCall(L, G, Claude!Observation(c)) = Claude!Observation(c)
  BY <1>2, <1>6, ClaudeCanonicalCounts
<1>9. c \in G
  BY <1>7 DEF ClaudeCanonicalOf, ClaudeNamedRows
<1> HIDE DEF c
<1>10. d[Claude!Observation(c)] = Claude!Observation(c)
  BY <1>4, <1>5, <1>8, <1>9
<1>11. ClaudeStands(L, d, r, c)
  BY <1>6, <1>7, <1>10 DEF ClaudeStands, G
<1> QED BY <1>11 DEF c, G

LEMMA ClaudeAccountsDecide ==
  ASSUME Claude!ClaudeConstants, ClaudeAccountsInv
  PROVE  ClaudeDecides(decision, read, Claude!Rows(read)) /\ read \subseteq Claude!Readings
BY ClaudeAllDecidedIs DEF ClaudeAccountsInv, Claude!Incremental

LEMMA ClaudeObservationsNamed ==
  ASSUME Claude!ClaudeConstants, NEW L, L \subseteq Claude!Readings
  PROVE  Claude!Observations(L) \subseteq Claude!Observations(Claude!Readings) /\ None \notin Claude!Observations(L)
<1>1. Claude!Rows(L) \subseteq Claude!Rows(Claude!Readings)
  BY DEF Claude!Rows
<1> QED BY <1>1 DEF Claude!Observations, Claude!ClaudeConstants

-----------------------------------------------------------------------------
(* Theorems. *)

LEMMA ClaudeOnceCounted == ASSUME Claude!ClaudeConstants, ClaudeAccountsInv PROVE Claude!CountedOnce
<1>1. ClaudeDecides(decision, read, Claude!Rows(read)) /\ read \subseteq Claude!Readings /\ IsFiniteSet(Claude!Rows(read))
  BY ClaudeAccountsDecide, ClaudeFiniteRows
<1>2. DOMAIN decision = Claude!Observations(read) /\ None \notin Claude!Observations(read)
  BY <1>1, ClaudeObservationsNamed DEF ClaudeDecides, Claude!Observations
<1>3. ASSUME NEW o \in Claude!Counted, NEW p \in Claude!Counted, NEW r \in Claude!RowsOf(o), NEW q \in Claude!RowsOf(p), Claude!Joined(r, q)
      PROVE  o = p
  <2>1. r \in Claude!Rows(read) /\ q \in Claude!Rows(read) /\ o = Claude!Observation(r) /\ p = Claude!Observation(q)
    BY DEF Claude!RowsOf
  <2>2. o # None /\ p # None /\ decision[o] = o /\ decision[p] = p
    BY <1>2 DEF Claude!Counted
  <2>3. Claude!Component(Claude!Rows(read), q) = Claude!Component(Claude!Rows(read), r)
    BY <1>1, <1>3, <2>1, ClaudeJoinedComponent
  <2> DEFINE G == Claude!Component(Claude!Rows(read), r)
             c == Claude!Canonical(read, G)
  <2>4. ClaudeStands(read, decision, r, Claude!Canonical(read, Claude!Component(Claude!Rows(read), r)))
    BY <1>1, <2>1, <2>2, ClaudeDecisionStands
  <2>5. ClaudeStands(read, decision, q, Claude!Canonical(read, Claude!Component(Claude!Rows(read), q)))
    BY <1>1, <2>1, <2>2, ClaudeDecisionStands
  <2>6. o = Claude!Observation(c)
    BY <2>1, <2>2, <2>4 DEF ClaudeStands
  <2>7. p = Claude!Observation(c)
    BY <2>1, <2>2, <2>3, <2>5 DEF ClaudeStands
  <2> QED BY <2>6, <2>7
<1>4. \A r, q : r.entry = q.entry \/ (r.message = q.message /\ r.message # None)
                  \/ (r.request = q.request /\ r.request # None) => Claude!Joined(r, q)
  BY DEF Claude!Joined
<1> QED BY <1>3, <1>4 DEF Claude!CountedOnce

(* The lines of one call, in whatever files and readings, are in one component,
   which has one row that counts: no two observations count that share a message,
   a request or an entry. *)
THEOREM ClaudeCallsCountOnce == ASSUME Claude!ClaudeConstants PROVE Claude!Spec => []Claude!CountedOnce
<1>1. ClaudeAccountsInv => Claude!CountedOnce
  BY ClaudeOnceCounted
<1> QED BY <1>1, ClaudeAccountsAlways, PTL

(* Rows that tell one call do not differ where they may not. *)
LEMMA ClaudeOneValue ==
  ASSUME NEW S, IsFiniteSet(S), ~(Cardinality(S) > 1), NEW x \in S, NEW y \in S
  PROVE  x = y
<1>1. SUFFICES ASSUME x # y PROVE FALSE
  OBVIOUS
<1>2. {x, y} \subseteq S
  OBVIOUS
<1>3. IsFiniteSet({x, y}) /\ Cardinality({x, y}) = 2
  <2>1. IsFiniteSet({x}) /\ Cardinality({x}) = 1
    BY FS_Singleton
  <2>2. {x, y} = {x} \cup {y} /\ y \notin {x}
    BY <1>1
  <2>3. IsFiniteSet({x} \cup {y}) /\ Cardinality({x} \cup {y}) = 2
    BY ClaudeLibrary, <2>1, <2>2, FS_AddElement
  <2> QED BY <2>2, <2>3
<1>4. Cardinality({x, y}) <= Cardinality(S) /\ Cardinality(S) \in Nat
  BY <1>2, <1>3, FS_Subset, FS_CardinalityType
<1> QED BY <1>3, <1>4

LEMMA ClaudeCallAgrees ==
  ASSUME NEW G, NEW A, IsFiniteSet(A), ~Claude!Contradicts(G, A), NEW r \in A, NEW q \in A
  PROVE  /\ r.signature = q.signature
         /\ r.finality = "final" /\ q.finality = "final" => r.output = q.output
<1>1. r.signature = q.signature
  <2> DEFINE f == [x \in A |-> x.signature]
             S == {f[x] : x \in A}
  <2>1. S = {x.signature : x \in A}
    OBVIOUS
  <2>2. IsFiniteSet(S)
    <3> HIDE DEF f
    <3> QED BY FiniteImage
  <2>3. ~(Cardinality(S) > 1)
    BY ClaudeLibrary, <2>1 DEF Claude!Contradicts
  <2>4. r.signature \in S /\ q.signature \in S
    BY <2>1
  <2> HIDE DEF S
  <2> QED BY <2>2, <2>3, <2>4, ClaudeOneValue
<1>2. ASSUME r.finality = "final", q.finality = "final"
      PROVE  r.output = q.output
  <2> DEFINE F == Claude!OfFinality(A, "final")
             f == [x \in F |-> x.output]
             S == {f[x] : x \in F}
  <2>0. r \in F /\ q \in F /\ F \subseteq A
    BY <1>2 DEF Claude!OfFinality
  <2>1. S = {x.output : x \in F}
    OBVIOUS
  <2>2. IsFiniteSet(S)
    <3>1. IsFiniteSet(F)
      BY <2>0, FS_Subset
    <3> HIDE DEF f, F
    <3> QED BY <3>1, FiniteImage
  <2>3. ~(Cardinality(S) > 1)
    BY ClaudeLibrary, <2>1 DEF Claude!Contradicts, Claude!OutputConflict
  <2> HIDE DEF F
  <2>4. r.output \in S /\ q.output \in S
    BY <2>0, <2>1
  <2> HIDE DEF S
  <2> QED BY <2>2, <2>3, <2>4, ClaudeOneValue
<1> QED BY <1>1, <1>2

LEMMA ClaudeRowsOfCall ==
  ASSUME Claude!ClaudeConstants, NEW L, L \subseteq Claude!Readings, NEW r \in Claude!Rows(L), NEW q \in Claude!Rows(L), Claude!Joined(r, q)
  PROVE  /\ q \in Claude!Component(Claude!Rows(L), r)
         /\ ~Claude!Superseded(L, q) => q \in Claude!Active(L, Claude!Component(Claude!Rows(L), r))
         /\ ~Claude!Superseded(L, q) /\ Claude!Identified(q) => q \in ClaudeNamedRows(L, Claude!Component(Claude!Rows(L), r))
<1>1. q \in Claude!Component(Claude!Rows(L), r)
  BY ClaudeFiniteRows, ClaudeComponentIsLeast DEF ClaudeWhole
<1> QED BY <1>1 DEF Claude!Active, ClaudeNamedRows

LEMMA ClaudeActiveIsFinite ==
  ASSUME Claude!ClaudeConstants, NEW L, L \subseteq Claude!Readings, NEW r \in Claude!Rows(L)
  PROVE  IsFiniteSet(Claude!Active(L, Claude!Component(Claude!Rows(L), r)))
<1>1. IsFiniteSet(Claude!Rows(L)) /\ Claude!Component(Claude!Rows(L), r) \subseteq Claude!Rows(L)
  BY ClaudeFiniteRows, ClaudeComponentIsLeast
<1> QED BY <1>1, ClaudeActiveInCall, FS_Subset

LEMMA ClaudeCanonicalActs ==
  ASSUME NEW L, NEW G, NEW c, ClaudeCanonicalOf(L, G, c)
  PROVE  c \in G /\ c \in Claude!Active(L, G) /\ c \in ClaudeNamedRows(L, G)
BY DEF ClaudeCanonicalOf, ClaudeNamedRows, Claude!Active

LEMMA ClaudeStandsForIt ==
  ASSUME Claude!ClaudeConstants, ClaudeAccountsInv, NEW o \in DOMAIN decision, decision[o] # None
  PROVE  \E r \in Claude!RowsOf(o) : /\ r \in Claude!Rows(read) /\ o = Claude!Observation(r)
                              /\ ClaudeStands(read, decision, r, Claude!Canonical(read, Claude!Component(Claude!Rows(read), r)))
<1>1. ClaudeDecides(decision, read, Claude!Rows(read)) /\ read \subseteq Claude!Readings
  BY ClaudeAccountsDecide
<1>2. PICK r \in Claude!Rows(read) : o = Claude!Observation(r)
  BY <1>1 DEF ClaudeDecides
<1>3. decision[Claude!Observation(r)] # None
  BY <1>2
<1>4. ClaudeStands(read, decision, r, Claude!Canonical(read, Claude!Component(Claude!Rows(read), r)))
  BY <1>1, <1>3, ClaudeDecisionStands
<1> QED BY <1>2, <1>4 DEF Claude!RowsOf

LEMMA ClaudeLosesNothing == ASSUME Claude!ClaudeConstants, ClaudeAccountsInv PROVE Claude!NothingLost
<1>1. ClaudeDecides(decision, read, Claude!Rows(read)) /\ read \subseteq Claude!Readings /\ IsFiniteSet(Claude!Rows(read))
  BY ClaudeAccountsDecide, ClaudeFiniteRows
<1>2. SUFFICES ASSUME NEW o \in DOMAIN decision \ Claude!Counted, decision[o] # None
               PROVE  /\ decision[o] \in Claude!Counted
                      /\ LET telling == {r \in Claude!RowsOf(o) : ~Claude!Superseded(read, r)} IN
                         \/ telling = {}
                         \/ /\ decision[o].signature = o.signature
                            /\ o.finality = "final" /\ (\E r \in telling : Claude!Identified(r)) =>
                                 decision[o].finality = "final" /\ decision[o].output = o.output
  BY Zenon DEF Claude!NothingLost
<1>3. PICK r \in Claude!RowsOf(o) : /\ r \in Claude!Rows(read) /\ o = Claude!Observation(r)
                             /\ ClaudeStands(read, decision, r, Claude!Canonical(read, Claude!Component(Claude!Rows(read), r)))
  BY <1>2, ClaudeStandsForIt
<1> DEFINE G == Claude!Component(Claude!Rows(read), r)
           A == Claude!Active(read, G)
           c == Claude!Canonical(read, G)
<1>4. /\ ClaudeCanonicalOf(read, G, c) /\ ~Claude!Contradicts(G, A)
      /\ decision[o] = Claude!Observation(c) /\ decision[Claude!Observation(c)] = Claude!Observation(c)
  BY <1>3 DEF ClaudeStands
<1>5. G \subseteq Claude!Rows(read)
  BY <1>1, <1>3, ClaudeComponentIsLeast
<1>6. IsFiniteSet(A)
  BY <1>1, <1>3, ClaudeActiveIsFinite
<1>7. ASSUME NEW q \in Claude!RowsOf(o), ~Claude!Superseded(read, q)
      PROVE  q \in A /\ (Claude!Identified(q) => q \in ClaudeNamedRows(read, G))
  <2>1. q \in Claude!Rows(read) /\ Claude!Observation(q) = o
    BY DEF Claude!RowsOf
  <2>2. Claude!Joined(r, q)
    BY <1>3, <2>1 DEF Claude!Joined
  <2> QED BY <1>1, <1>3, <1>7, <2>1, <2>2, ClaudeRowsOfCall
<1> HIDE DEF G, c
<1>8. c \in G /\ c \in A /\ c \in ClaudeNamedRows(read, G)
  BY <1>4, ClaudeCanonicalActs
<1>9. decision[o] \in Claude!Counted
  <2>1. Claude!Observation(c) \in DOMAIN decision
    BY <1>1, <1>5, <1>8 DEF ClaudeDecides
  <2> QED BY <1>4, <2>1 DEF Claude!Counted
<1> HIDE DEF A
<1>10. /\ decision[o].signature = c.signature /\ decision[o].finality = c.finality
       /\ decision[o].output = c.output
  BY <1>4 DEF Claude!Observation
<1>11. ASSUME NEW q \in Claude!RowsOf(o), ~Claude!Superseded(read, q)
       PROVE  decision[o].signature = o.signature
  <2>1. q.signature = c.signature
    BY <1>4, <1>6, <1>7, <1>8, <1>11, ClaudeCallAgrees
  <2>2. o.signature = q.signature
    BY DEF Claude!RowsOf, Claude!Observation
  <2> QED BY <1>10, <2>1, <2>2
<1>12. ASSUME NEW q \in Claude!RowsOf(o), ~Claude!Superseded(read, q), Claude!Identified(q), o.finality = "final"
       PROVE  decision[o].finality = "final" /\ decision[o].output = o.output
  <2>1. o.finality = q.finality /\ o.output = q.output
    BY DEF Claude!RowsOf, Claude!Observation
  <2>2. c.finality = "final"
    BY <1>4, <1>7, <1>12, <2>1 DEF ClaudeCanonicalOf
  <2>3. q.output = c.output
    BY <1>4, <1>6, <1>7, <1>8, <1>12, <2>1, <2>2, ClaudeCallAgrees
  <2> QED BY <1>10, <2>1, <2>2, <2>3
<1> DEFINE telling == {q \in Claude!RowsOf(o) : ~Claude!Superseded(read, q)}
<1>13. \A q \in telling : q \in Claude!RowsOf(o) /\ ~Claude!Superseded(read, q)
  OBVIOUS
<1> HIDE DEF telling
<1>14. \/ telling = {}
       \/ /\ decision[o].signature = o.signature
          /\ o.finality = "final" /\ (\E q \in telling : Claude!Identified(q)) =>
               decision[o].finality = "final" /\ decision[o].output = o.output
  BY <1>11, <1>12, <1>13
<1> QED BY <1>9, <1>14, Zenon DEF telling

(* The row that counts is one of the rows in force that name the call, with the
   input numbers of all of them and the final output if one of those tells it. *)
THEOREM ClaudeExcludedIsCounted == ASSUME Claude!ClaudeConstants PROVE Claude!Spec => []Claude!NothingLost
<1>1. ClaudeAccountsInv => Claude!NothingLost
  BY ClaudeLosesNothing
<1> QED BY <1>1, ClaudeAccountsAlways, PTL

LEMMA ClaudeLastWord == ASSUME Claude!ClaudeConstants, ClaudeAccountsInv PROVE Claude!FinalWins
<1>1. ClaudeDecides(decision, read, Claude!Rows(read)) /\ read \subseteq Claude!Readings /\ IsFiniteSet(Claude!Rows(read))
  BY ClaudeAccountsDecide, ClaudeFiniteRows
<1>2. SUFFICES ASSUME NEW o \in Claude!Counted, NEW r \in Claude!RowsOf(o), NEW q \in Claude!Rows(read), Claude!Joined(r, q),
                      Claude!Identified(q), q.finality = "final", ~Claude!Superseded(read, q)
               PROVE  o.finality = "final" /\ o.output = q.output
  BY Zenon DEF Claude!FinalWins
<1>3. r \in Claude!Rows(read) /\ o = Claude!Observation(r)
  BY DEF Claude!RowsOf
<1>4. decision[o] = o /\ o # None
  <2>1. DOMAIN decision = Claude!Observations(read)
    BY <1>1 DEF ClaudeDecides, Claude!Observations
  <2>2. None \notin Claude!Observations(read)
    BY <1>1, ClaudeObservationsNamed
  <2> QED BY <2>1, <2>2 DEF Claude!Counted
<1> DEFINE G == Claude!Component(Claude!Rows(read), r)
           A == Claude!Active(read, G)
           c == Claude!Canonical(read, G)
<1>5. /\ ClaudeCanonicalOf(read, G, c) /\ ~Claude!Contradicts(G, A) /\ o = Claude!Observation(c)
  <2>1. decision[Claude!Observation(r)] # None
    BY <1>3, <1>4
  <2>2. ClaudeStands(read, decision, r, Claude!Canonical(read, Claude!Component(Claude!Rows(read), r)))
    BY <1>1, <1>3, <2>1, ClaudeDecisionStands
  <2> QED BY <1>3, <1>4, <2>2 DEF ClaudeStands
<1>6. q \in A /\ q \in ClaudeNamedRows(read, G)
  BY <1>1, <1>2, <1>3, ClaudeRowsOfCall
<1>7. IsFiniteSet(A)
  BY <1>1, <1>3, ClaudeActiveIsFinite
<1> HIDE DEF G, c
<1>8. c \in A
  BY <1>5, ClaudeCanonicalActs
<1> HIDE DEF A
<1>9. c.finality = "final"
  BY <1>2, <1>5, <1>6 DEF ClaudeCanonicalOf
<1>10. c.output = q.output
  BY <1>2, <1>5, <1>6, <1>7, <1>8, <1>9, ClaudeCallAgrees
<1> QED BY <1>5, <1>9, <1>10 DEF Claude!Observation

(* Among the rows in force that name a call a final one comes before all others,
   and two that disagree leave the call undecided. *)
THEOREM ClaudeFinalOutputsWin == ASSUME Claude!ClaudeConstants PROVE Claude!Spec => []Claude!FinalWins
<1>1. ClaudeAccountsInv => Claude!FinalWins
  BY ClaudeLastWord
<1> QED BY <1>1, ClaudeAccountsAlways, PTL

-----------------------------------------------------------------------------
(* Types. *)

ClaudeTypesInv == ClaudeAccountsInv /\ Cardinality(read) <= MaxRead

LEMMA ClaudeTypesInit == ASSUME Claude!ClaudeConstants, Claude!Init PROVE ClaudeTypesInv
<1>1. PICK old \in SUBSET ClaudeFiles : /\ Cardinality(old) <= 2
                                  /\ read = {[file |-> f, profile |-> "previous"] : f \in old}
  BY ClaudeLibrary DEF Claude!Init
<1> DEFINE r == [f \in old |-> [file |-> f, profile |-> "previous"]]
<1>2. read = {r[f] : f \in old}
  BY <1>1
<1>3. IsFiniteSet(old)
  BY ClaudeLibrary, FS_Subset DEF Claude!ClaudeConstants
<1> HIDE DEF r
<1>4. IsFiniteSet(read) /\ Cardinality(read) <= Cardinality(old)
  BY <1>2, <1>3, FiniteImage
<1>5. Cardinality(read) \in Nat /\ Cardinality(old) \in Nat /\ MaxRead \in Nat /\ 2 <= MaxRead
  BY <1>3, <1>4, FS_CardinalityType DEF Claude!ClaudeConstants
<1>6. Cardinality(read) <= MaxRead
  BY <1>1, <1>4, <1>5
<1> QED BY <1>6, ClaudeAccountsInit DEF ClaudeTypesInv

LEMMA ClaudeTypesStep == ASSUME Claude!ClaudeConstants, ClaudeTypesInv, [Claude!Next]_Claude!vars PROVE ClaudeTypesInv'
<1>1. ClaudeAccountsInv'
  BY ClaudeAccountsStep DEF ClaudeTypesInv
<1>2. (Cardinality(read) <= MaxRead)'
  <2>1. CASE UNCHANGED Claude!vars
    BY <2>1 DEF Claude!vars, ClaudeTypesInv
  <2>2. ASSUME NEW b \in Claude!Batches, Claude!Import(b)
        PROVE  (Cardinality(read) <= MaxRead)'
    BY ClaudeLibrary, <2>2, Zenon DEF Claude!Import
  <2> QED BY <2>1, <2>2 DEF Claude!Next
<1> QED BY <1>1, <1>2 DEF ClaudeTypesInv

LEMMA ClaudeTypesHold == ASSUME Claude!ClaudeConstants, ClaudeTypesInv PROVE Claude!TypeOK
<1>1. ClaudeDecides(decision, read, Claude!Rows(read)) /\ read \subseteq Claude!Readings /\ IsFiniteSet(Claude!Rows(read))
  BY ClaudeAccountsDecide, ClaudeFiniteRows DEF ClaudeTypesInv
<1>2. ClaudeAccountsInv
  BY DEF ClaudeTypesInv
<1>3. DOMAIN decision = Claude!Observations(read)
  BY <1>1 DEF ClaudeDecides, Claude!Observations
<1>4. ASSUME NEW o \in DOMAIN decision
      PROVE  decision[o] \in DOMAIN decision \cup {None}
  <2>1. SUFFICES ASSUME decision[o] # None PROVE decision[o] \in DOMAIN decision
    OBVIOUS
  <2>2. PICK r \in Claude!Rows(read) : ClaudeStands(read, decision, r, Claude!Canonical(read, Claude!Component(Claude!Rows(read), r)))
                                /\ o = Claude!Observation(r)
    BY <1>2, <2>1, ClaudeStandsForIt
  <2> DEFINE G == Claude!Component(Claude!Rows(read), r)
             c == Claude!Canonical(read, G)
  <2>3. ClaudeCanonicalOf(read, G, c) /\ decision[o] = Claude!Observation(c)
    BY <2>2 DEF ClaudeStands
  <2>4. G \subseteq Claude!Rows(read)
    BY <1>1, ClaudeComponentIsLeast
  <2> HIDE DEF G, c
  <2>5. c \in Claude!Rows(read)
    BY <2>3, <2>4, ClaudeCanonicalActs
  <2> QED BY <1>3, <2>3, <2>5 DEF Claude!Observations
<1>5. ASSUME NEW o \in varying
      PROVE  o \in Claude!Observations(read)
  <2>1. o \in Claude!Varying(read, Claude!Sessions(read))
    BY <1>2 DEF ClaudeAccountsInv, Claude!Incremental
  <2>2. ClaudeOneVaries(read, Claude!Rows(read), o)
    BY <2>1, ClaudeAllVaryingIs
  <2>3. PICK r \in Claude!Rows(read) : \E q \in Claude!Active(read, Claude!Component(Claude!Rows(read), r)) : o = Claude!Observation(q)
    BY <2>2, Zenon DEF ClaudeOneVaries
  <2>4. PICK q \in Claude!Active(read, Claude!Component(Claude!Rows(read), r)) : o = Claude!Observation(q)
    BY <2>3
  <2>5. q \in Claude!Rows(read)
    BY <1>1, ClaudeActiveInCall, ClaudeComponentIsLeast
  <2> QED BY <2>4, <2>5 DEF Claude!Observations
<1> QED BY ClaudeLibrary, <1>1, <1>3, <1>4, <1>5 DEF Claude!TypeOK, ClaudeTypesInv

(* Every observation has a decision: itself, another observation, or none. *)
THEOREM ClaudeAccountsTypes == ASSUME Claude!ClaudeConstants PROVE Claude!Spec => []Claude!TypeOK
<1>1. Claude!Init => ClaudeTypesInv
  BY ClaudeTypesInit
<1>2. ClaudeTypesInv /\ [Claude!Next]_Claude!vars => ClaudeTypesInv'
  BY ClaudeTypesStep
<1>3. ClaudeTypesInv => Claude!TypeOK
  BY ClaudeTypesHold
<1> QED BY <1>1, <1>2, <1>3, PTL DEF Claude!Spec

-----------------------------------------------------------------------------
(* Files read again: what the previous reader took counts for nothing, for its
   rows connect what those of the current reader connect. *)

ClaudeNow(L) == {g \in L : g.profile = "current"}
ClaudeAllReread(L) == \A g \in L : [g EXCEPT !.profile = "current"] \in L
ClaudeSameNames(r, q) == r.entry = q.entry /\ r.message = q.message /\ r.request = q.request

LEMMA ClaudeRowsNow ==
  ASSUME NEW L, L \subseteq Claude!Readings
  PROVE  /\ ClaudeNow(L) \subseteq L /\ ClaudeNow(L) \subseteq Claude!Readings
         /\ \A r : r \in Claude!Rows(ClaudeNow(L)) <=> r \in Claude!Rows(L) /\ r.current
<1>1. ClaudeNow(L) \subseteq L
  BY DEF ClaudeNow
<1>2. ASSUME NEW r \in Claude!Rows(ClaudeNow(L))
      PROVE  r \in Claude!Rows(L) /\ r.current
  <2>1. PICK g \in ClaudeNow(L) : r.current = (g.profile = "current") /\ r \in Claude!ReadRows(g.profile, g.file)
    BY ClaudeRowOrigin
  <2>2. g \in L /\ g.profile = "current"
    BY DEF ClaudeNow
  <2> QED BY <2>1, <2>2 DEF Claude!Rows
<1>3. ASSUME NEW r \in Claude!Rows(L), r.current
      PROVE  r \in Claude!Rows(ClaudeNow(L))
  <2>1. PICK g \in L : r.current = (g.profile = "current") /\ r \in Claude!ReadRows(g.profile, g.file)
    BY ClaudeRowOrigin
  <2>2. g \in ClaudeNow(L)
    BY <1>3, <2>1 DEF ClaudeNow
  <2> QED BY <2>1, <2>2 DEF Claude!Rows
<1> QED BY <1>1, <1>2, <1>3

LEMMA ClaudeRowsReread ==
  ASSUME NEW L, L \subseteq Claude!Readings, ClaudeAllReread(L), NEW r \in Claude!Rows(L)
  PROVE  /\ \E q \in Claude!Rows(ClaudeNow(L)) : ClaudeSameNames(r, q)
         /\ Claude!Superseded(L, r) <=> ~r.current
<1>1. PICK g \in L : /\ Claude!Accepted(g.file) /\ r.file = g.file
                     /\ r.current = (g.profile = "current") /\ r \in Claude!ReadRows(g.profile, g.file)
  BY ClaudeRowOrigin
<1> DEFINE h == [g EXCEPT !.profile = "current"]
<1>2. h \in L /\ h.file = g.file /\ h.profile = "current"
  <2>1. g \in [file : ClaudeFiles, profile : Claude!Profiles]
    BY DEF Claude!Readings
  <2> QED BY <2>1 DEF ClaudeAllReread
<1> HIDE DEF h
<1>3. PICK i \in {j \in DOMAIN g.file.lines : Claude!IsUsage(g.file.lines[j])} : r = Claude!Row(g.profile, g.file, i)
  BY <1>1 DEF Claude!ReadRows
<1> DEFINE q == Claude!Row("current", g.file, i)
<1>4. q \in Claude!ReadRows("current", g.file)
  BY <1>1, <1>3 DEF Claude!ReadRows
<1>5. ClaudeSameNames(r, q)
  BY <1>3 DEF Claude!Row, ClaudeSameNames
<1> HIDE DEF q
<1>6. h \in ClaudeNow(L)
  BY <1>2 DEF ClaudeNow
<1>7. q \in Claude!Rows(ClaudeNow(L))
  BY <1>2, <1>4, <1>6 DEF Claude!Rows
<1>8. Claude!Superseded(L, r) <=> ~r.current
  BY <1>1, <1>2 DEF Claude!Superseded
<1> QED BY <1>5, <1>7, <1>8

LEMMA ClaudeJoinedByNames ==
  ASSUME NEW r, NEW q, NEW s, NEW t, ClaudeSameNames(r, s), ClaudeSameNames(q, t), Claude!Joined(r, q)
  PROVE  Claude!Joined(s, t)
<1>1. Claude!Observation(r) = Claude!Observation(q) => r.entry = q.entry
  BY ClaudeObservationTells
<1> QED BY <1>1 DEF ClaudeSameNames, Claude!Joined

ClaudeCallNow(L, G, H) == /\ H = {q \in G : q.current} /\ \A q \in G : \E h \in H : ClaudeSameNames(q, h)
LEMMA ClaudeCallIsNow ==
  ASSUME Claude!ClaudeConstants, NEW L, L \subseteq Claude!Readings, ClaudeAllReread(L), NEW r \in Claude!Rows(ClaudeNow(L))
  PROVE  ClaudeCallNow(L, Claude!Component(Claude!Rows(L), r), Claude!Component(Claude!Rows(ClaudeNow(L)), r))
<1> DEFINE C == Claude!Rows(L)
           D == Claude!Rows(ClaudeNow(L))
           G == Claude!Component(C, r)
           H == Claude!Component(D, r)
           X == {q \in C : \E h \in H : ClaudeSameNames(q, h)}
<1>1. D \subseteq C /\ \A q : q \in D <=> q \in C /\ q.current
  BY ClaudeRowsNow
<1>2. IsFiniteSet(C) /\ IsFiniteSet(D)
  BY <1>1, ClaudeFiniteRows, ClaudeRowsNow
<1>3. /\ G \subseteq C /\ r \in G /\ ClaudeWhole(C, G)
      /\ \A Y \in SUBSET C : r \in Y /\ ClaudeWhole(C, Y) => G \subseteq Y
  BY <1>1, <1>2, ClaudeComponentIsLeast
<1>4. /\ H \subseteq D /\ r \in H /\ ClaudeWhole(D, H)
      /\ \A Y \in SUBSET D : r \in Y /\ ClaudeWhole(D, Y) => H \subseteq Y
  BY <1>2, ClaudeComponentIsLeast
<1>5. \A q \in C : \E h \in D : ClaudeSameNames(q, h)
  BY ClaudeRowsReread
<1> HIDE DEF C, D, G, H
<1>6. \A q : ClaudeSameNames(q, q)
  BY DEF ClaudeSameNames
<1>7. ClaudeWhole(C, X)
  <2>1. SUFFICES ASSUME NEW p \in X, NEW q \in C, Claude!Joined(p, q) PROVE q \in X
    BY DEF ClaudeWhole
  <2>2. PICK h \in H : ClaudeSameNames(p, h)
    OBVIOUS
  <2>3. PICK t \in D : ClaudeSameNames(q, t)
    BY <1>5
  <2>4. Claude!Joined(h, t)
    BY <2>1, <2>2, <2>3, ClaudeJoinedByNames
  <2>5. t \in H
    BY <1>4, <2>4 DEF ClaudeWhole
  <2> QED BY <2>3, <2>5
<1>8. G \subseteq X
  <2>1. r \in X /\ X \in SUBSET C
    BY <1>1, <1>4, <1>6
  <2> HIDE DEF X
  <2> QED BY <1>3, <1>7, <2>1
<1>9. H \subseteq {q \in G : q.current}
  <2> DEFINE Y == {q \in G : q.current}
  <2>1. Y \subseteq D /\ r \in Y
    BY <1>1, <1>3, <1>4
  <2>2. ClaudeWhole(D, Y)
    BY <1>1, <1>3 DEF ClaudeWhole
  <2> HIDE DEF Y
  <2>3. H \subseteq Y
    BY <1>4, <2>1, <2>2
  <2> QED BY <2>3 DEF Y
<1>10. ASSUME NEW q \in G, q.current
       PROVE  q \in H
  <2>1. PICK h \in H : ClaudeSameNames(q, h)
    BY <1>8
  <2>2. Claude!Joined(h, q)
    BY <2>1 DEF Claude!Joined, ClaudeSameNames
  <2>3. q \in D
    BY <1>1, <1>3, <1>10
  <2> QED BY <1>4, <2>2, <2>3 DEF ClaudeWhole
<1>11. H = {q \in G : q.current} /\ \A q \in G : \E h \in H : ClaudeSameNames(q, h)
  BY <1>8, <1>9, <1>10
<1> QED BY <1>11 DEF ClaudeCallNow, G, H, C, D

LEMMA ClaudeSameConflict ==
  ASSUME NEW L, NEW G, NEW H, ClaudeCallNow(L, G, H)
  PROVE  Claude!IdentityConflict(G) <=> Claude!IdentityConflict(H)
<1>1. H \subseteq G /\ \A q \in G : \E h \in H : ClaudeSameNames(q, h)
  BY DEF ClaudeCallNow
<1>2. (\E r, q \in Claude!Paired(G) : (r.message = q.message) # (r.request = q.request))
        <=> \E r, q \in Claude!Paired(H) : (r.message = q.message) # (r.request = q.request)
  <2>1. Claude!Paired(H) \subseteq Claude!Paired(G)
    BY <1>1 DEF Claude!Paired
  <2>2. \A q \in Claude!Paired(G) : \E h \in Claude!Paired(H) : ClaudeSameNames(q, h)
    BY <1>1 DEF Claude!Paired, ClaudeSameNames
  <2>3. ASSUME NEW r \in Claude!Paired(G), NEW q \in Claude!Paired(G), (r.message = q.message) # (r.request = q.request)
        PROVE  \E s, t \in Claude!Paired(H) : (s.message = t.message) # (s.request = t.request)
    <3>1. PICK s \in Claude!Paired(H) : ClaudeSameNames(r, s)
      BY <2>2
    <3>2. PICK t \in Claude!Paired(H) : ClaudeSameNames(q, t)
      BY <2>2
    <3>3. (s.message = t.message) # (s.request = t.request)
      BY <2>3, <3>1, <3>2 DEF ClaudeSameNames
    <3> QED BY <3>3
  <2> QED BY <2>1, <2>3
<1>3. ASSUME NEW e
      PROVE  /\ {q.message : q \in Claude!Tells(G, e)} = {q.message : q \in Claude!Tells(H, e)}
             /\ {q.request : q \in Claude!Tells(G, e)} = {q.request : q \in Claude!Tells(H, e)}
  <2>1. Claude!Tells(H, e) \subseteq Claude!Tells(G, e)
    BY <1>1 DEF Claude!Tells
  <2>2. \A q \in Claude!Tells(G, e) : \E h \in Claude!Tells(H, e) : ClaudeSameNames(q, h)
    BY <1>1 DEF Claude!Tells, ClaudeSameNames
  <2> QED BY <2>1, <2>2 DEF ClaudeSameNames
<1> DEFINE Several(S, e) == \/ Cardinality(Claude!Some({q.message : q \in Claude!Tells(S, e)})) > 1
                            \/ Cardinality(Claude!Some({q.request : q \in Claude!Tells(S, e)})) > 1
<1>4. \A e : Several(G, e) <=> Several(H, e)
  BY <1>3, Zenon
<1>5. (Claude!IdentityConflict(G) <=> (\E r, q \in Claude!Paired(G) : (r.message = q.message) # (r.request = q.request))
                                 \/ \E r \in G : Several(G, r.entry))
  BY ClaudeLibrary, Zenon DEF Claude!IdentityConflict
<1>6. (Claude!IdentityConflict(H) <=> (\E r, q \in Claude!Paired(H) : (r.message = q.message) # (r.request = q.request))
                                 \/ \E r \in H : Several(H, r.entry))
  BY ClaudeLibrary, Zenon DEF Claude!IdentityConflict
<1> HIDE DEF Several
<1>7. (\E r \in G : Several(G, r.entry)) <=> \E r \in H : Several(H, r.entry)
  BY <1>1, <1>4 DEF ClaudeSameNames
<1> QED BY <1>2, <1>5, <1>6, <1>7, Zenon

LEMMA ClaudeDecidedAsNow ==
  ASSUME Claude!ClaudeConstants, NEW L, L \subseteq Claude!Readings, ClaudeAllReread(L), NEW r \in Claude!Rows(ClaudeNow(L))
  PROVE  \A o : Claude!DecideCall(L, Claude!Component(Claude!Rows(L), r), o) = Claude!DecideCall(ClaudeNow(L), Claude!Component(Claude!Rows(ClaudeNow(L)), r), o)
<1> DEFINE G == Claude!Component(Claude!Rows(L), r)
           H == Claude!Component(Claude!Rows(ClaudeNow(L)), r)
           N == ClaudeNow(L)
<1>1. ClaudeCallNow(L, G, H)
  BY ClaudeCallIsNow
<1>2. r \in Claude!Rows(L)
  BY ClaudeRowsNow
<1>3. G \subseteq Claude!Rows(L) /\ H \subseteq Claude!Rows(N) /\ r \in H
  BY <1>2, ClaudeFiniteRows, ClaudeRowsNow, ClaudeComponentIsLeast
<1>4. \A q \in Claude!Rows(L) : Claude!Superseded(L, q) <=> ~q.current
  BY ClaudeRowsReread
<1>5. \A q \in Claude!Rows(N) : q.current
  BY ClaudeRowsNow
<1>6. H = {q \in G : q.current}
  BY <1>1 DEF ClaudeCallNow
<1> HIDE DEF G, H, N
<1>7. Claude!Active(L, G) = H
  BY <1>3, <1>4, <1>6 DEF Claude!Active
<1>8. \A q \in H : ~Claude!Superseded(N, q)
  BY <1>3, <1>5 DEF Claude!Superseded
<1>9. Claude!Active(N, H) = H
  BY <1>8 DEF Claude!Active
<1>10. {q \in G : Claude!Identified(q) /\ ~Claude!Superseded(L, q)} = {q \in H : Claude!Identified(q) /\ ~Claude!Superseded(N, q)}
  BY <1>3, <1>4, <1>6, <1>8
<1>11. Claude!Canonical(L, G) = Claude!Canonical(N, H)
  BY <1>10, Zenon DEF Claude!Canonical
<1>12. Claude!Contradicts(G, H) <=> Claude!Contradicts(H, H)
  BY <1>1, ClaudeSameConflict, Zenon DEF Claude!Contradicts
<1>13. ASSUME NEW o PROVE Claude!DecideCall(L, G, o) = Claude!DecideCall(N, H, o)
  <2> DEFINE named == {q \in H : Claude!Identified(q) /\ ~Claude!Superseded(N, q)}
  <2>1. Claude!DecideCall(L, G, o) = IF Claude!Contradicts(G, H) \/ named = {} \/ o \in Claude!Identityless(H) THEN None
                              ELSE Claude!Observation(Claude!Canonical(L, G))
    BY <1>7, <1>10, Zenon DEF Claude!DecideCall
  <2>2. Claude!DecideCall(N, H, o) = IF Claude!Contradicts(H, H) \/ named = {} \/ o \in Claude!Identityless(H) THEN None
                              ELSE Claude!Observation(Claude!Canonical(N, H))
    BY <1>9, Zenon DEF Claude!DecideCall
  <2> HIDE DEF named
  <2> QED BY <1>11, <1>12, <2>1, <2>2
<1> QED BY <1>13 DEF G, H, N

LEMMA ClaudeHeals == ASSUME Claude!ClaudeConstants, ClaudeAccountsInv PROVE Claude!UpgradeHeals
<1>1. ClaudeDecides(decision, read, Claude!Rows(read)) /\ read \subseteq Claude!Readings
  BY ClaudeAccountsDecide
<1>2. SUFFICES ASSUME Claude!Reread
               PROVE  \A o \in DOMAIN Claude!Decide(ClaudeNow(read), Claude!Sessions(ClaudeNow(read))) :
                        decision[o] = Claude!Decide(ClaudeNow(read), Claude!Sessions(ClaudeNow(read)))[o]
  BY Zenon DEF Claude!UpgradeHeals, ClaudeNow
<1>3. ClaudeAllReread(read)
  BY <1>2, Zenon DEF Claude!Reread, ClaudeAllReread
<1> DEFINE N == ClaudeNow(read)
           fresh == Claude!Decide(N, Claude!Sessions(N))
<1>4. N \subseteq Claude!Readings /\ \A r \in Claude!Rows(N) : r \in Claude!Rows(read)
  BY <1>1, ClaudeRowsNow
<1>6. ClaudeDecides(fresh, N, Claude!Rows(N))
  <2> HIDE DEF N
  <2> QED BY <1>4, ClaudeAllDecidedIs
<1> HIDE DEF fresh
<1>5. ASSUME NEW o \in DOMAIN fresh
      PROVE  decision[o] = fresh[o]
  <2>1. PICK r \in Claude!Rows(N) : o = Claude!Observation(r)
    BY <1>6 DEF ClaudeDecides
  <2>2. fresh[o] = Claude!DecideCall(N, Claude!Component(Claude!Rows(N), r), o)
    BY <1>6, <2>1 DEF ClaudeDecides
  <2>3. decision[o] = Claude!DecideCall(read, Claude!Component(Claude!Rows(read), r), o)
    BY <1>1, <1>4, <2>1 DEF ClaudeDecides
  <2>4. Claude!DecideCall(read, Claude!Component(Claude!Rows(read), r), o) = Claude!DecideCall(N, Claude!Component(Claude!Rows(N), r), o)
    BY <1>1, <1>3, ClaudeDecidedAsNow
  <2> QED BY <2>2, <2>3, <2>4
<1> QED BY <1>5, Zenon DEF fresh, N

(* Once every file has been read with the current reader, the decisions on its
   rows are those of a database that the previous reader never wrote. *)
THEOREM ClaudeReadingAgainHeals == ASSUME Claude!ClaudeConstants PROVE Claude!Spec => []Claude!UpgradeHeals
<1>1. ClaudeAccountsInv => Claude!UpgradeHeals
  BY ClaudeHeals
<1> QED BY <1>1, ClaudeAccountsAlways, PTL

(***************************************************************************)
(* Copilot CLI: counters of a session in several copies of its events.     *)
(***************************************************************************)
(* The library as the module of the harness sees it. *)
LEMMA CliLibrary ==
  /\ \A S : Cli!Cardinality(S) = Cardinality(S)
  /\ \A S : Cli!IsFiniteSet(S) <=> IsFiniteSet(S)
<1>1. \A S : Cli!IsFiniteSet(S) <=> IsFiniteSet(S)
  BY DEF Cli!IsFiniteSet, IsFiniteSet
<1>2. \A S : Cli!Cardinality(S) = Cardinality(S)
  BY DEF Cli!Cardinality, Cardinality
<1> QED BY <1>1, <1>2

(* Rows are about the session of their file. *)
LEMMA CliRowSession ==
  ASSUME NEW f, NEW r \in Cli!ReadRows(f)
  PROVE  Cli!Accepted(f) /\ r.session = f.session
<1>1. Cli!Accepted(f)
  BY DEF Cli!ReadRows
<1>2. \A i, scope : Cli!Row(f, i, scope).session = f.session
  BY DEF Cli!Row
<1>3. \A i : Cli!Metadata(f, i).session = f.session
  BY <1>2 DEF Cli!Metadata
<1>4. \A i : Cli!SessionRow(f, i).session = f.session
  BY DEF Cli!SessionRow, Cli!Row
<1>5. \A i, m : Cli!ModelRow(f, i, m).session = f.session
  BY DEF Cli!ModelRow, Cli!Row
<1>6. CASE f.workspace
  BY <1>1, <1>3, <1>6 DEF Cli!ReadRows
<1>7. CASE ~f.workspace
  <2> DEFINE controls == {i \in Cli!Chained(f) : f.events[i].type \in Cli!Controls /\ f.events[i].agent = None}
             valid == {c \in controls : Cli!ValidShutdown(f, f.events[c])}
             models(i) == {Cli!ModelRow(f, i, m) : m \in DOMAIN f.events[i].usage}
  <2>1. Cli!ReadRows(f) = {Cli!Metadata(f, s) : s \in Cli!Starts(f)} \cup {Cli!SessionRow(f, i) : i \in controls}
                      \cup UNION {models(i) : i \in valid}
    BY <1>1, <1>7, Zenon DEF Cli!ReadRows
  <2> HIDE DEF controls, valid
  <2>2. \/ \E s \in Cli!Starts(f) : r = Cli!Metadata(f, s)
        \/ \E i \in controls : r = Cli!SessionRow(f, i)
        \/ \E i \in valid : r \in models(i)
    <3> HIDE DEF models
    <3> QED BY <2>1, Zenon
  <2>3. \A i : r \in models(i) => \E m : r = Cli!ModelRow(f, i, m)
    BY Zenon
  <2> HIDE DEF models
  <2> QED BY <1>1, <1>3, <1>4, <1>5, <2>2, <2>3
<1> QED BY <1>6, <1>7

(* The generations an import can leave. *)
CliReadings == [file : CliFiles, available : BOOLEAN, number : Nat]

LEMMA CliSourced ==
  ASSUME NEW g \in CliReadings, NEW e \in Cli!Sourced(g)
  PROVE  /\ e.source = <<g.file.locator, g.number>> /\ e.row \in Cli!ReadRows(g.file)
         /\ Cli!Accepted(g.file) /\ e.row.session = g.file.session
<1>1. PICK r \in Cli!FileRows[g.file] : e = [source |-> <<g.file.locator, g.number>>, row |-> r]
  BY Zenon DEF Cli!Sourced
<1>2. Cli!FileRows[g.file] = Cli!ReadRows(g.file)
  BY DEF CliReadings, Cli!FileRows
<1> QED BY <1>1, <1>2, CliRowSession

LEMMA CliEvidence ==
  ASSUME NEW L, NEW e
  PROVE  e \in Cli!Evidence(L) <=> \E g \in L : e \in Cli!Sourced(g)
BY Zenon DEF Cli!Evidence

CliLive(L, s) == \E h \in L : Cli!Newest(L, h) /\ h.available /\ \E d \in Cli!Sourced(h) : d.row.session = s
CliSpeaks(L, g, e) == Cli!Newest(L, g) /\ e \in Cli!Sourced(g) /\ (g.available \/ ~CliLive(L, e.row.session))
LEMMA CliActive ==
  ASSUME NEW L, L \subseteq CliReadings, NEW scope, NEW e
  PROVE  e \in Cli!ActiveRows(L, scope) <=> e.row.session \in scope /\ \E g \in L : CliSpeaks(L, g, e)
<1> DEFINE Of(g) == {[there |-> g.available, e |-> d] : d \in Cli!Sourced(g)}
           new == {h \in L : Cli!Newest(L, h)}
           rows == UNION {Of(g) : g \in new}
           live == {q.e.row.session : q \in {p \in rows : p.there}}
           chosen == {q \in rows : q.e.row.session \in scope /\ (q.there \/ q.e.row.session \notin live)}
<1>1. e \in Cli!ActiveRows(L, scope) <=> e \in {q.e : q \in chosen}
  BY Zenon DEF Cli!ActiveRows
<1>2. \A g, q : q \in Of(g) <=> \E d \in Cli!Sourced(g) : q = [there |-> g.available, e |-> d]
  BY Zenon
<1> HIDE DEF Of
<1>3. \A q : q \in rows <=> \E g \in L : Cli!Newest(L, g) /\ \E d \in Cli!Sourced(g) : q = [there |-> g.available, e |-> d]
  <2>1. \A q : q \in rows <=> \E g \in new : q \in Of(g)
    BY Zenon
  <2>2. \A g : g \in new <=> g \in L /\ Cli!Newest(L, g)
    BY Zenon
  <2> HIDE DEF new, rows
  <2> QED BY <1>2, <2>1, <2>2, Zenon
<1> HIDE DEF rows
<1>4. ASSUME NEW s PROVE s \in live <=> CliLive(L, s)
  <2>1. s \in live <=> \E q \in rows : q.there /\ s = q.e.row.session
    BY Zenon
  <2> HIDE DEF live
  <2>2. ASSUME NEW q \in rows, q.there, s = q.e.row.session PROVE CliLive(L, s)
    BY <1>3, <2>2 DEF CliLive
  <2>3. ASSUME CliLive(L, s) PROVE \E q \in rows : q.there /\ s = q.e.row.session
    <3>1. PICK h \in L : Cli!Newest(L, h) /\ h.available /\ \E d \in Cli!Sourced(h) : d.row.session = s
      BY <2>3, Zenon DEF CliLive
    <3>2. PICK d \in Cli!Sourced(h) : d.row.session = s
      BY <3>1
    <3> DEFINE q == [there |-> h.available, e |-> d]
    <3>3. q \in rows
      BY <1>3, <3>1
    <3>4. q.there /\ s = q.e.row.session
      BY <3>1, <3>2
    <3> QED BY <3>3, <3>4
  <2> QED BY <2>1, <2>2, <2>3
<1> HIDE DEF live
<1>5. e \in {q.e : q \in chosen} <=> \E q \in rows : e = q.e /\ e.row.session \in scope /\ (q.there \/ e.row.session \notin live)
  BY Zenon
<1>6. ASSUME NEW q \in rows, e = q.e, e.row.session \in scope, q.there \/ e.row.session \notin live
      PROVE  e.row.session \in scope /\ \E g \in L : CliSpeaks(L, g, e)
  <2>1. PICK g \in L : Cli!Newest(L, g) /\ \E d \in Cli!Sourced(g) : q = [there |-> g.available, e |-> d]
    BY <1>3
  <2>2. e \in Cli!Sourced(g) /\ q.there = g.available
    BY <1>6, <2>1
  <2> QED BY <1>4, <1>6, <2>1, <2>2 DEF CliSpeaks
<1>7. ASSUME e.row.session \in scope, NEW g \in L, CliSpeaks(L, g, e)
      PROVE  \E q \in rows : e = q.e /\ e.row.session \in scope /\ (q.there \/ e.row.session \notin live)
  <2> DEFINE q == [there |-> g.available, e |-> e]
  <2>1. Cli!Newest(L, g) /\ e \in Cli!Sourced(g) /\ (g.available \/ ~CliLive(L, e.row.session))
    BY <1>7 DEF CliSpeaks
  <2>2. q \in rows
    BY <1>3, <2>1
  <2>3. e = q.e /\ (q.there \/ e.row.session \notin live)
    BY <1>4, <2>1
  <2> QED BY <1>7, <2>2, <2>3
<1> QED BY <1>1, <1>5, <1>6, <1>7

-----------------------------------------------------------------------------
(* What is decided of a session depends on the rows of its own files, and on
   the sessions they have events in common with.  CliAlike: two states of the
   evidence that agree on the sessions in V. *)
CliForeign(E, e) == \E f \in E : f.row.event = e.row.event /\ f.row.session # e.row.session
CliAlike(E, A, F, B, V) ==
  /\ \A e : e.row.session \in V => (e \in A <=> e \in B)
  /\ \A e \in A : \A f \in A : e.source = f.source /\ e.row.session \in V => f.row.session \in V
  /\ \A e \in B : \A f \in B : e.source = f.source /\ e.row.session \in V => f.row.session \in V
  /\ \A e \in A : e.row.session \in V /\ e.row.event # None => (CliForeign(E, e) <=> CliForeign(F, e))

LEMMA CliSameSignature ==
  ASSUME NEW E, NEW A, NEW F, NEW B, NEW V, CliAlike(E, A, F, B, V), NEW e \in A, e.row.session \in V
  PROVE  Cli!Signature(A, e) = Cli!Signature(B, e)
<1>1. e \in B
  BY DEF CliAlike
<1>2. \A f : f \in A /\ f.source = e.source /\ f.row.event = e.row.event
             <=> f \in B /\ f.source = e.source /\ f.row.event = e.row.event
  BY <1>1 DEF CliAlike
<1>3. {g \in A : g.source = e.source /\ g.row.event = e.row.event} = {g \in B : g.source = e.source /\ g.row.event = e.row.event}
  BY <1>2
<1> QED BY <1>3, Zenon DEF Cli!Signature

LEMMA CliSameDispute ==
  ASSUME NEW E, NEW A, NEW F, NEW B, NEW V, CliAlike(E, A, F, B, V), NEW e \in A, e.row.session \in V
  PROVE  Cli!Disputed(E, A, e) <=> Cli!Disputed(F, B, e)
<1>1. Cli!Signature(A, e) = Cli!Signature(B, e)
  BY CliSameSignature
<1>2. ASSUME NEW f, f.row.session = e.row.session
      PROVE  (f \in A <=> f \in B) /\ (f \in A => Cli!Signature(A, f) = Cli!Signature(B, f))
  <2>1. f.row.session \in V
    BY <1>2
  <2>2. f \in A <=> f \in B
    BY <2>1 DEF CliAlike
  <2>3. f \in A => Cli!Signature(A, f) = Cli!Signature(B, f)
    BY <2>1, CliSameSignature
  <2> QED BY <2>2, <2>3
<1>3. e.row.event # None => (CliForeign(E, e) <=> CliForeign(F, e))
  BY DEF CliAlike
<1>4. \A X, Y : Cli!Disputed(X, Y, e) <=>
        e.row.event # None /\ \/ CliForeign(X, e)
                              \/ \E f \in Y : /\ f.row.session = e.row.session /\ f.row.event = e.row.event
                                              /\ (f.row.parent # e.row.parent \/ Cli!Signature(Y, f) # Cli!Signature(Y, e))
  BY Zenon DEF Cli!Disputed, CliForeign
<1>5. (\E f \in A : /\ f.row.session = e.row.session /\ f.row.event = e.row.event
                    /\ (f.row.parent # e.row.parent \/ Cli!Signature(A, f) # Cli!Signature(A, e)))
      <=> (\E f \in B : /\ f.row.session = e.row.session /\ f.row.event = e.row.event
                        /\ (f.row.parent # e.row.parent \/ Cli!Signature(B, f) # Cli!Signature(B, e)))
  BY <1>1, <1>2, Zenon
<1> QED BY <1>3, <1>4, <1>5, Zenon

LEMMA CliSameCandidate ==
  ASSUME NEW E, NEW A, NEW F, NEW B, NEW V, CliAlike(E, A, F, B, V), NEW e \in A, e.row.session \in V
  PROVE  /\ e \in B /\ (Cli!Disputed(E, A, e) <=> Cli!Disputed(F, B, e))
         /\ \A allowed : Cli!Candidate(E, A, e, allowed) = Cli!Candidate(F, B, e, allowed)
<1>1. e \in B
  BY DEF CliAlike
<1>2. Cli!Signature(A, e) = Cli!Signature(B, e) /\ (Cli!Disputed(E, A, e) <=> Cli!Disputed(F, B, e))
  BY CliSameSignature, CliSameDispute
<1>3. ASSUME NEW allowed PROVE Cli!Candidate(E, A, e, allowed) = Cli!Candidate(F, B, e, allowed)
  <2>1. (~e.row.invalid /\ ~Cli!Disputed(E, A, e)) = (~e.row.invalid /\ ~Cli!Disputed(F, B, e))
    BY <1>2
  <2> QED BY <1>2, <2>1, Zenon DEF Cli!Candidate
<1> QED BY <1>1, <1>2, <1>3

LEMMA CliAlikeBack ==
  ASSUME NEW E, NEW A, NEW F, NEW B, NEW V, CliAlike(E, A, F, B, V)
  PROVE  CliAlike(F, B, E, A, V)
BY DEF CliAlike

-----------------------------------------------------------------------------
(* So what is decided of a session in V is the same. *)
CliSameFor(d, c, V) ==
  \A o : o.session \in V => (o \in DOMAIN d <=> o \in DOMAIN c) /\ (o \in DOMAIN d => d[o] = c[o])
CliSameRows(X, Y, V) == \A e : e.row.session \in V => (e \in X <=> e \in Y)

LEMMA CliFactsOf == \A r : Cli!Facts(r).session = r.session /\ Cli!Facts(r).model = r.model
BY DEF Cli!Facts

LEMMA CliSameDecide ==
  ASSUME NEW C, NEW D, NEW V, \A c : c.e.row.session \in V => (c \in C <=> c \in D)
  PROVE  CliSameFor(Cli!Decide(C), Cli!Decide(D), V)
<1> SUFFICES ASSUME NEW o, o.session \in V
             PROVE  /\ o \in DOMAIN Cli!Decide(C) <=> o \in DOMAIN Cli!Decide(D)
                    /\ o \in DOMAIN Cli!Decide(C) => Cli!Decide(C)[o] = Cli!Decide(D)[o]
  BY DEF CliSameFor
<1> DEFINE Of(X) == {c \in X : c.e.row.session = o.session /\ c.e.row.model = o.model}
<1>1. Of(C) = Of(D)
  OBVIOUS
<1>2. \A X : /\ DOMAIN Cli!Decide(X) = Cli!Rows(X)
             /\ o \in Cli!Rows(X) => Cli!Decide(X)[o] = Cli!Latest(Of(X))
  BY Zenon DEF Cli!Decide
<1>3. \A X : o \in Cli!Rows(X) <=> \E c \in X : o = Cli!Facts(c.e.row)
  BY Zenon DEF Cli!Rows
<1> HIDE DEF Of
<1>4. o \in Cli!Rows(C) <=> o \in Cli!Rows(D)
  BY <1>3, CliFactsOf
<1> QED BY <1>1, <1>2, <1>4

LEMMA CliSameScope ==
  ASSUME NEW E, NEW A, NEW F, NEW B, NEW V, CliAlike(E, A, F, B, V)
  PROVE  /\ \A s : CliSameRows(Cli!Scope(A, s), Cli!Scope(B, s), V)
         /\ CliSameRows(Cli!MetadataRows(A), Cli!MetadataRows(B), V)
         /\ CliSameRows(Cli!AmountRows(A), Cli!AmountRows(B), V)
<1>1. \A e : e.row.session \in V => (e \in A <=> e \in B)
  BY DEF CliAlike
<1>2. \A X, s, e : e \in Cli!Scope(X, s) <=> e \in X /\ e.row.scope = s
  BY DEF Cli!Scope
<1>3. \A s, e : e.row.session \in V => (e \in Cli!Scope(A, s) <=> e \in Cli!Scope(B, s))
  BY <1>1, <1>2
<1>4. \A X, e : e \in Cli!MetadataRows(X) <=>
         /\ e \in Cli!Scope(X, "metadata")
         /\ e.row.event # None \/ \A f \in Cli!Scope(X, "metadata") : f.row.session = e.row.session => f.row.event = None
  BY Zenon DEF Cli!MetadataRows
<1>5. \A e : e.row.session \in V => (e \in Cli!MetadataRows(A) <=> e \in Cli!MetadataRows(B))
  <2> TAKE e
  <2>1. SUFFICES ASSUME e.row.session \in V PROVE e \in Cli!MetadataRows(A) <=> e \in Cli!MetadataRows(B)
    OBVIOUS
  <2>2. \A f : f.row.session = e.row.session => (f \in Cli!Scope(A, "metadata") <=> f \in Cli!Scope(B, "metadata"))
    BY <1>3, <2>1
  <2> QED BY <1>4, <2>2
<1>6. \A X, e : e \in Cli!AmountRows(X) <=> e \in Cli!Scope(X, "session") /\ (e.row.value # None \/ e.row.invalid)
  BY Zenon DEF Cli!AmountRows
<1> QED BY <1>3, <1>5, <1>6 DEF CliSameRows

LEMMA CliSameIn ==
  ASSUME NEW X, NEW Y, NEW V, CliSameRows(X, Y, V)
  PROVE  \A s \in V : s \in Cli!In(X) <=> s \in Cli!In(Y)
<1>1. \A Z, s : s \in Cli!In(Z) <=> \E e \in Z : s = e.row.session
  BY Zenon DEF Cli!In
<1> QED BY <1>1 DEF CliSameRows

LEMMA CliSameTokens ==
  ASSUME NEW E, NEW A, NEW F, NEW B, NEW V, CliAlike(E, A, F, B, V)
  PROVE  CliSameFor(Cli!TokenDecisions(E, A), Cli!TokenDecisions(F, B), V)
<1> DEFINE Plain(X, Y, e) == Cli!Candidate(X, Y, e, FALSE)
           Free(X, Y, e) == Cli!Candidate(X, Y, e, TRUE)
           First(X, Y) == {Plain(X, Y, e) : e \in Cli!Scope(Y, "model")}
           Rest(Y) == {f \in Cli!MetadataRows(Y) : f.row.session \notin Cli!In(Cli!Scope(Y, "model"))}
           Second(X, Y) == {Free(X, Y, e) : e \in Rest(Y)}
           C == First(E, A) \cup Second(E, A)
           D == First(F, B) \cup Second(F, B)
<1>1. Cli!TokenDecisions(E, A) = Cli!Decide(C) /\ Cli!TokenDecisions(F, B) = Cli!Decide(D)
  BY Zenon DEF Cli!TokenDecisions
<1>2. ASSUME NEW e, e.row.session \in V
      PROVE  /\ e \in Cli!Scope(A, "model") <=> e \in Cli!Scope(B, "model")
             /\ e \in Rest(A) <=> e \in Rest(B)
  <2>1. CliSameRows(Cli!Scope(A, "model"), Cli!Scope(B, "model"), V) /\ CliSameRows(Cli!MetadataRows(A), Cli!MetadataRows(B), V)
    BY CliSameScope
  <2>2. e.row.session \in Cli!In(Cli!Scope(A, "model")) <=> e.row.session \in Cli!In(Cli!Scope(B, "model"))
    BY <1>2, <2>1, CliSameIn
  <2> QED BY <1>2, <2>1, <2>2 DEF CliSameRows
<1>3. \A X, Y, c : /\ c \in First(X, Y) <=> \E e \in Cli!Scope(Y, "model") : c = Plain(X, Y, e)
                   /\ c \in Second(X, Y) <=> \E e \in Rest(Y) : c = Free(X, Y, e)
  BY Zenon
<1>4. Cli!Scope(A, "model") \subseteq A /\ Rest(A) \subseteq A /\ Cli!Scope(B, "model") \subseteq B /\ Rest(B) \subseteq B
  BY DEF Cli!Scope, Cli!MetadataRows
<1>40. \A X, Y, e : Plain(X, Y, e).e = e /\ Free(X, Y, e).e = e
  BY DEF Cli!Candidate
<1>41. \A e \in A : e.row.session \in V => Plain(E, A, e) = Plain(F, B, e) /\ Free(E, A, e) = Free(F, B, e)
  <2>1. \A e \in A : e.row.session \in V => \A allowed : Cli!Candidate(E, A, e, allowed) = Cli!Candidate(F, B, e, allowed)
    BY CliSameCandidate
  <2> QED BY <2>1, Zenon
<1> HIDE DEF First, Second, Rest, Plain, Free
<1>5. ASSUME NEW c, c.e.row.session \in V PROVE c \in C <=> c \in D
  <2>2. c \in First(E, A) <=> c \in First(F, B)
    BY <1>2, <1>3, <1>4, <1>5, <1>40, <1>41
  <2>3. c \in Second(E, A) <=> c \in Second(F, B)
    BY <1>2, <1>3, <1>4, <1>5, <1>40, <1>41
  <2> QED BY <2>2, <2>3
<1> HIDE DEF C, D
<1>6. CliSameFor(Cli!Decide(C), Cli!Decide(D), V)
  BY <1>5, CliSameDecide
<1> QED BY <1>1, <1>6

LEMMA CliSameAmounts ==
  ASSUME NEW E, NEW A, NEW F, NEW B, NEW V, CliAlike(E, A, F, B, V)
  PROVE  CliSameFor(Cli!AmountDecisions(E, A), Cli!AmountDecisions(F, B), V)
<1> DEFINE Heard(Y) == Cli!Scope(Y, "session") \cup Cli!Scope(Y, "model")
           Plain(X, Y, e) == Cli!Candidate(X, Y, e, FALSE)
           Free(X, Y, e) == Cli!Candidate(X, Y, e, e.row.session \notin Cli!In(Heard(Y)))
           First(X, Y) == {Plain(X, Y, e) : e \in Cli!AmountRows(Y)}
           Rest(Y) == {f \in Cli!MetadataRows(Y) : f.row.session \notin Cli!In(Cli!AmountRows(Y))}
           Second(X, Y) == {Free(X, Y, e) : e \in Rest(Y)}
           C == First(E, A) \cup Second(E, A)
           D == First(F, B) \cup Second(F, B)
<1>1. Cli!AmountDecisions(E, A) = Cli!Decide(C) /\ Cli!AmountDecisions(F, B) = Cli!Decide(D)
  BY Zenon DEF Cli!AmountDecisions
<1>2. ASSUME NEW e, e.row.session \in V
      PROVE  /\ e \in Cli!AmountRows(A) <=> e \in Cli!AmountRows(B)
             /\ e \in Rest(A) <=> e \in Rest(B)
             /\ (e.row.session \notin Cli!In(Heard(A))) = (e.row.session \notin Cli!In(Heard(B)))
  <2>1. /\ CliSameRows(Cli!Scope(A, "model"), Cli!Scope(B, "model"), V) /\ CliSameRows(Cli!MetadataRows(A), Cli!MetadataRows(B), V)
        /\ CliSameRows(Cli!Scope(A, "session"), Cli!Scope(B, "session"), V) /\ CliSameRows(Cli!AmountRows(A), Cli!AmountRows(B), V)
    BY CliSameScope
  <2>2. e.row.session \in Cli!In(Cli!AmountRows(A)) <=> e.row.session \in Cli!In(Cli!AmountRows(B))
    BY <1>2, <2>1, CliSameIn
  <2>3. CliSameRows(Heard(A), Heard(B), V)
    BY <2>1 DEF CliSameRows
  <2>4. e.row.session \in Cli!In(Heard(A)) <=> e.row.session \in Cli!In(Heard(B))
    <3> HIDE DEF Heard
    <3> QED BY <1>2, <2>3, CliSameIn
  <2> HIDE DEF Heard
  <2> QED BY <1>2, <2>1, <2>2, <2>4 DEF CliSameRows
<1>3. \A X, Y, c : /\ c \in First(X, Y) <=> \E e \in Cli!AmountRows(Y) : c = Plain(X, Y, e)
                   /\ c \in Second(X, Y) <=> \E e \in Rest(Y) : c = Free(X, Y, e)
  BY Zenon
<1>4. Cli!AmountRows(A) \subseteq A /\ Rest(A) \subseteq A /\ Cli!AmountRows(B) \subseteq B /\ Rest(B) \subseteq B
  BY DEF Cli!Scope, Cli!MetadataRows, Cli!AmountRows
<1>40. \A X, Y, e : Plain(X, Y, e).e = e /\ Free(X, Y, e).e = e
  BY DEF Cli!Candidate
<1>41. \A e \in A : e.row.session \in V => Plain(E, A, e) = Plain(F, B, e) /\ Free(E, A, e) = Free(F, B, e)
  <2>1. \A e \in A : e.row.session \in V => \A allowed : Cli!Candidate(E, A, e, allowed) = Cli!Candidate(F, B, e, allowed)
    BY CliSameCandidate
  <2> HIDE DEF Heard
  <2> QED BY <1>2, <2>1, Zenon
<1> HIDE DEF First, Second, Rest, Heard, Plain, Free
<1>5. ASSUME NEW c, c.e.row.session \in V PROVE c \in C <=> c \in D
  <2>2. c \in First(E, A) <=> c \in First(F, B)
    BY <1>2, <1>3, <1>4, <1>5, <1>40, <1>41
  <2>3. c \in Second(E, A) <=> c \in Second(F, B)
    BY <1>2, <1>3, <1>4, <1>5, <1>40, <1>41
  <2> QED BY <2>2, <2>3
<1> HIDE DEF C, D
<1>6. CliSameFor(Cli!Decide(C), Cli!Decide(D), V)
  BY <1>5, CliSameDecide
<1> QED BY <1>1, <1>6

LEMMA CliSamePresence ==
  ASSUME NEW E, NEW A, NEW F, NEW B, NEW V, CliAlike(E, A, F, B, V), NEW s \in V
  PROVE  Cli!Presence(E, A, s) = Cli!Presence(F, B, s) /\ (Cli!BrokenControl(A, s) <=> Cli!BrokenControl(B, s))
<1> DEFINE Of(Y) == {f \in Cli!Scope(Y, "session") : f.row.session = s /\ f.row.models # None}
           P(X, Y, e) == [Cli!Candidate(X, Y, e, FALSE) EXCEPT !.value = 0, !.usable = ~Cli!Disputed(X, Y, e)]
<1>1. CliSameRows(Cli!Scope(A, "session"), Cli!Scope(B, "session"), V)
  BY CliSameScope
<1>2. \A e : e.row.session = s => (e \in Cli!Scope(A, "session") <=> e \in Cli!Scope(B, "session"))
  BY <1>1 DEF CliSameRows
<1>3. Of(A) = Of(B)
  BY <1>2
<1>4. ASSUME NEW e \in Of(A) PROVE P(E, A, e) = P(F, B, e)
  <2>1. e \in A /\ e.row.session \in V
    BY DEF Cli!Scope
  <2>2. Cli!Candidate(E, A, e, FALSE) = Cli!Candidate(F, B, e, FALSE) /\ (Cli!Disputed(E, A, e) <=> Cli!Disputed(F, B, e))
    <3>1. \A allowed : Cli!Candidate(E, A, e, allowed) = Cli!Candidate(F, B, e, allowed)
      BY <2>1, CliSameCandidate
    <3>2. Cli!Disputed(E, A, e) <=> Cli!Disputed(F, B, e)
      BY <2>1, CliSameCandidate
    <3> QED BY <3>1, <3>2, Zenon
  <2>3. (~Cli!Disputed(E, A, e)) = (~Cli!Disputed(F, B, e))
    BY <2>2
  <2> QED BY <2>2, <2>3, Zenon
<1>5. Cli!Presence(E, A, s) = {P(E, A, e) : e \in Of(A)} /\ Cli!Presence(F, B, s) = {P(F, B, e) : e \in Of(B)}
  BY Zenon DEF Cli!Presence
<1> HIDE DEF P, Of
<1>6. {P(E, A, e) : e \in Of(A)} = {P(F, B, e) : e \in Of(B)}
  BY <1>3, <1>4
<1> QED BY <1>2, <1>5, <1>6 DEF Cli!BrokenControl

LEMMA CliSameQuarantine ==
  ASSUME NEW E, NEW A, NEW F, NEW B, NEW V, CliAlike(E, A, F, B, V), NEW d, NEW c, CliSameFor(d, c, V)
  PROVE  CliSameFor(Cli!Quarantined(E, A, d), Cli!Quarantined(F, B, c), V)
<1> SUFFICES ASSUME NEW o, o.session \in V
             PROVE  /\ o \in DOMAIN Cli!Quarantined(E, A, d) <=> o \in DOMAIN Cli!Quarantined(F, B, c)
                    /\ o \in DOMAIN Cli!Quarantined(E, A, d) => Cli!Quarantined(E, A, d)[o] = Cli!Quarantined(F, B, c)[o]
  BY DEF CliSameFor
<1>1. \A X, Y, x : /\ DOMAIN Cli!Quarantined(X, Y, x) = DOMAIN x
                   /\ o \in DOMAIN x => Cli!Quarantined(X, Y, x)[o] =
                        IF Cli!Present(X, Y, o) /\ ~Cli!BrokenControl(Y, o.session) THEN x[o] ELSE None
  BY Zenon DEF Cli!Quarantined
<1>2. (o \in DOMAIN d <=> o \in DOMAIN c) /\ (o \in DOMAIN d => d[o] = c[o])
  BY DEF CliSameFor
<1>3. Cli!Presence(E, A, o.session) = Cli!Presence(F, B, o.session) /\ (Cli!BrokenControl(A, o.session) <=> Cli!BrokenControl(B, o.session))
  BY CliSamePresence
<1>4. Cli!Present(E, A, o) <=> Cli!Present(F, B, o)
  BY <1>3, Zenon DEF Cli!Present
<1> QED BY <1>1, <1>2, <1>3, <1>4

-----------------------------------------------------------------------------
(* There are finitely many rows, hence finitely many links. *)
LEMMA CliFiniteRows ==
  ASSUME Cli!CliConstants, NEW f \in CliFiles
  PROVE  IsFiniteSet(Cli!ReadRows(f))
<1> DEFINE D == DOMAIN f.events
           S == Cli!Starts(f)
           controls == {i \in Cli!Chained(f) : f.events[i].type \in Cli!Controls /\ f.events[i].agent = None}
           valid == {c \in controls : Cli!ValidShutdown(f, f.events[c])}
           models == [i \in valid |-> {Cli!ModelRow(f, i, m) : m \in DOMAIN f.events[i].usage}]
           start == [s \in S |-> Cli!Metadata(f, s)]
           session == [i \in controls |-> Cli!SessionRow(f, i)]
<1>1. IsFiniteSet(D) /\ \A i \in D : IsFiniteSet(DOMAIN f.events[i].usage)
  BY CliLibrary DEF Cli!CliConstants
<1>2. S \in SUBSET D /\ controls \in SUBSET D /\ valid \in SUBSET D
  BY DEF Cli!Starts, Cli!Chained, Cli!Firsts
<1>3. \A i \in valid : IsFiniteSet(models[i])
  <2> TAKE i \in valid
  <2> DEFINE U == DOMAIN f.events[i].usage
             row == [m \in U |-> Cli!ModelRow(f, i, m)]
  <2>1. IsFiniteSet(U)
    BY <1>1, <1>2
  <2>2. models[i] = {row[m] : m \in U}
    BY Zenon
  <2> HIDE DEF U, row, models
  <2> QED BY <2>1, <2>2, FiniteImage
<1>4. CASE ~Cli!Accepted(f)
  BY <1>4, FS_EmptySet DEF Cli!ReadRows
<1>5. CASE Cli!Accepted(f) /\ f.workspace
  BY <1>5, FS_Singleton DEF Cli!ReadRows
<1>6. CASE Cli!Accepted(f) /\ ~f.workspace
  <2> DEFINE A == {start[s] : s \in S}
             B == {session[i] : i \in controls}
             C == UNION {models[i] : i \in valid}
  <2>1. Cli!ReadRows(f) = (A \cup B) \cup C
    <3>1. Cli!ReadRows(f) = {Cli!Metadata(f, s) : s \in Cli!Starts(f)} \cup {Cli!SessionRow(f, i) : i \in controls}
                        \cup UNION {{Cli!ModelRow(f, i, m) : m \in DOMAIN f.events[i].usage} : i \in valid}
      BY <1>6, Zenon DEF Cli!ReadRows
    <3> HIDE DEF controls, valid
    <3>2. /\ A = {Cli!Metadata(f, s) : s \in Cli!Starts(f)} /\ B = {Cli!SessionRow(f, i) : i \in controls}
          /\ {models[i] : i \in valid} = {{Cli!ModelRow(f, i, m) : m \in DOMAIN f.events[i].usage} : i \in valid}
      BY Zenon
    <3> QED BY <3>1, <3>2, Zenon
  <2> HIDE DEF S, controls, valid, models, start, session
  <2>2. IsFiniteSet(S) /\ IsFiniteSet(controls) /\ IsFiniteSet(valid)
    BY <1>1, <1>2, FS_Subset
  <2>3. IsFiniteSet(A) /\ IsFiniteSet(B) /\ IsFiniteSet(C)
    BY <2>2, <1>3, FiniteImage, FiniteUnion
  <2> HIDE DEF A, B, C
  <2>4. IsFiniteSet(A \cup B)
    BY <2>3, FS_Union
  <2>5. IsFiniteSet((A \cup B) \cup C)
    BY <2>3, <2>4, FS_Union
  <2> QED BY <2>1, <2>5
<1> QED BY <1>4, <1>5, <1>6

LEMMA CliFiniteEvidence ==
  ASSUME Cli!CliConstants, NEW L, L \subseteq CliReadings, IsFiniteSet(L)
  PROVE  IsFiniteSet(Cli!Evidence(L))
<1> DEFINE told == [g \in L |-> Cli!Sourced(g)]
<1>1. ASSUME NEW g \in L PROVE IsFiniteSet(told[g])
  <2> DEFINE R == Cli!FileRows[g.file]
             row == [r \in R |-> [source |-> <<g.file.locator, g.number>>, row |-> r]]
  <2>1. g.file \in CliFiles
    BY DEF CliReadings
  <2>2. IsFiniteSet(R)
    BY <2>1, CliFiniteRows DEF Cli!FileRows
  <2>3. told[g] = {row[r] : r \in R}
    BY Zenon DEF Cli!Sourced
  <2> HIDE DEF R, row, told
  <2> QED BY <2>2, <2>3, FiniteImage
<1>2. Cli!Evidence(L) = UNION {told[g] : g \in L}
  BY Zenon DEF Cli!Evidence
<1> HIDE DEF told
<1> QED BY <1>1, <1>2, FiniteUnion

LEMMA CliLinksFinite ==
  ASSUME Cli!CliConstants, NEW L, L \subseteq CliReadings, IsFiniteSet(L)
  PROVE  IsFiniteSet(Cli!Links(L))
<1> DEFINE A == {h \in L : Cli!Accepted(h.file)}
           E == {f \in Cli!Evidence(L) : f.row.event # None}
           P == {f \in Cli!Evidence(L) : f.row.parent # None}
           a == [g \in A |-> {<<"locator", g.file.locator>>, Cli!Session(g.file.session)}]
           e == [f \in E |-> {Cli!Session(f.row.session), <<"event", f.row.event>>}]
           p == [f \in P |-> {Cli!Session(f.row.session), <<"event", f.row.parent>>}]
           SA == {a[g] : g \in A}  SE == {e[f] : f \in E}  SP == {p[f] : f \in P}
<1>1. IsFiniteSet(Cli!Evidence(L))
  BY CliFiniteEvidence
<1>2. A \in SUBSET L /\ E \in SUBSET Cli!Evidence(L) /\ P \in SUBSET Cli!Evidence(L)
  OBVIOUS
<1>3. Cli!Links(L) = (SA \cup SE) \cup SP
  BY Zenon DEF Cli!Links
<1> HIDE DEF A, E, P, a, e, p
<1>4. IsFiniteSet(A) /\ IsFiniteSet(E) /\ IsFiniteSet(P)
  BY <1>1, <1>2, FS_Subset
<1>5. IsFiniteSet(SA) /\ IsFiniteSet(SE) /\ IsFiniteSet(SP)
  BY <1>4, FiniteImage
<1> HIDE DEF SA, SE, SP
<1>6. IsFiniteSet(SA \cup SE)
  BY <1>5, FS_Union
<1>7. IsFiniteSet((SA \cup SE) \cup SP)
  BY <1>5, <1>6, FS_Union
<1> QED BY <1>3, <1>7

(* The sessions an import decides again: those of the files at its places, and
   with one session those of the same place and those it shares an event with. *)
CliScope(L, places, scope) ==
  /\ scope \subseteq Cli!Sessions(L)
  /\ \A g \in L : Cli!Accepted(g.file) /\ g.file.locator \in places => g.file.session \in scope
  /\ \A g, h \in L : Cli!Accepted(g.file) /\ Cli!Accepted(h.file) /\ g.file.locator = h.file.locator
                       => (g.file.session \in scope <=> h.file.session \in scope)
  /\ \A e, f \in Cli!Evidence(L) : e.row.event # None /\ e.row.event = f.row.event
                                 => (e.row.session \in scope <=> f.row.session \in scope)

LEMMA CliEvidenceSession ==
  ASSUME NEW L, L \subseteq CliReadings, NEW e \in Cli!Evidence(L)
  PROVE  e.row.session \in Cli!Sessions(L)
<1>1. PICK g \in L : e \in Cli!Sourced(g)
  BY CliEvidence
<1>2. Cli!Accepted(g.file) /\ e.row.session = g.file.session
  BY <1>1, CliSourced
<1> QED BY <1>2 DEF Cli!Sessions

LEMMA CliAffected ==
  ASSUME Cli!CliConstants, NEW L, L \subseteq CliReadings, IsFiniteSet(L), NEW places
  PROVE  CliScope(L, places, Cli!Affected(L, places))
<1> DEFINE links == Cli!Links(L)
           base == {<<"locator", l>> : l \in places}
           X == Reach(links, base, Cardinality(links))
           scope == Cli!Affected(L, places)
<1>0. IsFiniteSet(links)
  BY CliLinksFinite
<1>1. scope = {s \in Cli!Sessions(L) : Cli!Session(s) \in X}
  BY CliLibrary, Zenon DEF Cli!Affected, Reach
<1>2. base \subseteq X /\ \A l \in links : l \cap X # {} => l \subseteq X
  <2> HIDE DEF links, base
  <2> QED BY <1>0, ReachIsWhole
<1> HIDE DEF X, scope
<1>3. ASSUME NEW g \in L, Cli!Accepted(g.file)
      PROVE  /\ g.file.session \in Cli!Sessions(L)
             /\ {<<"locator", g.file.locator>>, Cli!Session(g.file.session)} \in links
  <2>1. {<<"locator", g.file.locator>>, Cli!Session(g.file.session)} \in links
    BY <1>3, Zenon DEF Cli!Links
  <2> QED BY <1>3, <2>1 DEF Cli!Sessions
<1>4. ASSUME NEW e \in Cli!Evidence(L), e.row.event # None
      PROVE  {Cli!Session(e.row.session), <<"event", e.row.event>>} \in links
  BY <1>4, Zenon DEF Cli!Links
<1> HIDE DEF links
<1>5. ASSUME NEW s \in Cli!Sessions(L), NEW t \in Cli!Sessions(L), NEW k,
             {k, Cli!Session(s)} \in links, {k, Cli!Session(t)} \in links, s \in scope
      PROVE  t \in scope
  <2>1. Cli!Session(s) \in X
    BY <1>1, <1>5
  <2>2. k \in X
    BY <1>2, <1>5, <2>1
  <2>3. Cli!Session(t) \in X
    BY <1>2, <1>5, <2>2
  <2> QED BY <1>1, <1>5, <2>3
<1>6. ASSUME NEW g \in L, Cli!Accepted(g.file), g.file.locator \in places
      PROVE  g.file.session \in scope
  <2>1. <<"locator", g.file.locator>> \in X
    BY <1>2, <1>6
  <2> QED BY <1>1, <1>2, <1>3, <1>6, <2>1
<1>7. ASSUME NEW g \in L, NEW h \in L, Cli!Accepted(g.file), Cli!Accepted(h.file), g.file.locator = h.file.locator
      PROVE  g.file.session \in scope <=> h.file.session \in scope
  <2>1. /\ {<<"locator", g.file.locator>>, Cli!Session(g.file.session)} \in links
        /\ {<<"locator", g.file.locator>>, Cli!Session(h.file.session)} \in links
        /\ g.file.session \in Cli!Sessions(L) /\ h.file.session \in Cli!Sessions(L)
    BY <1>3, <1>7
  <2> QED BY <1>5, <2>1
<1>8. ASSUME NEW e \in Cli!Evidence(L), NEW f \in Cli!Evidence(L), e.row.event # None, e.row.event = f.row.event
      PROVE  e.row.session \in scope <=> f.row.session \in scope
  <2> DEFINE k == <<"event", e.row.event>>
  <2>1. {Cli!Session(e.row.session), k} \in links /\ {Cli!Session(f.row.session), k} \in links
    BY <1>4, <1>8
  <2>2. {k, Cli!Session(e.row.session)} \in links /\ {k, Cli!Session(f.row.session)} \in links
    <3>1. \A x, y : {x, y} = {y, x}
      OBVIOUS
    <3> QED BY <2>1, <3>1
  <2>3. e.row.session \in Cli!Sessions(L) /\ f.row.session \in Cli!Sessions(L)
    BY CliEvidenceSession
  <2> QED BY <1>5, <2>2, <2>3
<1>9. scope \subseteq Cli!Sessions(L)
  BY <1>1
<1> QED BY <1>6, <1>7, <1>8, <1>9 DEF CliScope, scope

-----------------------------------------------------------------------------
(* From the generations K an import leaves L: what is elsewhere stays as it is. *)
CliChange(K, L, places) ==
  /\ K \subseteq CliReadings /\ L \subseteq CliReadings /\ IsFiniteSet(L)
  /\ \A g : g.file.locator \notin places => (g \in K <=> g \in L)
  /\ \A g \in K : \E h \in L : h.file = g.file /\ h.number = g.number

LEMMA CliMoreEvidence ==
  ASSUME NEW K, NEW L, NEW places, CliChange(K, L, places)
  PROVE  Cli!Evidence(K) \subseteq Cli!Evidence(L) /\ Cli!Sessions(K) \subseteq Cli!Sessions(L)
<1>1. ASSUME NEW e \in Cli!Evidence(K) PROVE e \in Cli!Evidence(L)
  <2>1. PICK g \in K : e \in Cli!Sourced(g)
    BY CliEvidence
  <2>2. PICK h \in L : h.file = g.file /\ h.number = g.number
    BY DEF CliChange
  <2>3. Cli!Sourced(h) = Cli!Sourced(g)
    BY <2>2 DEF Cli!Sourced
  <2> QED BY <2>1, <2>3, CliEvidence
<1>2. Cli!Sessions(K) \subseteq Cli!Sessions(L)
  BY DEF CliChange, Cli!Sessions
<1> QED BY <1>1, <1>2

(* Outside the scope. *)
LEMMA CliUntouched ==
  ASSUME NEW K, NEW L, NEW places, CliChange(K, L, places), NEW scope, CliScope(L, places, scope),
         NEW V, V = Cli!Sessions(L) \ scope,
         NEW A, A = Cli!ActiveRows(K, Cli!Sessions(K)), NEW B, B = Cli!ActiveRows(L, Cli!Sessions(L))
  PROVE  CliAlike(Cli!Evidence(K), A, Cli!Evidence(L), B, V)
<1>0. K \subseteq CliReadings /\ L \subseteq CliReadings
  BY DEF CliChange
<1>1. ASSUME NEW g \in L, NEW e \in Cli!Sourced(g), e.row.session \notin scope
      PROVE  g.file.locator \notin places /\ g \in K
  <2>1. Cli!Accepted(g.file) /\ e.row.session = g.file.session
    BY <1>0, CliSourced
  <2>2. g.file.locator \notin places
    BY <1>1, <2>1 DEF CliScope
  <2> QED BY <2>2 DEF CliChange
<1>10. ASSUME NEW g \in K, NEW e \in Cli!Sourced(g), e.row.session \notin scope
       PROVE  g.file.locator \notin places /\ g \in L
  <2>1. PICK h \in L : h.file = g.file /\ h.number = g.number
    BY DEF CliChange
  <2>2. e \in Cli!Sourced(h)
    BY <2>1 DEF Cli!Sourced
  <2>3. h.file.locator \notin places
    BY <1>1, <1>10, <2>2
  <2> QED BY <2>1, <2>3 DEF CliChange
<1>2. ASSUME NEW g, g.file.locator \notin places
      PROVE  Cli!Newest(K, g) <=> Cli!Newest(L, g)
  <2>1. \A h : h.file.locator = g.file.locator => (h \in K <=> h \in L)
    BY <1>2 DEF CliChange
  <2> QED BY <2>1 DEF Cli!Newest
<1>3. ASSUME NEW s \in V PROVE CliLive(K, s) <=> CliLive(L, s)
  <2>1. ASSUME CliLive(K, s) PROVE CliLive(L, s)
    <3>1. PICK h \in K : Cli!Newest(K, h) /\ h.available /\ \E d \in Cli!Sourced(h) : d.row.session = s
      BY <2>1, Zenon DEF CliLive
    <3>2. h.file.locator \notin places /\ h \in L
      BY <1>10, <3>1
    <3> QED BY <1>2, <3>1, <3>2 DEF CliLive
  <2>2. ASSUME CliLive(L, s) PROVE CliLive(K, s)
    <3>1. PICK h \in L : Cli!Newest(L, h) /\ h.available /\ \E d \in Cli!Sourced(h) : d.row.session = s
      BY <2>2, Zenon DEF CliLive
    <3>2. h.file.locator \notin places /\ h \in K
      BY <1>1, <3>1
    <3> QED BY <1>2, <3>1, <3>2 DEF CliLive
  <2> QED BY <2>1, <2>2
<1>4. \A e : /\ e \in A <=> e.row.session \in Cli!Sessions(K) /\ \E g \in K : CliSpeaks(K, g, e)
             /\ e \in B <=> e.row.session \in Cli!Sessions(L) /\ \E g \in L : CliSpeaks(L, g, e)
  BY <1>0, CliActive
<1>5. ASSUME NEW e, e.row.session \in V PROVE e \in A <=> e \in B
  <2>1. ASSUME NEW g \in K, CliSpeaks(K, g, e) PROVE g \in L /\ CliSpeaks(L, g, e)
    BY <1>10, <1>2, <1>3, <1>5, <2>1 DEF CliSpeaks
  <2>2. ASSUME NEW g \in L, CliSpeaks(L, g, e) PROVE g \in K /\ CliSpeaks(K, g, e) /\ e.row.session \in Cli!Sessions(K)
    <3>1. g \in K /\ CliSpeaks(K, g, e)
      BY <1>1, <1>2, <1>3, <1>5, <2>2 DEF CliSpeaks
    <3>2. e.row.session \in Cli!Sessions(K)
      <4>1. e \in Cli!Evidence(K)
        BY <3>1, CliEvidence DEF CliSpeaks
      <4> QED BY <1>0, <4>1, CliEvidenceSession
    <3> QED BY <3>1, <3>2
  <2>3. e.row.session \in Cli!Sessions(L)
    BY <1>5
  <2> QED BY <1>4, <2>1, <2>2, <2>3
<1>6. A \subseteq Cli!Evidence(K) /\ B \subseteq Cli!Evidence(L) /\ Cli!Evidence(K) \subseteq Cli!Evidence(L)
  BY <1>4, CliMoreEvidence, CliEvidence DEF CliSpeaks
<1>7. ASSUME NEW e \in Cli!Evidence(L), NEW f \in Cli!Evidence(L), e.source = f.source, e.row.session \in V
      PROVE  f.row.session \in V
  <2>1. PICK g \in L : e \in Cli!Sourced(g)
    BY CliEvidence
  <2>2. PICK h \in L : f \in Cli!Sourced(h)
    BY CliEvidence
  <2>3. /\ e.source = <<g.file.locator, g.number>> /\ Cli!Accepted(g.file) /\ e.row.session = g.file.session
        /\ f.source = <<h.file.locator, h.number>> /\ Cli!Accepted(h.file) /\ f.row.session = h.file.session
    BY <1>0, <2>1, <2>2, CliSourced
  <2>4. g.file.locator = h.file.locator
    <3>1. \A a, b, c, d : <<a, b>> = <<c, d>> => a = c
      OBVIOUS
    <3>2. <<g.file.locator, g.number>> = <<h.file.locator, h.number>>
      BY <1>7, <2>3
    <3> QED BY <3>1, <3>2, Zenon
  <2>5. f.row.session \in Cli!Sessions(L)
    BY <1>0, CliEvidenceSession
  <2> QED BY <1>7, <2>3, <2>4, <2>5 DEF CliScope
<1>8. ASSUME NEW e \in A, e.row.session \in V, e.row.event # None
      PROVE  CliForeign(Cli!Evidence(K), e) <=> CliForeign(Cli!Evidence(L), e)
  <2>1. ASSUME NEW f \in Cli!Evidence(L), f.row.event = e.row.event PROVE f \in Cli!Evidence(K)
    <3>1. f.row.session \notin scope
      BY <1>6, <1>8, <2>1 DEF CliScope
    <3>2. PICK g \in L : f \in Cli!Sourced(g)
      BY CliEvidence
    <3>3. g \in K
      BY <1>1, <3>1, <3>2
    <3> QED BY <3>2, <3>3, CliEvidence
  <2> QED BY <1>6, <2>1 DEF CliForeign
<1>9. A \subseteq Cli!Evidence(L)
  BY <1>6
<1> QED BY <1>5, <1>6, <1>7, <1>8, <1>9 DEF CliAlike

(* Within it. *)
LEMMA CliRedecided ==
  ASSUME NEW L, L \subseteq CliReadings, NEW places, NEW scope, CliScope(L, places, scope),
         NEW A, A = Cli!ActiveRows(L, scope), NEW B, B = Cli!ActiveRows(L, Cli!Sessions(L))
  PROVE  CliAlike(Cli!Evidence(L), A, Cli!Evidence(L), B, scope)
<1>1. \A e : /\ e \in A <=> e.row.session \in scope /\ \E g \in L : CliSpeaks(L, g, e)
             /\ e \in B <=> e.row.session \in Cli!Sessions(L) /\ \E g \in L : CliSpeaks(L, g, e)
  BY CliActive
<1>2. A \subseteq Cli!Evidence(L) /\ B \subseteq Cli!Evidence(L)
  BY <1>1, CliEvidence DEF CliSpeaks
<1>3. \A e : e.row.session \in scope => (e \in A <=> e \in B)
  BY <1>1 DEF CliScope
<1>4. ASSUME NEW e \in Cli!Evidence(L), NEW f \in Cli!Evidence(L), e.source = f.source, e.row.session \in scope
      PROVE  f.row.session \in scope
  <2>1. PICK g \in L : e \in Cli!Sourced(g)
    BY CliEvidence
  <2>2. PICK h \in L : f \in Cli!Sourced(h)
    BY CliEvidence
  <2>3. /\ e.source = <<g.file.locator, g.number>> /\ Cli!Accepted(g.file) /\ e.row.session = g.file.session
        /\ f.source = <<h.file.locator, h.number>> /\ Cli!Accepted(h.file) /\ f.row.session = h.file.session
    BY <2>1, <2>2, CliSourced
  <2>4. g.file.locator = h.file.locator
    <3>1. \A a, b, c, d : <<a, b>> = <<c, d>> => a = c
      OBVIOUS
    <3>2. <<g.file.locator, g.number>> = <<h.file.locator, h.number>>
      BY <1>4, <2>3
    <3> QED BY <3>1, <3>2, Zenon
  <2> QED BY <1>4, <2>3, <2>4 DEF CliScope
<1> QED BY <1>2, <1>3, <1>4 DEF CliAlike

-----------------------------------------------------------------------------
(* Deciding part is deciding everything. *)
LEMMA CliDecidedSessions ==
  ASSUME NEW E, NEW A, NEW S, \A e \in A : e.row.session \in S
  PROVE  /\ \A o \in DOMAIN Cli!Quarantined(E, A, Cli!TokenDecisions(E, A)) : o.session \in S
         /\ \A o \in DOMAIN Cli!Quarantined(E, A, Cli!AmountDecisions(E, A)) : o.session \in S
<1>1. ASSUME NEW C, \A c \in C : c.e \in A
      PROVE  \A o \in DOMAIN Cli!Quarantined(E, A, Cli!Decide(C)) : o.session \in S
  <2>1. DOMAIN Cli!Quarantined(E, A, Cli!Decide(C)) = Cli!Rows(C)
    BY Zenon DEF Cli!Quarantined, Cli!Decide
  <2>2. \A o \in Cli!Rows(C) : \E c \in C : o = Cli!Facts(c.e.row)
    BY Zenon DEF Cli!Rows
  <2> QED BY <1>1, <2>1, <2>2, CliFactsOf
<1> DEFINE models == Cli!Scope(A, "model")
           One == {Cli!Candidate(E, A, e, FALSE) : e \in models}
           Two == {Cli!Candidate(E, A, e, TRUE) : e \in {f \in Cli!MetadataRows(A) : f.row.session \notin Cli!In(models)}}
           Three == {Cli!Candidate(E, A, e, FALSE) : e \in Cli!AmountRows(A)}
           Four == {Cli!Candidate(E, A, e, e.row.session \notin Cli!In(Cli!Scope(A, "session") \cup Cli!Scope(A, "model"))) :
                      e \in {f \in Cli!MetadataRows(A) : f.row.session \notin Cli!In(Cli!AmountRows(A))}}
<1>2. Cli!TokenDecisions(E, A) = Cli!Decide(One \cup Two) /\ Cli!AmountDecisions(E, A) = Cli!Decide(Three \cup Four)
  BY Zenon DEF Cli!TokenDecisions, Cli!AmountDecisions
<1>3. models \subseteq A /\ Cli!MetadataRows(A) \subseteq A /\ Cli!AmountRows(A) \subseteq A
  BY DEF Cli!Scope, Cli!MetadataRows, Cli!AmountRows
<1>4. (\A c \in One \cup Two : c.e \in A) /\ (\A c \in Three \cup Four : c.e \in A)
  BY <1>3 DEF Cli!Candidate
<1> HIDE DEF One, Two, Three, Four
<1> QED BY <1>1, <1>2, <1>4

LEMMA CliMerge ==
  ASSUME NEW before, NEW anew, NEW all, NEW scope, NEW S, scope \subseteq S,
         all = [o \in DOMAIN all |-> all[o]],
         \A o \in DOMAIN before : o.session \in S, \A o \in DOMAIN anew : o.session \in scope,
         \A o \in DOMAIN all : o.session \in S,
         CliSameFor(anew, all, scope), CliSameFor(before, all, S \ scope)
  PROVE  Cli!Merged(before, scope, anew) = all
<1> DEFINE D == Cli!Kept(before, scope) \cup DOMAIN anew
<1>1. Cli!Merged(before, scope, anew) = [o \in D |-> IF o \in DOMAIN anew THEN anew[o] ELSE before[o]]
  BY Zenon DEF Cli!Merged
<1>2. \A o : o \in D <=> o \in DOMAIN all
  BY DEF CliSameFor, Cli!Kept
<1>3. \A o \in DOMAIN all : (IF o \in DOMAIN anew THEN anew[o] ELSE before[o]) = all[o]
  BY DEF CliSameFor
<1>4. D = DOMAIN all
  BY <1>2
<1> HIDE DEF D
<1> QED BY <1>1, <1>3, <1>4, Zenon

LEMMA CliScopeDecidesAll ==
  ASSUME Cli!CliConstants, NEW K, NEW L, NEW places, CliChange(K, L, places), NEW scope, scope = Cli!Affected(L, places)
  PROVE  /\ Cli!Merged(Cli!AllTokens(K, Cli!Sessions(K)), scope, Cli!AllTokens(L, scope)) = Cli!AllTokens(L, Cli!Sessions(L))
         /\ Cli!Merged(Cli!AllAmounts(K, Cli!Sessions(K)), scope, Cli!AllAmounts(L, scope)) = Cli!AllAmounts(L, Cli!Sessions(L))
<1> DEFINE S == Cli!Sessions(L)
           A == Cli!ActiveRows(K, Cli!Sessions(K))
           B == Cli!ActiveRows(L, scope)
           C == Cli!ActiveRows(L, S)
           E == Cli!Evidence(K)
           F == Cli!Evidence(L)
<1>0. K \subseteq CliReadings /\ L \subseteq CliReadings /\ IsFiniteSet(L)
  BY DEF CliChange
<1>1. CliScope(L, places, scope)
  BY <1>0, CliAffected
<1>2. scope \subseteq S
  BY <1>1 DEF CliScope
<1>3. CliAlike(E, A, F, C, S \ scope)
  BY <1>1, CliUntouched
<1>4. CliAlike(F, B, F, C, scope)
  BY <1>0, <1>1, CliRedecided
<1>5. (\A e \in A : e.row.session \in S) /\ (\A e \in B : e.row.session \in scope) /\ (\A e \in C : e.row.session \in S)
  <2>1. \A X, Z : Z \subseteq CliReadings => \A e \in Cli!ActiveRows(Z, X) : e.row.session \in X
    BY CliActive
  <2>2. Cli!Sessions(K) \subseteq S
    BY CliMoreEvidence
  <2> QED BY <1>0, <2>1, <2>2
<1>6. /\ Cli!AllTokens(K, Cli!Sessions(K)) = Cli!Quarantined(E, A, Cli!TokenDecisions(E, A))
      /\ Cli!AllTokens(L, scope) = Cli!Quarantined(F, B, Cli!TokenDecisions(F, B))
      /\ Cli!AllTokens(L, S) = Cli!Quarantined(F, C, Cli!TokenDecisions(F, C))
      /\ Cli!AllAmounts(K, Cli!Sessions(K)) = Cli!Quarantined(E, A, Cli!AmountDecisions(E, A))
      /\ Cli!AllAmounts(L, scope) = Cli!Quarantined(F, B, Cli!AmountDecisions(F, B))
      /\ Cli!AllAmounts(L, S) = Cli!Quarantined(F, C, Cli!AmountDecisions(F, C))
  BY Zenon DEF Cli!AllTokens, Cli!AllAmounts
<1>7. ASSUME NEW X, NEW Y, NEW d
      PROVE  Cli!Quarantined(X, Y, d) = [o \in DOMAIN Cli!Quarantined(X, Y, d) |-> Cli!Quarantined(X, Y, d)[o]]
  <2> DEFINE value == [o \in DOMAIN d |-> IF Cli!Present(X, Y, o) /\ ~Cli!BrokenControl(Y, o.session) THEN d[o] ELSE None]
  <2>1. Cli!Quarantined(X, Y, d) = value
    BY Zenon DEF Cli!Quarantined
  <2>2. value = [o \in DOMAIN value |-> value[o]]
    OBVIOUS
  <2> HIDE DEF value
  <2> QED BY <2>1, <2>2
<1> HIDE DEF S, A, B, C, E, F
<1>8. Cli!Merged(Cli!Quarantined(E, A, Cli!TokenDecisions(E, A)), scope, Cli!Quarantined(F, B, Cli!TokenDecisions(F, B)))
        = Cli!Quarantined(F, C, Cli!TokenDecisions(F, C))
  <2> DEFINE before == Cli!Quarantined(E, A, Cli!TokenDecisions(E, A))
             anew == Cli!Quarantined(F, B, Cli!TokenDecisions(F, B))
             all == Cli!Quarantined(F, C, Cli!TokenDecisions(F, C))
  <2>1. CliSameFor(Cli!TokenDecisions(E, A), Cli!TokenDecisions(F, C), S \ scope) /\ CliSameFor(Cli!TokenDecisions(F, B), Cli!TokenDecisions(F, C), scope)
    BY <1>3, <1>4, CliSameTokens
  <2>2. CliSameFor(before, all, S \ scope) /\ CliSameFor(anew, all, scope)
    BY <1>3, <1>4, <2>1, CliSameQuarantine
  <2>3. (\A o \in DOMAIN before : o.session \in S) /\ (\A o \in DOMAIN anew : o.session \in scope) /\ (\A o \in DOMAIN all : o.session \in S)
    BY <1>5, CliDecidedSessions
  <2>4. all = [o \in DOMAIN all |-> all[o]]
    BY <1>7, Zenon
  <2> HIDE DEF before, anew, all
  <2>5. Cli!Merged(before, scope, anew) = all
    BY <1>2, <2>2, <2>3, <2>4, CliMerge
  <2> QED BY <2>5 DEF before, anew, all
<1>9. Cli!Merged(Cli!Quarantined(E, A, Cli!AmountDecisions(E, A)), scope, Cli!Quarantined(F, B, Cli!AmountDecisions(F, B)))
        = Cli!Quarantined(F, C, Cli!AmountDecisions(F, C))
  <2> DEFINE before == Cli!Quarantined(E, A, Cli!AmountDecisions(E, A))
             anew == Cli!Quarantined(F, B, Cli!AmountDecisions(F, B))
             all == Cli!Quarantined(F, C, Cli!AmountDecisions(F, C))
  <2>1. CliSameFor(Cli!AmountDecisions(E, A), Cli!AmountDecisions(F, C), S \ scope) /\ CliSameFor(Cli!AmountDecisions(F, B), Cli!AmountDecisions(F, C), scope)
    BY <1>3, <1>4, CliSameAmounts
  <2>2. CliSameFor(before, all, S \ scope) /\ CliSameFor(anew, all, scope)
    BY <1>3, <1>4, <2>1, CliSameQuarantine
  <2>3. (\A o \in DOMAIN before : o.session \in S) /\ (\A o \in DOMAIN anew : o.session \in scope) /\ (\A o \in DOMAIN all : o.session \in S)
    BY <1>5, CliDecidedSessions
  <2>4. all = [o \in DOMAIN all |-> all[o]]
    BY <1>7, Zenon
  <2> HIDE DEF before, anew, all
  <2>5. Cli!Merged(before, scope, anew) = all
    BY <1>2, <2>2, <2>3, <2>4, CliMerge
  <2> QED BY <2>5 DEF before, anew, all
<1> QED BY <1>6, <1>8, <1>9 DEF S

-----------------------------------------------------------------------------
(* The invariant: the readings of a place are numbered, and the decisions are
   those of reading everything anew. *)
CliOthers(L, g) == {h \in L \ {g} : h.file.locator = g.file.locator}
CliNumbered(L) ==
  /\ \A g \in L : g.number <= Cardinality(CliOthers(L, g))
  /\ \A g, h \in L : g.file.locator = h.file.locator /\ g.number = h.number => g = h
CliInv == /\ read \subseteq CliReadings /\ IsFiniteSet(read) /\ Cardinality(read) <= MaxRead
          /\ CliNumbered(read) /\ Cli!Incremental

(* What an import adds. *)
LEMMA CliBatch ==
  ASSUME Cli!CliConstants, read \subseteq CliReadings, IsFiniteSet(read), CliNumbered(read), NEW b \in Cli!Batches,
         NEW L, L = read \cup {Cli!Generation(f) : f \in b}
  PROVE  CliChange(read, L, {f.locator : f \in b}) /\ CliNumbered(L)
<1> DEFINE At2(l) == {g \in read : g.file.locator = l}
           num == [f \in b |-> Cardinality(At2(f.locator))]
           gen == [f \in b |-> Cli!Generation(f)]
           new == {gen[f] : f \in b}
<1>1. b \subseteq CliFiles /\ \A f, g \in b : f.locator = g.locator => f = g
  BY DEF Cli!Batches
<1>2. \A l : IsFiniteSet(At2(l)) /\ Cardinality(At2(l)) \in Nat
  <2> TAKE l
  <2>1. At2(l) \in SUBSET read
    OBVIOUS
  <2> HIDE DEF At2
  <2> QED BY <2>1, FS_Subset, FS_CardinalityType
<1>3. \A f \in b : gen[f] = [file |-> f, available |-> TRUE, number |-> num[f]] /\ num[f] = Cardinality(At2(f.locator))
  BY CliLibrary, Zenon DEF Cli!Generation
<1>4. L = read \cup new
  BY Zenon
<1> HIDE DEF gen, num, At2
<1>5. \A f \in b : gen[f] \in CliReadings /\ gen[f].file = f /\ gen[f].number = Cardinality(At2(f.locator))
  <2> TAKE f \in b
  <2>1. num[f] \in Nat /\ f \in CliFiles
    BY <1>1, <1>2, <1>3
  <2>2. gen[f] = [file |-> f, available |-> TRUE, number |-> num[f]]
    BY <1>3
  <2>3. gen[f] \in CliReadings
    BY <2>1, <2>2 DEF CliReadings
  <2> QED BY <1>3, <2>2, <2>3
<1>6. \A g \in new : g \in CliReadings /\ g.file \in b /\ g.number = Cardinality(At2(g.file.locator))
  BY <1>5
<1>7. IsFiniteSet(L)
  <2>1. IsFiniteSet(b)
    BY <1>1, CliLibrary, FS_Subset DEF Cli!CliConstants
  <2>2. IsFiniteSet(new)
    BY <2>1, FiniteImage
  <2> HIDE DEF new
  <2> QED BY <1>4, <2>2, FS_Union
<1>70. \A g, h \in new : g.file.locator = h.file.locator => g = h
  BY <1>1, <1>5
<1> HIDE DEF new
<1>8. CliChange(read, L, {f.locator : f \in b})
  <2>1. \A g : g.file.locator \notin {f.locator : f \in b} => (g \in read <=> g \in L)
    BY <1>4, <1>6
  <2> QED BY <1>4, <1>6, <1>7, <2>1 DEF CliChange
<1>9. ASSUME NEW g \in L PROVE IsFiniteSet(CliOthers(L, g)) /\ Cardinality(CliOthers(L, g)) \in Nat
  <2>1. CliOthers(L, g) \in SUBSET L
    BY DEF CliOthers
  <2> QED BY <1>7, <2>1, FS_Subset, FS_CardinalityType
<1>10. ASSUME NEW g \in read PROVE g.number < Cardinality(At2(g.file.locator))
  <2>1. CliOthers(read, g) = At2(g.file.locator) \ {g} /\ g \in At2(g.file.locator)
    BY DEF CliOthers, At2
  <2>2. Cardinality(CliOthers(read, g)) = Cardinality(At2(g.file.locator)) - 1
    <3> DEFINE P == At2(g.file.locator)
    <3>1. IsFiniteSet(P) /\ g \in P /\ CliOthers(read, g) = P \ {g}
      BY <1>2, <2>1
    <3> HIDE DEF P
    <3>2. Cardinality(P \ {g}) = Cardinality(P) - 1
      BY <3>1, FS_RemoveElement
    <3> QED BY <3>1, <3>2 DEF P
  <2>3. g.number <= Cardinality(CliOthers(read, g)) /\ g.number \in Nat
    BY DEF CliNumbered, CliReadings
  <2> QED BY <1>2, <2>2, <2>3
<1>11. ASSUME NEW g \in L PROVE g.number <= Cardinality(CliOthers(L, g))
  <2>1. CASE g \in read
    <3>1. CliOthers(read, g) \in SUBSET CliOthers(L, g)
      BY <1>4 DEF CliOthers
    <3>2. Cardinality(CliOthers(read, g)) <= Cardinality(CliOthers(L, g)) /\ Cardinality(CliOthers(read, g)) \in Nat
      BY <1>9, <3>1, FS_Subset, FS_CardinalityType
    <3>3. g.number <= Cardinality(CliOthers(read, g)) /\ g.number \in Nat
      BY <2>1 DEF CliNumbered, CliReadings
    <3> QED BY <1>9, <3>2, <3>3
  <2>2. CASE g \in new
    <3>1. g \notin read
      <4>1. ASSUME g \in read PROVE FALSE
        <5>1. g.number < Cardinality(At2(g.file.locator)) /\ g.number = Cardinality(At2(g.file.locator))
          BY <1>6, <1>10, <2>2, <4>1
        <5> QED BY <1>2, <5>1
      <4> QED BY <4>1
    <3>2. At2(g.file.locator) \in SUBSET CliOthers(L, g)
      BY <1>4, <3>1 DEF CliOthers, At2
    <3>3. Cardinality(At2(g.file.locator)) <= Cardinality(CliOthers(L, g))
      <4> QED BY <1>9, <3>2, FS_Subset
    <3> QED BY <1>6, <2>2, <3>3
  <2> QED BY <1>4, <2>1, <2>2
<1>12. ASSUME NEW g \in L, NEW h \in L, g.file.locator = h.file.locator, g.number = h.number PROVE g = h
  <2>1. CASE g \in read /\ h \in read
    BY <1>12, <2>1 DEF CliNumbered
  <2>2. ASSUME NEW x \in read, NEW y \in new, x.file.locator = y.file.locator, x.number = y.number PROVE FALSE
    <3>1. x.number < Cardinality(At2(x.file.locator)) /\ x.number = Cardinality(At2(x.file.locator))
      BY <1>6, <1>10, <2>2
    <3> QED BY <1>2, <3>1
  <2>3. CASE g \in new /\ h \in new
    BY <1>12, <1>70, <2>3
  <2> QED BY <1>4, <1>12, <2>1, <2>2, <2>3
<1> QED BY <1>8, <1>11, <1>12 DEF CliNumbered

(* What a disappearance leaves. *)
LEMMA CliMissing ==
  ASSUME read \subseteq CliReadings, IsFiniteSet(read), CliNumbered(read), NEW gone,
         NEW L, L = {IF g.file.locator \in gone THEN [g EXCEPT !.available = FALSE] ELSE g : g \in read}
  PROVE  CliChange(read, L, gone) /\ CliNumbered(L) /\ Cardinality(L) <= Cardinality(read)
<1> DEFINE m == [g \in read |-> IF g.file.locator \in gone THEN [g EXCEPT !.available = FALSE] ELSE g]
<1>1. L = {m[g] : g \in read}
  BY Zenon
<1>2. \A g \in read : /\ m[g] \in CliReadings /\ m[g].file = g.file /\ m[g].number = g.number
                      /\ g.file.locator \notin gone => m[g] = g
  BY DEF CliReadings
<1> HIDE DEF m
<1>3. IsFiniteSet(L) /\ Cardinality(L) <= Cardinality(read)
  BY <1>1, FiniteImage
<1>4. \A g, h \in read : m[g] = m[h] => g = h
  <2> TAKE g, h \in read
  <2>1. m[g] = m[h] => g.file = h.file /\ g.number = h.number
    BY <1>2
  <2> QED BY <2>1 DEF CliNumbered
<1>5. CliChange(read, L, gone)
  <2>1. ASSUME NEW g, g.file.locator \notin gone PROVE g \in read <=> g \in L
    BY <1>1, <1>2, <2>1
  <2>2. \A g \in read : \E h \in L : h.file = g.file /\ h.number = g.number
    BY <1>1, <1>2
  <2> QED BY <1>1, <1>2, <1>3, <2>1, <2>2 DEF CliChange
<1>6. ASSUME NEW g \in read
      PROVE  m[g].number <= Cardinality(CliOthers(L, m[g]))
  <2> DEFINE R == CliOthers(read, g)
  <2>1. CliOthers(L, m[g]) = {m[h] : h \in R}
    <3>1. \A h \in R : m[h] \in CliOthers(L, m[g])
      BY <1>1, <1>2, <1>4 DEF CliOthers
    <3>2. \A k \in CliOthers(L, m[g]) : \E h \in R : k = m[h]
      BY <1>1, <1>2 DEF CliOthers
    <3> QED BY <3>1, <3>2
  <2>2. R \in SUBSET read
    BY DEF CliOthers
  <2> HIDE DEF R
  <2>3. IsFiniteSet(R)
    BY <2>2, FS_Subset
  <2>4. Cardinality({m[h] : h \in R}) = Cardinality(R)
    <3> DEFINE T == {m[h] : h \in R}
               f == [h \in R |-> m[h]]
    <3>1. f \in Bijection(R, T)
      BY <1>4, <2>2 DEF Bijection, Injection, Surjection, IsInjective
    <3> HIDE DEF T, f
    <3>2. ExistsBijection(R, T)
      BY <3>1 DEF ExistsBijection
    <3>3. Cardinality(R) = Cardinality(T)
      BY <2>3, <3>2, FS_Bijection
    <3> QED BY <3>3 DEF T
  <2>5. g.number <= Cardinality(R)
    BY DEF CliNumbered, R
  <2> QED BY <1>2, <2>1, <2>4, <2>5
<1>7. CliNumbered(L)
  <2>1. \A g \in L : g.number <= Cardinality(CliOthers(L, g))
    BY <1>1, <1>6
  <2>2. \A g, h \in L : g.file.locator = h.file.locator /\ g.number = h.number => g = h
    BY <1>1, <1>2 DEF CliNumbered
  <2> QED BY <2>1, <2>2 DEF CliNumbered
<1> QED BY <1>3, <1>5, <1>7

LEMMA CliInit == ASSUME Cli!CliConstants, Cli!Init PROVE CliInv
<1>1. read = {} /\ tokens = [o \in {} |-> None] /\ amounts = [o \in {} |-> None]
  BY DEF Cli!Init
<1>2. IsFiniteSet(read) /\ CliNumbered(read) /\ read \subseteq CliReadings /\ Cardinality(read) <= MaxRead
  BY <1>1, FS_EmptySet DEF CliNumbered, Cli!CliConstants
<1> DEFINE A == Cli!ActiveRows(read, Cli!Sessions(read))
           E == Cli!Evidence(read)
<1>3. A = {}
  <2>1. \A e \in A : \E g \in read : CliSpeaks(read, g, e)
    BY <1>2, CliActive
  <2> HIDE DEF A
  <2> QED BY <1>1, <2>1
<1>4. \A o \in {} : o.session \in {}
  OBVIOUS
<1>5. /\ \A o \in DOMAIN Cli!Quarantined(E, A, Cli!TokenDecisions(E, A)) : o.session \in {}
      /\ \A o \in DOMAIN Cli!Quarantined(E, A, Cli!AmountDecisions(E, A)) : o.session \in {}
  <2> HIDE DEF A, E
  <2>1. \A e \in A : e.row.session \in {}
    BY <1>3
  <2> QED BY <2>1, CliDecidedSessions
<1>6. Cli!AllTokens(read, Cli!Sessions(read)) = Cli!Quarantined(E, A, Cli!TokenDecisions(E, A))
      /\ Cli!AllAmounts(read, Cli!Sessions(read)) = Cli!Quarantined(E, A, Cli!AmountDecisions(E, A))
  BY Zenon DEF Cli!AllTokens, Cli!AllAmounts
<1> HIDE DEF A, E
<1>7. \A d : DOMAIN Cli!Quarantined(E, A, d) = {} => Cli!Quarantined(E, A, d) = [o \in {} |-> None]
  <2> TAKE d
  <2>1. Cli!Quarantined(E, A, d) = [o \in DOMAIN d |-> IF Cli!Present(E, A, o) /\ ~Cli!BrokenControl(A, o.session) THEN d[o] ELSE None]
    BY Zenon DEF Cli!Quarantined
  <2> QED BY <2>1
<1>8. Cli!AllTokens(read, Cli!Sessions(read)) = [o \in {} |-> None] /\ Cli!AllAmounts(read, Cli!Sessions(read)) = [o \in {} |-> None]
  BY <1>5, <1>6, <1>7
<1> QED BY <1>1, <1>2, <1>8, Zenon DEF CliInv, Cli!Incremental

LEMMA CliReconciled ==
  ASSUME Cli!CliConstants, CliInv, NEW L, NEW places, CliChange(read, L, places), CliNumbered(L),
         Cardinality(L) <= MaxRead, read' = L, Cli!Reconcile(L, places)
  PROVE  CliInv'
<1> DEFINE scope == Cli!Affected(L, places)
<1>1. /\ tokens' = Cli!Merged(tokens, scope, Cli!AllTokens(L, scope))
      /\ amounts' = Cli!Merged(amounts, scope, Cli!AllAmounts(L, scope))
  BY Zenon DEF Cli!Reconcile
<1>2. tokens = Cli!AllTokens(read, Cli!Sessions(read)) /\ amounts = Cli!AllAmounts(read, Cli!Sessions(read))
  BY DEF CliInv, Cli!Incremental
<1> HIDE DEF scope
<1>3. /\ Cli!Merged(Cli!AllTokens(read, Cli!Sessions(read)), scope, Cli!AllTokens(L, scope)) = Cli!AllTokens(L, Cli!Sessions(L))
      /\ Cli!Merged(Cli!AllAmounts(read, Cli!Sessions(read)), scope, Cli!AllAmounts(L, scope)) = Cli!AllAmounts(L, Cli!Sessions(L))
  BY CliScopeDecidesAll DEF scope
<1>4. tokens' = Cli!AllTokens(L, Cli!Sessions(L)) /\ amounts' = Cli!AllAmounts(L, Cli!Sessions(L))
  BY <1>1, <1>2, <1>3, Zenon
<1>5. L \subseteq CliReadings /\ IsFiniteSet(L)
  BY DEF CliChange
<1>6. Cli!Incremental'
  BY <1>4 DEF Cli!Incremental
<1> QED BY <1>5, <1>6 DEF CliInv

LEMMA CliStep ==
  ASSUME Cli!CliConstants, CliInv, [Cli!Next]_Cli!vars
  PROVE  CliInv'
<1>0. /\ read \subseteq CliReadings /\ IsFiniteSet(read) /\ CliNumbered(read)
      /\ Cardinality(read) <= MaxRead /\ Cardinality(read) \in Nat /\ MaxRead \in Nat
  BY FS_CardinalityType DEF CliInv, Cli!CliConstants
<1>1. CASE UNCHANGED Cli!vars
  BY <1>1 DEF Cli!vars, CliInv, Cli!Incremental
<1>2. ASSUME NEW b \in Cli!Batches, Cli!Import(b) PROVE CliInv'
  <2> DEFINE L == read \cup {Cli!Generation(f) : f \in b}
             places == {f.locator : f \in b}
  <2>1. read' = L /\ Cli!Reconcile(L, places) /\ Cardinality(L) <= MaxRead
    BY <1>2, CliLibrary, Zenon DEF Cli!Import
  <2>2. CliChange(read, L, places) /\ CliNumbered(L)
    BY <1>0, CliBatch
  <2> HIDE DEF L, places
  <2> QED BY <2>1, <2>2, CliReconciled
<1>3. ASSUME NEW gone, Cli!MarkMissing(gone) PROVE CliInv'
  <2> DEFINE L == {IF g.file.locator \in gone THEN [g EXCEPT !.available = FALSE] ELSE g : g \in read}
  <2>1. read' = L /\ Cli!Reconcile(L, gone)
    BY <1>3, Zenon DEF Cli!MarkMissing
  <2>2. L = {IF g.file.locator \in gone THEN [g EXCEPT !.available = FALSE] ELSE g : g \in read}
    BY Zenon
  <2> HIDE DEF L
  <2>3. CliChange(read, L, gone) /\ CliNumbered(L) /\ Cardinality(L) <= Cardinality(read)
    BY <1>0, <2>2, CliMissing
  <2>4. IsFiniteSet(L)
    BY <2>3 DEF CliChange
  <2>5. Cardinality(L) <= MaxRead
    BY <1>0, <2>3, <2>4, FS_CardinalityType
  <2> QED BY <2>1, <2>3, <2>5, CliReconciled
<1> QED BY <1>1, <1>2, <1>3 DEF Cli!Next

LEMMA CliAlways == ASSUME Cli!CliConstants PROVE Cli!Spec => []CliInv
<1>1. CliInv /\ [Cli!Next]_Cli!vars => CliInv'
  BY CliStep
<1>2. Cli!Init => CliInv
  BY CliInit
<1> QED BY <1>1, <1>2, PTL DEF Cli!Spec

(* _reconcile_copilot_cli decides again the sessions that share a place or an
   event with the files of a transaction, and leaves the decisions that deciding
   every session would make: for any files, batches and disappearances. *)
THEOREM CliDecidedAsAll == ASSUME Cli!CliConstants PROVE Cli!Spec => []Cli!Incremental
<1>1. CliInv => Cli!Incremental
  BY DEF CliInv
<1> QED BY <1>1, CliAlways, PTL

-----------------------------------------------------------------------------
(* The rows of a file: what each is about, and that no two are about the same. *)
CliControls(f) == {i \in Cli!Chained(f) : f.events[i].type \in Cli!Controls /\ f.events[i].agent = None}
CliValid(f) == {c \in CliControls(f) : Cli!ValidShutdown(f, f.events[c])}
CliKind(f, r) ==
  \/ \E i \in DOMAIN f.events : r = Cli!Metadata(f, i) /\ (f.workspace => i = 1) /\ (~f.workspace => i \in Cli!Starts(f))
  \/ \E i \in CliControls(f) : r = Cli!SessionRow(f, i)
  \/ \E i \in CliValid(f) : \E m \in DOMAIN f.events[i].usage : r = Cli!ModelRow(f, i, m)

LEMMA CliMetadataIs ==
  \A f, i : LET r == Cli!Metadata(f, i) IN
    /\ r.scope = "metadata" /\ r.model = None /\ r.line = i /\ r.event = f.events[i].id
    /\ r.value = None /\ r.invalid = FALSE /\ r.models = None
BY DEF Cli!Metadata, Cli!Row

LEMMA CliSessionIs ==
  \A f, i : LET r == Cli!SessionRow(f, i) IN
    /\ r.scope = "session" /\ r.model = None /\ r.line = i /\ r.event = f.events[i].id
    /\ r.value = (IF f.events[i].amount = Invalid THEN None ELSE f.events[i].amount)
    /\ r.models = (IF Cli!ValidShutdown(f, f.events[i]) THEN DOMAIN f.events[i].usage ELSE None)
BY DEF Cli!SessionRow, Cli!Row

LEMMA CliModelIs ==
  \A f, i, m : LET r == Cli!ModelRow(f, i, m) IN
    /\ r.scope = "model" /\ r.model = m /\ r.line = i /\ r.event = f.events[i].id
    /\ r.value = (IF f.events[i].usage[m] = Invalid THEN None ELSE f.events[i].usage[m])
    /\ r.invalid = (f.events[i].usage[m] = Invalid) /\ r.models = None
BY DEF Cli!ModelRow, Cli!Row

LEMMA CliRowsAre ==
  ASSUME NEW f, Cli!Accepted(f), ~f.workspace
  PROVE  Cli!ReadRows(f) = {Cli!Metadata(f, s) : s \in Cli!Starts(f)} \cup {Cli!SessionRow(f, i) : i \in CliControls(f)}
                       \cup UNION {{Cli!ModelRow(f, i, m) : m \in DOMAIN f.events[i].usage} : i \in CliValid(f)}
BY Zenon DEF Cli!ReadRows, CliControls, CliValid

LEMMA CliKinds ==
  ASSUME Cli!CliConstants, NEW f \in CliFiles, NEW r \in Cli!ReadRows(f)
  PROVE  CliKind(f, r)
<1>1. Cli!Accepted(f)
  BY DEF Cli!ReadRows
<1>2. CASE f.workspace
  <2>1. r = Cli!Metadata(f, 1)
    BY <1>1, <1>2 DEF Cli!ReadRows
  <2>2. 1 \in DOMAIN f.events
    BY <1>2 DEF Cli!CliConstants
  <2> QED BY <1>2, <2>1, <2>2 DEF CliKind
<1>3. CASE ~f.workspace
  <2> DEFINE models(i) == {Cli!ModelRow(f, i, m) : m \in DOMAIN f.events[i].usage}
  <2>1. Cli!ReadRows(f) = {Cli!Metadata(f, s) : s \in Cli!Starts(f)} \cup {Cli!SessionRow(f, i) : i \in CliControls(f)}
                      \cup UNION {models(i) : i \in CliValid(f)}
    BY <1>1, <1>3, CliRowsAre, Zenon
  <2>2. \/ \E s \in Cli!Starts(f) : r = Cli!Metadata(f, s)
        \/ \E i \in CliControls(f) : r = Cli!SessionRow(f, i)
        \/ \E i \in CliValid(f) : r \in models(i)
    <3> HIDE DEF models
    <3> QED BY <2>1, Zenon
  <2>3. \A i : r \in models(i) => \E m \in DOMAIN f.events[i].usage : r = Cli!ModelRow(f, i, m)
    BY Zenon
  <2>4. \A s \in Cli!Starts(f) : s \in DOMAIN f.events
    BY DEF Cli!Starts
  <2> HIDE DEF models
  <2> QED BY <1>3, <2>2, <2>3, <2>4 DEF CliKind
<1> QED BY <1>2, <1>3

LEMMA CliControlsApart ==
  ASSUME Cli!CliConstants, NEW f \in CliFiles, NEW i \in CliControls(f), NEW j \in CliControls(f)
  PROVE  /\ i \in DOMAIN f.events /\ i \in Nat /\ f.events[i].id # None
         /\ f.events[i].id = f.events[j].id => i = j
<1>1. \A k \in CliControls(f) : k \in Cli!Firsts(f)
  BY DEF CliControls, Cli!Chained
<1>2. \A k \in Cli!Firsts(f) : k \in DOMAIN f.events /\ k \in Nat /\ Cli!Enveloped(f.events[k]) /\ f.events[k].agent # Invalid
  BY DEF Cli!Firsts, Cli!CliConstants
<1>3. i \in Cli!Firsts(f) /\ j \in Cli!Firsts(f)
  BY <1>1
<1>4. f.events[i].id # None
  BY <1>2, <1>3 DEF Cli!Enveloped
<1>5. ASSUME NEW k \in Cli!Firsts(f), NEW l \in Cli!Firsts(f), f.events[k].id = f.events[l].id PROVE ~(k < l /\ k # 0)
  <2>1. SUFFICES ASSUME k < l, k # 0 PROVE FALSE
    OBVIOUS
  <2>2. k \in 1 .. l - 1
    BY <1>2, <2>1
  <2> QED BY <1>2, <1>5, <2>2 DEF Cli!Firsts
<1>6. i # 0 /\ j # 0
  BY <1>2, <1>3 DEF Cli!CliConstants
<1> QED BY <1>2, <1>3, <1>4, <1>5, <1>6

LEMMA CliOneRow ==
  ASSUME Cli!CliConstants, NEW f \in CliFiles, NEW r \in Cli!ReadRows(f), NEW q \in Cli!ReadRows(f),
         r.scope = q.scope, r.event = q.event, r.model = q.model
  PROVE  r = q
<1>0. Cli!Accepted(f)
  BY DEF Cli!ReadRows
<1>1. CliKind(f, r) /\ CliKind(f, q)
  BY CliKinds
<1>2. CASE r.scope = "metadata"
  <2>0. q.scope = "metadata"
    BY <1>2
  <2>1. PICK i \in DOMAIN f.events : r = Cli!Metadata(f, i) /\ (f.workspace => i = 1) /\ (~f.workspace => i \in Cli!Starts(f))
    BY <1>1, <1>2, CliSessionIs, CliModelIs DEF CliKind
  <2>2. PICK j \in DOMAIN f.events : q = Cli!Metadata(f, j) /\ (f.workspace => j = 1) /\ (~f.workspace => j \in Cli!Starts(f))
    BY <1>1, <2>0, CliSessionIs, CliModelIs DEF CliKind
  <2>3. ~f.workspace => \E s : Cli!Starts(f) = {s}
    BY <1>0, Zenon DEF Cli!Accepted, Cli!Started
  <2> QED BY <2>1, <2>2, <2>3
<1>3. CASE r.scope = "session"
  <2>0. q.scope = "session"
    BY <1>3
  <2>1. PICK i \in CliControls(f) : r = Cli!SessionRow(f, i)
    BY <1>1, <1>3, CliMetadataIs, CliModelIs DEF CliKind
  <2>2. PICK j \in CliControls(f) : q = Cli!SessionRow(f, j)
    BY <1>1, <2>0, CliMetadataIs, CliModelIs DEF CliKind
  <2>3. f.events[i].id = f.events[j].id
    BY <2>1, <2>2, CliSessionIs
  <2> QED BY <2>1, <2>2, <2>3, CliControlsApart
<1>4. CASE r.scope = "model"
  <2>0. q.scope = "model"
    BY <1>4
  <2>1. PICK i \in CliValid(f) : \E m \in DOMAIN f.events[i].usage : r = Cli!ModelRow(f, i, m)
    BY <1>1, <1>4, CliMetadataIs, CliSessionIs DEF CliKind
  <2>2. PICK j \in CliValid(f) : \E m \in DOMAIN f.events[j].usage : q = Cli!ModelRow(f, j, m)
    BY <1>1, <2>0, CliMetadataIs, CliSessionIs DEF CliKind
  <2>3. f.events[i].id = f.events[j].id
    BY <2>1, <2>2, CliModelIs
  <2>4. i \in CliControls(f) /\ j \in CliControls(f)
    BY DEF CliValid
  <2>5. i = j
    BY <2>3, <2>4, CliControlsApart
  <2> QED BY <2>1, <2>2, <2>5, CliModelIs
<1>5. r.scope \in {"metadata", "session", "model"}
  BY <1>1, CliMetadataIs, CliSessionIs, CliModelIs DEF CliKind
<1> QED BY <1>2, <1>3, <1>4, <1>5

(* A counter is a number, or malformed; an event's rows are at its line; a
   model's row has a shutdown that reports the model. *)
LEMMA CliRowValues ==
  ASSUME Cli!CliConstants, NEW f \in CliFiles, NEW r \in Cli!ReadRows(f)
  PROVE  /\ r.value \in Nat \cup {None} /\ r.line \in Nat
         /\ r.scope \in {"metadata", "session", "model"}
         /\ r.scope = "metadata" => r.value = None /\ r.models = None /\ r.model = None
         /\ r.scope = "session" => r.event # None /\ r.model = None
         /\ r.scope = "model" => /\ r.event # None /\ r.model # None /\ (r.value = None => r.invalid)
                                 /\ \E z \in Cli!ReadRows(f) : /\ z.scope = "session" /\ z.event = r.event /\ z.line = r.line
                                                           /\ z.models # None /\ r.model \in z.models
<1>1. CliKind(f, r) /\ Cli!Accepted(f)
  BY CliKinds DEF Cli!ReadRows
<1>2. ASSUME NEW i \in DOMAIN f.events, r = Cli!Metadata(f, i)
      PROVE  /\ r.value \in Nat \cup {None} /\ r.line \in Nat /\ r.scope = "metadata"
             /\ r.value = None /\ r.models = None /\ r.model = None
  BY <1>2, CliMetadataIs DEF Cli!CliConstants
<1>3. ASSUME NEW i \in CliControls(f), r = Cli!SessionRow(f, i)
      PROVE  /\ r.value \in Nat \cup {None} /\ r.line \in Nat /\ r.scope = "session"
             /\ r.event # None /\ r.model = None
  <2>1. i \in DOMAIN f.events /\ i \in Nat /\ f.events[i].id # None
    BY CliControlsApart
  <2>2. f.events[i].amount \in Nat \cup {None, Invalid}
    BY <2>1 DEF Cli!CliConstants
  <2> QED BY <1>3, <2>1, <2>2, CliSessionIs
<1>4. ASSUME NEW i \in CliValid(f), NEW m \in DOMAIN f.events[i].usage, r = Cli!ModelRow(f, i, m)
      PROVE  /\ r.value \in Nat \cup {None} /\ r.line \in Nat /\ r.scope = "model"
             /\ r.event # None /\ r.model # None /\ (r.value = None => r.invalid)
             /\ \E z \in Cli!ReadRows(f) : /\ z.scope = "session" /\ z.event = r.event /\ z.line = r.line
                                       /\ z.models # None /\ r.model \in z.models
  <2>0. i \in CliControls(f) /\ Cli!ValidShutdown(f, f.events[i])
    BY DEF CliValid
  <2>1. i \in DOMAIN f.events /\ i \in Nat /\ f.events[i].id # None
    BY <2>0, CliControlsApart
  <2>2. m # None /\ f.events[i].usage[m] \in Nat \cup {Invalid}
    BY <2>1 DEF Cli!CliConstants
  <2> DEFINE z == Cli!SessionRow(f, i)
  <2>3. z.scope = "session" /\ z.event = r.event /\ z.line = r.line
    BY <1>4, CliSessionIs, CliModelIs
  <2>4. z.models = DOMAIN f.events[i].usage
    BY <2>0, CliSessionIs
  <2>5. z \in Cli!ReadRows(f)
    <3>1. CASE f.workspace
      <4>1. Cli!ReadRows(f) = {Cli!Metadata(f, 1)}
        BY <1>1, <3>1 DEF Cli!ReadRows
      <4> QED BY <1>4, <4>1, CliMetadataIs, CliModelIs
    <3>2. CASE ~f.workspace
      <4>1. z \in {Cli!SessionRow(f, k) : k \in CliControls(f)}
        BY <2>0
      <4> HIDE DEF z
      <4> QED BY <1>1, <3>2, <4>1, CliRowsAre, Zenon
    <3> QED BY <3>1, <3>2
  <2>6. z.models # None /\ m \in z.models
    <3>1. z.models # None
      BY <2>1, <2>4 DEF Cli!CliConstants
    <3> QED BY <2>4, <3>1
  <2>7. r.model = m /\ r.value = (IF f.events[i].usage[m] = Invalid THEN None ELSE f.events[i].usage[m])
        /\ r.invalid = (f.events[i].usage[m] = Invalid) /\ r.line = i /\ r.event = f.events[i].id /\ r.scope = "model"
    BY <1>4, CliModelIs
  <2>8. None \notin Nat
    BY DEF Cli!CliConstants
  <2>9. r.value = None => r.invalid
    BY <2>2, <2>7, <2>8
  <2>10. r.value \in Nat \cup {None}
    BY <2>2, <2>7
  <2> HIDE DEF z
  <2> QED BY <2>1, <2>2, <2>3, <2>5, <2>6, <2>7, <2>9, <2>10
<1> QED BY <1>1, <1>2, <1>3, <1>4 DEF CliKind

-----------------------------------------------------------------------------
(* Who tells of a session, and what is decided about. *)
CliTells(g, s) ==
  /\ g \in read /\ g.file.session = s /\ Cli!Accepted(g.file) /\ Cli!Newest(read, g)
  /\ g.available \/ ~CliLive(read, s)
CliActiveRows == Cli!ActiveRows(read, Cli!Sessions(read))
CliEntry(g, r) == [source |-> <<g.file.locator, g.number>>, row |-> r]

LEMMA CliSourcedIs ==
  ASSUME CliInv, NEW g \in read
  PROVE  /\ \A e : e \in Cli!Sourced(g) <=> \E r \in Cli!ReadRows(g.file) : e = CliEntry(g, r)
         /\ Cli!FileRows[g.file] = Cli!ReadRows(g.file) /\ g.file \in CliFiles
         /\ Cli!Accepted(g.file) => \E e \in Cli!Sourced(g) : e.row.session = g.file.session
<1>1. g.file \in CliFiles
  BY DEF CliInv, CliReadings
<1>2. Cli!FileRows[g.file] = Cli!ReadRows(g.file)
  BY <1>1 DEF Cli!FileRows
<1>3. \A e : e \in Cli!Sourced(g) <=> \E r \in Cli!ReadRows(g.file) : e = CliEntry(g, r)
  BY <1>2, Zenon DEF Cli!Sourced, CliEntry
<1>4. ASSUME Cli!Accepted(g.file) PROVE \E r \in Cli!ReadRows(g.file) : TRUE
  <2>1. CASE g.file.workspace
    BY <1>4, <2>1 DEF Cli!ReadRows
  <2>2. CASE ~g.file.workspace
    <3>1. PICK s \in Cli!Starts(g.file) : TRUE
      BY <1>4, <2>2, Zenon DEF Cli!Accepted, Cli!Started
    <3>2. Cli!Metadata(g.file, s) \in {Cli!Metadata(g.file, i) : i \in Cli!Starts(g.file)}
      OBVIOUS
    <3> QED BY <1>4, <2>2, <3>2, CliRowsAre, Zenon
  <2> QED BY <2>1, <2>2
<1>5. ASSUME Cli!Accepted(g.file) PROVE \E e \in Cli!Sourced(g) : e.row.session = g.file.session
  <2>1. PICK r \in Cli!ReadRows(g.file) : TRUE
    BY <1>4, <1>5
  <2>2. CliEntry(g, r) \in Cli!Sourced(g)
    BY <1>3
  <2>3. CliEntry(g, r).row = r
    BY DEF CliEntry
  <2> QED BY <2>2, <2>3, CliRowSession
<1> QED BY <1>1, <1>2, <1>3, <1>5

LEMMA CliTellersAre ==
  ASSUME CliInv, NEW s, NEW g
  PROVE  g \in Cli!Tellers(s) <=> CliTells(g, s)
<1> DEFINE last == {h \in read : h.file.session = s /\ Cli!Accepted(h.file) /\ Cli!Newer(h) = {}}
           there == {h \in last : h.available}
<1>1. Cli!Tellers(s) = IF there = {} THEN last ELSE there
  BY Zenon DEF Cli!Tellers
<1>2. ASSUME NEW h \in read PROVE Cli!Newer(h) = {} <=> Cli!Newest(read, h)
  <2>1. \A k \in read : k.number \in Nat
    BY DEF CliInv, CliReadings
  <2> QED BY <2>1 DEF Cli!Newer, Cli!Newest
<1>3. there = {} <=> ~CliLive(read, s)
  <2>1. ASSUME NEW h \in there PROVE CliLive(read, s)
    <3>1. \E e \in Cli!Sourced(h) : e.row.session = s
      BY <2>1, CliSourcedIs
    <3> QED BY <1>2, <2>1, <3>1 DEF CliLive
  <2>2. ASSUME CliLive(read, s) PROVE \E h \in there : TRUE
    <3>1. PICK h \in read : Cli!Newest(read, h) /\ h.available /\ \E d \in Cli!Sourced(h) : d.row.session = s
      BY <2>2, Zenon DEF CliLive
    <3>2. Cli!Accepted(h.file) /\ h.file.session = s
      BY <3>1, CliSourced DEF CliInv
    <3> QED BY <1>2, <3>1, <3>2
  <2> QED BY <2>1, <2>2
<1>4. g \in last <=> g \in read /\ g.file.session = s /\ Cli!Accepted(g.file) /\ Cli!Newest(read, g)
  BY <1>2
<1> HIDE DEF last
<1> QED BY <1>1, <1>3, <1>4 DEF CliTells

LEMMA CliActiveIs ==
  ASSUME CliInv, NEW e
  PROVE  e \in CliActiveRows <=> \E g : CliTells(g, e.row.session) /\ e \in Cli!Sourced(g)
<1>0. read \subseteq CliReadings
  BY DEF CliInv
<1>1. e \in CliActiveRows <=> e.row.session \in Cli!Sessions(read) /\ \E g \in read : CliSpeaks(read, g, e)
  BY <1>0, CliActive DEF CliActiveRows
<1>2. ASSUME NEW g \in read, CliSpeaks(read, g, e) PROVE CliTells(g, e.row.session) /\ e \in Cli!Sourced(g) /\ e.row.session \in Cli!Sessions(read)
  <2>1. Cli!Accepted(g.file) /\ e.row.session = g.file.session
    BY <1>0, <1>2, CliSourced DEF CliSpeaks
  <2> QED BY <1>2, <2>1 DEF CliTells, CliSpeaks, Cli!Sessions
<1>3. ASSUME NEW g, CliTells(g, e.row.session), e \in Cli!Sourced(g) PROVE g \in read /\ CliSpeaks(read, g, e)
  BY <1>3 DEF CliTells, CliSpeaks
<1> QED BY <1>1, <1>2, <1>3

LEMMA CliTold ==
  ASSUME CliInv, NEW s, NEW g, CliTells(g, s), NEW r \in Cli!ReadRows(g.file)
  PROVE  /\ CliEntry(g, r) \in CliActiveRows /\ CliEntry(g, r) \in Cli!Sourced(g)
         /\ CliEntry(g, r).row = r /\ r.session = s
         /\ CliEntry(g, r).source = <<g.file.locator, g.number>>
<1>1. CliEntry(g, r).row = r /\ CliEntry(g, r).source = <<g.file.locator, g.number>>
  BY DEF CliEntry
<1>2. r.session = s
  BY CliRowSession DEF CliTells
<1>3. CliEntry(g, r) \in Cli!Sourced(g)
  BY CliSourcedIs DEF CliTells
<1> QED BY <1>1, <1>2, <1>3, CliActiveIs

LEMMA CliOneSource ==
  ASSUME CliInv, NEW e \in CliActiveRows, NEW f \in CliActiveRows, e.source = f.source
  PROVE  \E g : CliTells(g, e.row.session) /\ e \in Cli!Sourced(g) /\ f \in Cli!Sourced(g) /\ f.row.session = e.row.session
<1>1. PICK g : CliTells(g, e.row.session) /\ e \in Cli!Sourced(g)
  BY CliActiveIs
<1>2. PICK h : CliTells(h, f.row.session) /\ f \in Cli!Sourced(h)
  BY CliActiveIs
<1>3. g \in CliReadings /\ h \in CliReadings /\ g \in read /\ h \in read
  BY <1>1, <1>2 DEF CliTells, CliInv
<1>4. e.source = <<g.file.locator, g.number>> /\ f.source = <<h.file.locator, h.number>>
  BY <1>1, <1>2, <1>3, CliSourced
<1>5. g.file.locator = h.file.locator /\ g.number = h.number
  <2>1. \A a, b, c, d : <<a, b>> = <<c, d>> => a = c /\ b = d
    OBVIOUS
  <2>2. <<g.file.locator, g.number>> = <<h.file.locator, h.number>>
    BY <1>4
  <2> QED BY <2>1, <2>2, Zenon
<1>6. g = h
  BY <1>3, <1>5 DEF CliInv, CliNumbered
<1> QED BY <1>1, <1>2, <1>6 DEF CliTells

(* What a file says of an event is all of its rows of that event. *)
LEMMA CliSignatureIs ==
  ASSUME CliInv, NEW s, NEW g, CliTells(g, s), NEW r \in Cli!ReadRows(g.file)
  PROVE  Cli!Signature(CliActiveRows, CliEntry(g, r)) =
           IF r.event = None THEN {Cli!Facts(r)} ELSE {Cli!Facts(q) : q \in {p \in Cli!ReadRows(g.file) : p.event = r.event}}
<1> DEFINE e == CliEntry(g, r)
           S == {f \in CliActiveRows : f.source = e.source /\ f.row.event = e.row.event}
           T == {p \in Cli!ReadRows(g.file) : p.event = r.event}
<1>1. e \in CliActiveRows /\ e.row = r /\ e.source = <<g.file.locator, g.number>>
  BY CliTold
<1> HIDE DEF e
<1>2. Cli!Signature(CliActiveRows, e) = IF e.row.event = None THEN {Cli!Facts(e.row)} ELSE {Cli!Facts(f.row) : f \in S}
  BY Zenon DEF Cli!Signature
<1>3. \A q \in T : CliEntry(g, q) \in S /\ CliEntry(g, q).row = q
  BY <1>1, CliTold
<1>4. ASSUME NEW f \in S PROVE f.row \in T
  <2>1. PICK h : CliTells(h, e.row.session) /\ e \in Cli!Sourced(h) /\ f \in Cli!Sourced(h)
    BY <1>1, CliOneSource
  <2>2. g = h
    <3>1. h \in read /\ g \in read /\ h \in CliReadings
      BY <2>1 DEF CliTells, CliInv
    <3>2. <<g.file.locator, g.number>> = <<h.file.locator, h.number>>
      BY <1>1, <2>1, <3>1, CliSourced
    <3>3. \A a, b, c, d : <<a, b>> = <<c, d>> => a = c /\ b = d
      OBVIOUS
    <3>4. g.file.locator = h.file.locator /\ g.number = h.number
      BY <3>2, <3>3, Zenon
    <3> QED BY <3>1, <3>4 DEF CliInv, CliNumbered
  <2>3. f.row \in Cli!ReadRows(g.file)
    BY <2>1, <2>2, CliSourced DEF CliTells, CliInv
  <2> QED BY <1>1, <2>3
<1>5. {Cli!Facts(f.row) : f \in S} = {Cli!Facts(q) : q \in T}
  <2> HIDE DEF S, T
  <2>1. \A f \in S : Cli!Facts(f.row) \in {Cli!Facts(q) : q \in T}
    BY <1>4
  <2>2. \A q \in T : Cli!Facts(q) \in {Cli!Facts(f.row) : f \in S}
    BY <1>3
  <2> QED BY <2>1, <2>2
<1> HIDE DEF S
<1> QED BY <1>1, <1>2, <1>5 DEF e

-----------------------------------------------------------------------------
(* The candidates of a counter. *)
CliTokenCandidates ==
  LET A == CliActiveRows
      models == Cli!Scope(A, "model") IN
  {Cli!Candidate(Cli!Evidence(read), A, e, FALSE) : e \in models}
  \cup {Cli!Candidate(Cli!Evidence(read), A, e, TRUE) : e \in {f \in Cli!MetadataRows(A) : f.row.session \notin Cli!In(models)}}
CliAmountCandidates ==
  LET A == CliActiveRows IN
  {Cli!Candidate(Cli!Evidence(read), A, e, FALSE) : e \in Cli!AmountRows(A)}
  \cup {Cli!Candidate(Cli!Evidence(read), A, e, e.row.session \notin Cli!In(Cli!Scope(A, "session") \cup Cli!Scope(A, "model"))) :
          e \in {f \in Cli!MetadataRows(A) : f.row.session \notin Cli!In(Cli!AmountRows(A))}}
CliNode(e) == <<IF e.row.event = None THEN Cli!Facts(e.row) ELSE e.row.event, Cli!Signature(CliActiveRows, e)>>
CliIsCandidate(c) ==
  /\ c.e \in CliActiveRows /\ c.node = CliNode(c.e)
  /\ c.value = c.e.row.value
  /\ c.usable => ~c.e.row.invalid /\ ~Cli!Disputed(Cli!Evidence(read), CliActiveRows, c.e)
CliCandidates(C, scope) ==
  /\ IsFiniteSet(C)
  /\ \A c \in C : CliIsCandidate(c) /\ c.e.row.scope \in {scope, "metadata"}
  /\ \A c, d \in C : c.e.row.session = d.e.row.session => c.e.row.scope = d.e.row.scope

LEMMA CliIsCandidateOf ==
  ASSUME NEW e \in CliActiveRows, NEW allowed
  PROVE  /\ CliIsCandidate(Cli!Candidate(Cli!Evidence(read), CliActiveRows, e, allowed))
         /\ Cli!Candidate(Cli!Evidence(read), CliActiveRows, e, allowed).e = e
<1> DEFINE c == Cli!Candidate(Cli!Evidence(read), CliActiveRows, e, allowed)
           ok == ~e.row.invalid /\ ~Cli!Disputed(Cli!Evidence(read), CliActiveRows, e)
<1>1. c = [e |-> e, node |-> CliNode(e), value |-> e.row.value, usable |-> ok, unknown |-> allowed]
  BY Zenon DEF Cli!Candidate, CliNode
<1> HIDE DEF c
<1>2. c.e = e /\ c.node = CliNode(e) /\ c.value = e.row.value /\ c.usable = ok
  BY <1>1
<1> QED BY <1>2 DEF CliIsCandidate, c

LEMMA CliActiveFinite ==
  ASSUME Cli!CliConstants, CliInv
  PROVE  IsFiniteSet(CliActiveRows)
<1>1. IsFiniteSet(Cli!Evidence(read))
  BY CliFiniteEvidence DEF CliInv
<1>2. CliActiveRows \in SUBSET Cli!Evidence(read)
  BY CliActiveIs, CliEvidence DEF CliTells
<1> QED BY <1>1, <1>2, FS_Subset

LEMMA CliTokenCandidatesAre ==
  ASSUME Cli!CliConstants, CliInv
  PROVE  /\ CliCandidates(CliTokenCandidates, "model")
         /\ \A e \in CliActiveRows : e.row.scope = "model" => \E c \in CliTokenCandidates : c.e = e
<1> DEFINE A == CliActiveRows
           models == Cli!Scope(A, "model")
           Rest == {f \in Cli!MetadataRows(A) : f.row.session \notin Cli!In(models)}
           one == [e \in models |-> Cli!Candidate(Cli!Evidence(read), A, e, FALSE)]
           two == [e \in Rest |-> Cli!Candidate(Cli!Evidence(read), A, e, TRUE)]
           One == {one[e] : e \in models}
           Two == {two[e] : e \in Rest}
<1>1. CliTokenCandidates = One \cup Two
  <2>1. CliTokenCandidates = {Cli!Candidate(Cli!Evidence(read), A, e, FALSE) : e \in models} \cup {Cli!Candidate(Cli!Evidence(read), A, e, TRUE) : e \in Rest}
    BY Zenon DEF CliTokenCandidates
  <2>2. One = {Cli!Candidate(Cli!Evidence(read), A, e, FALSE) : e \in models} /\ Two = {Cli!Candidate(Cli!Evidence(read), A, e, TRUE) : e \in Rest}
    BY Zenon
  <2> QED BY <2>1, <2>2, Zenon
<1>2. /\ \A e \in models : e \in A /\ e.row.scope = "model"
      /\ \A e \in Rest : e \in A /\ e.row.scope = "metadata" /\ e.row.session \notin Cli!In(models)
  BY DEF Cli!Scope, Cli!MetadataRows
<1>3. \A e \in models : e.row.session \in Cli!In(models)
  BY DEF Cli!In
<1>4. /\ \A e \in models : CliIsCandidate(one[e]) /\ one[e].e = e
      /\ \A e \in Rest : CliIsCandidate(two[e]) /\ two[e].e = e
  <2>1. \A e \in models : CliIsCandidate(one[e]) /\ one[e].e = e
    BY <1>2, CliIsCandidateOf
  <2>2. \A e \in Rest : CliIsCandidate(two[e]) /\ two[e].e = e
    BY <1>2, CliIsCandidateOf
  <2> QED BY <2>1, <2>2
<1>5. IsFiniteSet(A) /\ models \in SUBSET A /\ Rest \in SUBSET A
  BY <1>2, CliActiveFinite
<1>6. \A e \in A : e.row.scope = "model" => e \in models
  BY DEF Cli!Scope
<1> HIDE DEF A, models, Rest, one, two
<1>70. IsFiniteSet(models) /\ IsFiniteSet(Rest)
  BY <1>5, FS_Subset
<1>7. IsFiniteSet(One) /\ IsFiniteSet(Two)
  BY <1>70, FiniteImage
<1>8. \A c \in One \cup Two :
        \/ CliIsCandidate(c) /\ c.e.row.scope = "model" /\ c.e.row.session \in Cli!In(models)
        \/ CliIsCandidate(c) /\ c.e.row.scope = "metadata" /\ c.e.row.session \notin Cli!In(models)
  BY <1>2, <1>3, <1>4
<1>9. \A e \in models : \E c \in One \cup Two : c.e = e
  BY <1>4
<1> HIDE DEF One, Two
<1>10. IsFiniteSet(One \cup Two)
  BY <1>7, FS_Union
<1>11. CliCandidates(CliTokenCandidates, "model")
  BY <1>1, <1>8, <1>10 DEF CliCandidates
<1> QED BY <1>1, <1>6, <1>9, <1>11 DEF A

LEMMA CliAmountCandidatesAre ==
  ASSUME Cli!CliConstants, CliInv
  PROVE  /\ CliCandidates(CliAmountCandidates, "session")
         /\ \A c \in CliAmountCandidates : c.e.row.scope = "session" => c.e.row.value # None \/ c.e.row.invalid
         /\ \A e \in CliActiveRows : e.row.scope = "session" /\ (e.row.value # None \/ e.row.invalid)
              => \E c \in CliAmountCandidates : c.e = e
<1> DEFINE A == CliActiveRows
           amountRows == Cli!AmountRows(A)
           Rest == {f \in Cli!MetadataRows(A) : f.row.session \notin Cli!In(amountRows)}
           one == [e \in amountRows |-> Cli!Candidate(Cli!Evidence(read), A, e, FALSE)]
           two == [e \in Rest |-> Cli!Candidate(Cli!Evidence(read), A, e, e.row.session \notin Cli!In(Cli!Scope(A, "session") \cup Cli!Scope(A, "model")))]
           One == {one[e] : e \in amountRows}
           Two == {two[e] : e \in Rest}
<1>1. CliAmountCandidates = One \cup Two
  <2>1. CliAmountCandidates = {Cli!Candidate(Cli!Evidence(read), A, e, FALSE) : e \in amountRows}
          \cup {Cli!Candidate(Cli!Evidence(read), A, e, e.row.session \notin Cli!In(Cli!Scope(A, "session") \cup Cli!Scope(A, "model"))) : e \in Rest}
    BY Zenon DEF CliAmountCandidates
  <2>2. /\ One = {Cli!Candidate(Cli!Evidence(read), A, e, FALSE) : e \in amountRows}
        /\ Two = {Cli!Candidate(Cli!Evidence(read), A, e, e.row.session \notin Cli!In(Cli!Scope(A, "session") \cup Cli!Scope(A, "model"))) : e \in Rest}
    BY Zenon
  <2> QED BY <2>1, <2>2, Zenon
<1>2. /\ \A e \in amountRows : e \in A /\ e.row.scope = "session" /\ (e.row.value # None \/ e.row.invalid)
      /\ \A e \in Rest : e \in A /\ e.row.scope = "metadata" /\ e.row.session \notin Cli!In(amountRows)
  BY DEF Cli!Scope, Cli!MetadataRows, Cli!AmountRows
<1>3. \A e \in amountRows : e.row.session \in Cli!In(amountRows)
  BY DEF Cli!In
<1>4. /\ \A e \in amountRows : CliIsCandidate(one[e]) /\ one[e].e = e
      /\ \A e \in Rest : CliIsCandidate(two[e]) /\ two[e].e = e
  <2>1. \A e \in amountRows : CliIsCandidate(one[e]) /\ one[e].e = e
    BY <1>2, CliIsCandidateOf
  <2>2. \A e \in Rest : CliIsCandidate(two[e]) /\ two[e].e = e
    <3> TAKE e \in Rest
    <3>0. e \in CliActiveRows
      BY <1>2
    <3> DEFINE allowed == e.row.session \notin Cli!In(Cli!Scope(A, "session") \cup Cli!Scope(A, "model"))
    <3>1. two[e] = Cli!Candidate(Cli!Evidence(read), CliActiveRows, e, allowed)
      BY Zenon
    <3> HIDE DEF two, allowed
    <3> QED BY <3>0, <3>1, CliIsCandidateOf
  <2> QED BY <2>1, <2>2
<1>5. IsFiniteSet(A) /\ amountRows \in SUBSET A /\ Rest \in SUBSET A
  BY <1>2, CliActiveFinite
<1>6. \A e \in A : e.row.scope = "session" /\ (e.row.value # None \/ e.row.invalid) => e \in amountRows
  BY DEF Cli!Scope, Cli!AmountRows
<1> HIDE DEF A, amountRows, Rest, one, two
<1>70. IsFiniteSet(amountRows) /\ IsFiniteSet(Rest)
  BY <1>5, FS_Subset
<1>7. IsFiniteSet(One) /\ IsFiniteSet(Two)
  BY <1>70, FiniteImage
<1>8. \A c \in One \cup Two :
        \/ /\ CliIsCandidate(c) /\ c.e.row.scope = "session" /\ c.e.row.session \in Cli!In(amountRows)
           /\ c.e.row.value # None \/ c.e.row.invalid
        \/ CliIsCandidate(c) /\ c.e.row.scope = "metadata" /\ c.e.row.session \notin Cli!In(amountRows)
  BY <1>2, <1>3, <1>4
<1>9. \A e \in amountRows : \E c \in One \cup Two : c.e = e
  BY <1>4
<1> HIDE DEF One, Two
<1>10. IsFiniteSet(One \cup Two)
  BY <1>7, FS_Union
<1>11. CliCandidates(CliAmountCandidates, "session")
  BY <1>1, <1>8, <1>10 DEF CliCandidates
<1>12. \A c \in CliAmountCandidates : c.e.row.scope = "session" => c.e.row.value # None \/ c.e.row.invalid
  BY <1>1, <1>8
<1> QED BY <1>1, <1>6, <1>9, <1>11, <1>12 DEF A

-----------------------------------------------------------------------------
(* What counts is the one last candidate of its counter. *)
CliOf(C, o) == {c \in C : c.e.row.session = o.session /\ c.e.row.model = o.model}
CliLast(G, o) == Cli!Proven(G) /\ \E c \in G : o = Cli!Facts(c.e.row) /\ Cli!Lasts(G) = {c.node}

LEMMA CliLatestIs ==
  ASSUME NEW G, IsFiniteSet(G), NEW p, p = Cli!Latest(G), p # None
  PROVE  CliLast(G, p)
<1>1. Cli!Proven(G) /\ p = Cli!Facts(Cli!At(G, CHOOSE n \in Cli!Lasts(G) : TRUE).e.row)
  BY Zenon DEF Cli!Latest
<1>2. Cardinality(Cli!Lasts(G)) = 1
  BY <1>1, CliLibrary DEF Cli!Proven
<1> DEFINE node == [c \in G |-> c.node]
<1>3. Cli!Lasts(G) \in SUBSET {node[c] : c \in G}
  BY DEF Cli!Lasts, Cli!Nodes
<1> HIDE DEF node
<1>4. IsFiniteSet(Cli!Lasts(G))
  <2>1. IsFiniteSet({node[c] : c \in G})
    BY FiniteImage
  <2> QED BY <1>3, <2>1, FS_Subset
<1>5. PICK n : Cli!Lasts(G) = {n}
  BY <1>2, <1>4, FS_Singleton
<1>6. (CHOOSE x \in Cli!Lasts(G) : TRUE) = n
  BY <1>5
<1>7. n \in Cli!Nodes(G)
  BY <1>5 DEF Cli!Lasts
<1>8. Cli!At(G, n) \in G /\ Cli!At(G, n).node = n
  BY <1>7, Zenon DEF Cli!At, Cli!Nodes
<1> QED BY <1>1, <1>5, <1>6, <1>8 DEF CliLast

(* The decisions on tokens, and those on amounts. *)
CliCounts(C, o) ==
  /\ CliLast(CliOf(C, o), o) /\ Cli!Present(Cli!Evidence(read), CliActiveRows, o) /\ ~Cli!BrokenControl(CliActiveRows, o.session)
LEMMA CliCountsIs ==
  ASSUME NEW C, IsFiniteSet(C), NEW d, d = Cli!Quarantined(Cli!Evidence(read), CliActiveRows, Cli!Decide(C)), NEW o \in DOMAIN d
  PROVE  /\ \E c \in C : o = Cli!Facts(c.e.row)
         /\ d[o] # None => /\ CliLast(CliOf(C, o), d[o]) /\ Cli!Present(Cli!Evidence(read), CliActiveRows, o)
                           /\ ~Cli!BrokenControl(CliActiveRows, o.session)
<1> DEFINE D == Cli!Decide(C)
<1>1. DOMAIN D = Cli!Rows(C) /\ \A p \in Cli!Rows(C) : D[p] = Cli!Latest({c \in C : c.e.row.session = p.session /\ c.e.row.model = p.model})
  BY Zenon DEF Cli!Decide
<1> HIDE DEF D
<1>2. /\ DOMAIN d = DOMAIN D
      /\ \A p \in DOMAIN D : d[p] = IF Cli!Present(Cli!Evidence(read), CliActiveRows, p) /\ ~Cli!BrokenControl(CliActiveRows, p.session) THEN D[p] ELSE None
  <2>1. d = [p \in DOMAIN D |-> IF Cli!Present(Cli!Evidence(read), CliActiveRows, p) /\ ~Cli!BrokenControl(CliActiveRows, p.session) THEN D[p] ELSE None]
    BY Zenon DEF Cli!Quarantined, D
  <2> QED BY <2>1
<1>3. o \in Cli!Rows(C) /\ D[o] = Cli!Latest(CliOf(C, o))
  BY <1>1, <1>2, Zenon DEF CliOf
<1>4. \E c \in C : o = Cli!Facts(c.e.row)
  BY <1>3, Zenon DEF Cli!Rows
<1>5. CliOf(C, o) \in SUBSET C
  BY DEF CliOf
<1>6. IsFiniteSet(CliOf(C, o))
  BY <1>5, FS_Subset
<1>7. ASSUME d[o] # None
      PROVE  /\ CliLast(CliOf(C, o), d[o]) /\ Cli!Present(Cli!Evidence(read), CliActiveRows, o)
             /\ ~Cli!BrokenControl(CliActiveRows, o.session)
  <2>1. Cli!Present(Cli!Evidence(read), CliActiveRows, o) /\ ~Cli!BrokenControl(CliActiveRows, o.session) /\ d[o] = D[o]
    BY <1>1, <1>2, <1>3, <1>7
  <2>2. CliLast(CliOf(C, o), d[o])
    BY <1>3, <1>6, <1>7, <2>1, CliLatestIs
  <2> QED BY <2>1, <2>2
<1> QED BY <1>4, <1>7

LEMMA CliDecisions ==
  ASSUME Cli!CliConstants, CliInv
  PROVE  /\ tokens = Cli!Quarantined(Cli!Evidence(read), CliActiveRows, Cli!Decide(CliTokenCandidates))
         /\ amounts = Cli!Quarantined(Cli!Evidence(read), CliActiveRows, Cli!Decide(CliAmountCandidates))
<1>1. tokens = Cli!AllTokens(read, Cli!Sessions(read)) /\ amounts = Cli!AllAmounts(read, Cli!Sessions(read))
  BY DEF CliInv, Cli!Incremental
<1>2. Cli!AllTokens(read, Cli!Sessions(read)) = Cli!Quarantined(Cli!Evidence(read), CliActiveRows, Cli!TokenDecisions(Cli!Evidence(read), CliActiveRows))
      /\ Cli!AllAmounts(read, Cli!Sessions(read)) = Cli!Quarantined(Cli!Evidence(read), CliActiveRows, Cli!AmountDecisions(Cli!Evidence(read), CliActiveRows))
  BY Zenon DEF Cli!AllTokens, Cli!AllAmounts, CliActiveRows
<1>3. /\ Cli!TokenDecisions(Cli!Evidence(read), CliActiveRows) = Cli!Decide(CliTokenCandidates)
      /\ Cli!AmountDecisions(Cli!Evidence(read), CliActiveRows) = Cli!Decide(CliAmountCandidates)
  BY Zenon DEF Cli!TokenDecisions, Cli!AmountDecisions, CliTokenCandidates, CliAmountCandidates
<1> QED BY <1>1, <1>2, <1>3, Zenon

LEMMA CliCounted ==
  ASSUME Cli!CliConstants, CliInv, NEW o \in Cli!Counted
  PROVE  \/ CliCounts(CliTokenCandidates, o) \/ CliCounts(CliAmountCandidates, o)
<1>1. CliCandidates(CliTokenCandidates, "model") /\ CliCandidates(CliAmountCandidates, "session")
  BY CliTokenCandidatesAre, CliAmountCandidatesAre
<1>2. ASSUME NEW C, NEW scope, CliCandidates(C, scope), NEW d,
             d = Cli!Quarantined(Cli!Evidence(read), CliActiveRows, Cli!Decide(C)), o \in DOMAIN d, d[o] = o
      PROVE  CliCounts(C, o)
  <2>1. IsFiniteSet(C)
    BY <1>2 DEF CliCandidates
  <2>2. PICK c \in C : o = Cli!Facts(c.e.row)
    BY <1>2, <2>1, CliCountsIs
  <2>3. c.e \in CliActiveRows
    BY <1>2 DEF CliCandidates, CliIsCandidate
  <2>4. PICK g : CliTells(g, c.e.row.session) /\ c.e \in Cli!Sourced(g)
    BY <2>3, CliActiveIs
  <2>5. g \in read /\ g \in CliReadings /\ g.file \in CliFiles
    BY <2>4, CliSourcedIs DEF CliTells, CliInv
  <2>6. c.e.row \in Cli!ReadRows(g.file)
    BY <2>4, <2>5, CliSourced
  <2>7. o # None
    BY <2>2, <2>5, <2>6 DEF Cli!CliConstants
  <2> QED BY <1>2, <2>1, <2>7, CliCountsIs DEF CliCounts
<1>3. tokens = Cli!Quarantined(Cli!Evidence(read), CliActiveRows, Cli!Decide(CliTokenCandidates))
      /\ amounts = Cli!Quarantined(Cli!Evidence(read), CliActiveRows, Cli!Decide(CliAmountCandidates))
  BY CliDecisions
<1>4. \/ o \in DOMAIN tokens /\ tokens[o] = o
      \/ o \in DOMAIN amounts /\ amounts[o] = o
  BY DEF Cli!Counted
<1> QED BY <1>1, <1>2, <1>3, <1>4

LEMMA CliFactsAre ==
  \A r : LET o == Cli!Facts(r) IN
    /\ o.session = r.session /\ o.scope = r.scope /\ o.event = r.event /\ o.model = r.model
    /\ o.value = r.value /\ o.models = r.models
BY DEF Cli!Facts

LEMMA CliPairs == \A a, b, c, d : <<a, b>> = <<c, d>> => a = c /\ b = d
OBVIOUS

LEMMA CliFrom ==
  ASSUME CliInv, NEW c, CliIsCandidate(c)
  PROVE  \E g : \E r \in Cli!ReadRows(g.file) :
           /\ CliTells(g, r.session) /\ g.file \in CliFiles
           /\ c.e = CliEntry(g, r) /\ c.e.row = r
<1>1. PICK g : CliTells(g, c.e.row.session) /\ c.e \in Cli!Sourced(g)
  BY CliActiveIs DEF CliIsCandidate
<1>2. g \in read
  BY <1>1 DEF CliTells
<1>3. PICK r \in Cli!ReadRows(g.file) : c.e = CliEntry(g, r)
  BY <1>1, <1>2, CliSourcedIs
<1>4. c.e.row = r
  BY <1>3 DEF CliEntry
<1> QED BY <1>1, <1>2, <1>3, <1>4, CliSourcedIs

LEMMA CliNodeFacts ==
  ASSUME Cli!CliConstants, CliInv, NEW c, CliIsCandidate(c), NEW d, CliIsCandidate(d), c.node = d.node,
         c.e.row.scope = d.e.row.scope, c.e.row.model = d.e.row.model
  PROVE  Cli!Facts(c.e.row) = Cli!Facts(d.e.row)
<1>1. PICK g : \E r \in Cli!ReadRows(g.file) : /\ CliTells(g, r.session) /\ g.file \in CliFiles
                                           /\ c.e = CliEntry(g, r) /\ c.e.row = r
  BY CliFrom
<1>2. PICK r \in Cli!ReadRows(g.file) : /\ CliTells(g, r.session) /\ g.file \in CliFiles
                                    /\ c.e = CliEntry(g, r) /\ c.e.row = r
  BY <1>1
<1>3. PICK h : \E q \in Cli!ReadRows(h.file) : /\ CliTells(h, q.session) /\ h.file \in CliFiles
                                           /\ d.e = CliEntry(h, q) /\ d.e.row = q
  BY CliFrom
<1>4. PICK q \in Cli!ReadRows(h.file) : /\ CliTells(h, q.session) /\ h.file \in CliFiles
                                    /\ d.e = CliEntry(h, q) /\ d.e.row = q
  BY <1>3
<1>5. Cli!Signature(CliActiveRows, c.e) = Cli!Signature(CliActiveRows, d.e)
  <2>1. CliNode(c.e) = CliNode(d.e)
    BY DEF CliIsCandidate
  <2> QED BY <2>1, CliPairs, Zenon DEF CliNode
<1>6. Cli!Signature(CliActiveRows, c.e) =
        IF r.event = None THEN {Cli!Facts(r)} ELSE {Cli!Facts(p) : p \in {p \in Cli!ReadRows(g.file) : p.event = r.event}}
  BY <1>2, CliSignatureIs
<1>7. Cli!Signature(CliActiveRows, d.e) =
        IF q.event = None THEN {Cli!Facts(q)} ELSE {Cli!Facts(p) : p \in {p \in Cli!ReadRows(h.file) : p.event = q.event}}
  BY <1>4, CliSignatureIs
<1>8. Cli!Facts(q) \in Cli!Signature(CliActiveRows, c.e)
  BY <1>5, <1>7
<1>9. CASE r.event = None
  BY <1>2, <1>4, <1>6, <1>8, <1>9
<1>10. CASE r.event # None
  <2>1. PICK p \in Cli!ReadRows(g.file) : p.event = r.event /\ Cli!Facts(p) = Cli!Facts(q)
    BY <1>6, <1>8, <1>10
  <2>2. p.scope = r.scope /\ p.model = r.model
    BY <1>2, <1>4, <2>1, CliFactsAre
  <2>3. p = r
    BY <1>2, <2>1, <2>2, CliOneRow
  <2> QED BY <1>2, <1>4, <2>1, <2>3
<1> QED BY <1>9, <1>10

(* The candidates of a counter that counts. *)
CliGroup(G, o) ==
  /\ \A c \in G : /\ CliIsCandidate(c) /\ c.usable /\ c.e.row.session = o.session
                  /\ c.e.row.model = o.model /\ c.e.row.scope = o.scope
  /\ \A c, d \in G : c.node = d.node => Cli!Facts(c.e.row) = Cli!Facts(d.e.row)
  /\ Cli!Proven(G) /\ \E c \in G : o = Cli!Facts(c.e.row) /\ Cli!Lasts(G) = {c.node}
LEMMA CliGroupIs ==
  ASSUME Cli!CliConstants, CliInv, NEW C, NEW scope, CliCandidates(C, scope), NEW o, CliLast(CliOf(C, o), o)
  PROVE  CliGroup(CliOf(C, o), o) /\ o.scope \in {scope, "metadata"}
<1> DEFINE G == CliOf(C, o)
<1>1. PICK c \in G : o = Cli!Facts(c.e.row) /\ Cli!Lasts(G) = {c.node}
  BY DEF CliLast
<1>2. Cli!Proven(G)
  BY DEF CliLast
<1>3. \A d \in G : d \in C /\ d.e.row.session = o.session /\ d.e.row.model = o.model
  BY DEF CliOf
<1> HIDE DEF G
<1>4. \A d \in G : CliIsCandidate(d) /\ d.e.row.scope = c.e.row.scope /\ d.e.row.scope \in {scope, "metadata"}
  BY <1>3 DEF CliCandidates
<1>5. o.scope = c.e.row.scope
  BY <1>1, CliFactsAre
<1>6. \A d \in G : d.usable
  BY <1>2 DEF Cli!Proven
<1>7. \A d, f \in G : d.node = f.node => Cli!Facts(d.e.row) = Cli!Facts(f.e.row)
  BY <1>3, <1>4, CliNodeFacts
<1> QED BY <1>1, <1>2, <1>3, <1>4, <1>5, <1>6, <1>7 DEF CliGroup, G

CliCountedIn(C, scope, o) ==
  /\ CliCandidates(C, scope) /\ CliCounts(C, o) /\ CliGroup(CliOf(C, o), o) /\ o.scope \in {scope, "metadata"}
  /\ \/ C = CliTokenCandidates /\ scope = "model"
     \/ C = CliAmountCandidates /\ scope = "session"
LEMMA CliCountedIs ==
  ASSUME Cli!CliConstants, CliInv, NEW o \in Cli!Counted
  PROVE  \E C, scope : CliCountedIn(C, scope, o)
<1>1. CliCandidates(CliTokenCandidates, "model") /\ CliCandidates(CliAmountCandidates, "session")
  BY CliTokenCandidatesAre, CliAmountCandidatesAre
<1>2. CASE CliCounts(CliTokenCandidates, o)
  <2>1. CliGroup(CliOf(CliTokenCandidates, o), o) /\ o.scope \in {"model", "metadata"}
    BY <1>1, <1>2, CliGroupIs DEF CliCounts
  <2> QED BY <1>1, <1>2, <2>1 DEF CliCountedIn
<1>3. CASE CliCounts(CliAmountCandidates, o)
  <2>1. CliGroup(CliOf(CliAmountCandidates, o), o) /\ o.scope \in {"session", "metadata"}
    BY <1>1, <1>3, CliGroupIs DEF CliCounts
  <2> QED BY <1>1, <1>3, <2>1 DEF CliCountedIn
<1> QED BY <1>2, <1>3, CliCounted

LEMMA CliFromTeller ==
  ASSUME CliInv, NEW G, NEW o, CliGroup(G, o), NEW c \in G
  PROVE  \E g \in Cli!Tellers(o.session) : \E r \in Cli!FileRows[g.file] :
           /\ CliTells(g, o.session) /\ r \in Cli!ReadRows(g.file) /\ c.e = CliEntry(g, r) /\ c.e.row = r
<1>1. CliIsCandidate(c) /\ c.e.row.session = o.session
  BY DEF CliGroup
<1>2. PICK g : \E r \in Cli!ReadRows(g.file) : /\ CliTells(g, r.session) /\ g.file \in CliFiles
                                           /\ c.e = CliEntry(g, r) /\ c.e.row = r
  BY <1>1, CliFrom
<1>3. g \in Cli!Tellers(o.session) /\ CliTells(g, o.session) /\ Cli!FileRows[g.file] = Cli!ReadRows(g.file)
  BY <1>1, <1>2, CliTellersAre, CliSourcedIs DEF CliTells
<1> QED BY <1>1, <1>2, <1>3

LEMMA CliOnlyThere == ASSUME Cli!CliConstants, CliInv PROVE Cli!OnlyWhatIsThere
<1> SUFFICES ASSUME NEW o \in Cli!Counted
             PROVE  \E g \in Cli!Tellers(o.session) : \E r \in Cli!FileRows[g.file] : Cli!Facts(r) = o
  BY DEF Cli!OnlyWhatIsThere
<1>1. PICK C, scope : CliCountedIn(C, scope, o)
  BY CliCountedIs
<1>2. CliGroup(CliOf(C, o), o)
  BY <1>1 DEF CliCountedIn
<1>3. PICK c \in CliOf(C, o) : o = Cli!Facts(c.e.row)
  BY <1>2 DEF CliGroup
<1> QED BY <1>2, <1>3, CliFromTeller

LEMMA CliNotDisputed == ASSUME Cli!CliConstants, CliInv PROVE Cli!Undisputed
<1> DEFINE Of(o, f) == {Cli!Facts(r) : r \in {q \in Cli!FileRows[f.file] : q.event = o.event}}
<1> SUFFICES ASSUME NEW o \in Cli!Counted, o.event # None
             PROVE  /\ \A e \in Cli!Evidence(read) : e.row.event = o.event => e.row.session = o.session
                    /\ \A g, h \in Cli!Tellers(o.session) : Of(o, g) # {} /\ Of(o, h) # {} => Of(o, g) = Of(o, h)
  BY Zenon DEF Cli!Undisputed
<1>1. PICK C, scope : CliCountedIn(C, scope, o)
  BY CliCountedIs
<1>2. CliGroup(CliOf(C, o), o)
  BY <1>1 DEF CliCountedIn
<1>3. PICK c \in CliOf(C, o) : o = Cli!Facts(c.e.row)
  BY <1>2 DEF CliGroup
<1>4. ~Cli!Disputed(Cli!Evidence(read), CliActiveRows, c.e) /\ c.e.row.session = o.session /\ c.e.row.event = o.event
  BY <1>2, <1>3, CliFactsAre DEF CliGroup, CliIsCandidate
<1>5. /\ \A e \in Cli!Evidence(read) : e.row.event = o.event => e.row.session = o.session
      /\ \A f \in CliActiveRows : f.row.session = o.session /\ f.row.event = o.event
           => Cli!Signature(CliActiveRows, f) = Cli!Signature(CliActiveRows, c.e)
  BY <1>4 DEF Cli!Disputed
<1>6. ASSUME NEW g \in Cli!Tellers(o.session), Of(o, g) # {}
      PROVE  Of(o, g) = Cli!Signature(CliActiveRows, c.e)
  <2>1. CliTells(g, o.session)
    BY CliTellersAre
  <2>2. Cli!FileRows[g.file] = Cli!ReadRows(g.file)
    BY <2>1, CliSourcedIs DEF CliTells
  <2>3. PICK r \in Cli!ReadRows(g.file) : r.event = o.event
    BY <1>6, <2>2
  <2>4. CliEntry(g, r) \in CliActiveRows /\ CliEntry(g, r).row = r /\ r.session = o.session
    BY <2>1, CliTold
  <2>5. Cli!Signature(CliActiveRows, CliEntry(g, r)) = Cli!Signature(CliActiveRows, c.e)
    BY <1>5, <2>3, <2>4
  <2>6. Cli!Signature(CliActiveRows, CliEntry(g, r)) = {Cli!Facts(q) : q \in {p \in Cli!ReadRows(g.file) : p.event = r.event}}
    BY <2>1, <2>3, CliSignatureIs
  <2> QED BY <2>2, <2>3, <2>5, <2>6
<1> QED BY <1>5, <1>6

(* Whatever a file tells of a counter is a candidate. *)
LEMMA CliToldIsCandidate ==
  ASSUME Cli!CliConstants, CliInv, NEW C, NEW scope, NEW o, CliCountedIn(C, scope, o), o.scope # "metadata",
         NEW g \in Cli!Tellers(o.session), NEW r \in Cli!Told(g, o)
  PROVE  \E c \in CliOf(C, o) : c.e = CliEntry(g, r) /\ c.e.row = r
<1>1. CliTells(g, o.session)
  BY CliTellersAre
<1>2. Cli!FileRows[g.file] = Cli!ReadRows(g.file)
  BY <1>1, CliSourcedIs DEF CliTells
<1>3. r \in Cli!ReadRows(g.file) /\ r.scope = o.scope /\ r.model = o.model
      /\ (o.scope = "session" => r.value # None \/ r.invalid)
  BY <1>2 DEF Cli!Told
<1> DEFINE e == CliEntry(g, r)
<1>4. e \in CliActiveRows /\ e.row = r /\ r.session = o.session
  BY <1>1, <1>3, CliTold
<1> HIDE DEF e
<1>5. \E c \in C : c.e = e
  BY <1>3, <1>4, CliTokenCandidatesAre, CliAmountCandidatesAre DEF CliCountedIn
<1> QED BY <1>3, <1>4, <1>5 DEF CliOf, e

-----------------------------------------------------------------------------
(* Where no circle is, something in every set is followed by nothing in it. *)
CliGoesOn(G, S) == \A n \in S : \E m \in S : Cli!Edge(G, n, m)
LEMMA CliSink ==
  ASSUME NEW G, IsFiniteSet(G), Cli!Acyclic(G), NEW S \in SUBSET Cli!Nodes(G), CliGoesOn(G, S)
  PROVE  S = {}
<1> DEFINE node == [c \in G |-> c.node]
           Bad(n) == \E R \in SUBSET Cli!Nodes(G) : R # {} /\ CliGoesOn(G, R) /\ Cardinality(R) = n
           T == {n \in Nat : Bad(n)}
<1>1. IsFiniteSet(Cli!Nodes(G))
  <2>1. Cli!Nodes(G) = {node[c] : c \in G}
    BY Zenon DEF Cli!Nodes
  <2> HIDE DEF node
  <2> QED BY <2>1, FiniteImage
<1>2. \A R \in SUBSET Cli!Nodes(G) : IsFiniteSet(R) /\ Cardinality(R) \in Nat
  BY <1>1, FS_Subset, FS_CardinalityType
<1>3. ASSUME NEW R \in SUBSET Cli!Nodes(G), R # {}, CliGoesOn(G, R)
      PROVE  \E Q \in SUBSET Cli!Nodes(G) : Q # {} /\ CliGoesOn(G, Q) /\ Cardinality(Q) < Cardinality(R)
  <2>1. PICK n \in R : \A m \in R : ~Cli!Edge(G, m, n)
    BY <1>3 DEF Cli!Acyclic
  <2>2. PICK k \in R : Cli!Edge(G, n, k)
    BY <1>3 DEF CliGoesOn
  <2>3. k # n
    BY <2>2, Zenon DEF Cli!Edge
  <2>4. CliGoesOn(G, R \ {n})
    BY <1>3, <2>1 DEF CliGoesOn
  <2>5. Cardinality(R \ {n}) = Cardinality(R) - 1
    BY <1>2, FS_RemoveElement
  <2>6. Cardinality(R) \in Nat
    BY <1>2
  <2> QED BY <2>2, <2>3, <2>4, <2>5, <2>6
<1>4. ASSUME S # {} PROVE FALSE
  <2>1. Bad(Cardinality(S)) /\ Cardinality(S) \in Nat
    BY <1>2, <1>4
  <2>2. T # {} /\ T \subseteq Nat
    BY <2>1
  <2>3. PICK n \in T : \A m \in T : n <= m
    BY <2>2, LeastNumber
  <2>4. PICK R \in SUBSET Cli!Nodes(G) : R # {} /\ CliGoesOn(G, R) /\ Cardinality(R) = n
    BY <2>3
  <2>5. PICK Q \in SUBSET Cli!Nodes(G) : Q # {} /\ CliGoesOn(G, Q) /\ Cardinality(Q) < Cardinality(R)
    BY <1>3, <2>4
  <2>6. Cardinality(Q) \in T
    BY <1>2, <2>5
  <2>7. Cardinality(Q) \in Nat /\ n \in Nat
    BY <1>2, <2>3
  <2> HIDE DEF T
  <2> QED BY <2>3, <2>4, <2>5, <2>6, <2>7
<1> QED BY <1>4

(* The last of the counters that only grow is the largest. *)
LEMMA CliLastIsLargest ==
  ASSUME NEW G, IsFiniteSet(G), Cli!Proven(G), None \notin Nat, \A c \in G : c.value \in Nat,
         \A c, d \in G : c.node = d.node => c.value = d.value,
         NEW d \in G, Cli!Lasts(G) = {d.node}, NEW c \in G
  PROVE  c.value <= d.value
<1> DEFINE S == {n \in Cli!Nodes(G) : Cli!At(G, n).value > d.value}
<1>1. \A n \in Cli!Nodes(G) : Cli!At(G, n) \in G /\ Cli!At(G, n).node = n
  BY Zenon DEF Cli!At, Cli!Nodes
<1>2. ASSUME NEW n \in S PROVE \E m \in S : Cli!Edge(G, n, m)
  <2>1. n # d.node
    <3>1. n = d.node => Cli!At(G, n).value = d.value
      BY <1>1
    <3>2. d.value \in Nat
      OBVIOUS
    <3> QED BY <3>1, <3>2
  <2>2. n \notin Cli!Lasts(G)
    BY <2>1
  <2>3. PICK m \in Cli!Nodes(G) : Cli!Edge(G, n, m)
    BY <2>2, Zenon DEF Cli!Lasts
  <2>4. Cli!At(G, n).value \in Nat /\ Cli!At(G, m).value \in Nat /\ d.value \in Nat
    BY <1>1
  <2>5. Cli!At(G, n).value <= Cli!At(G, m).value
    BY <2>3, <2>4 DEF Cli!Proven, Cli!Monotone
  <2> QED BY <2>3, <2>4, <2>5
<1>3. S = {}
  <2>1. CliGoesOn(G, S)
    BY <1>2 DEF CliGoesOn
  <2>2. Cli!Acyclic(G) /\ S \in SUBSET Cli!Nodes(G)
    BY DEF Cli!Proven
  <2> HIDE DEF S
  <2> QED BY <2>1, <2>2, CliSink
<1>4. c.node \in Cli!Nodes(G)
  BY DEF Cli!Nodes
<1>5. Cli!At(G, c.node).value = c.value
  BY <1>1, <1>4
<1>6. ~(c.value > d.value)
  BY <1>3, <1>4, <1>5
<1> QED BY <1>6

LEMMA CliGroupValues ==
  ASSUME Cli!CliConstants, CliInv, NEW C, NEW scope, NEW o, CliCountedIn(C, scope, o), o.scope # "metadata",
         NEW c \in CliOf(C, o)
  PROVE  c.value \in Nat /\ c.value = c.e.row.value
<1>1. /\ CliIsCandidate(c) /\ c.usable /\ c.e.row.scope = o.scope /\ c \in C
      /\ o.scope = scope
  BY DEF CliCountedIn, CliGroup, CliOf
<1>2. PICK g : \E r \in Cli!ReadRows(g.file) : /\ CliTells(g, r.session) /\ g.file \in CliFiles
                                           /\ c.e = CliEntry(g, r) /\ c.e.row = r
  BY <1>1, CliFrom
<1>3. c.e.row.value \in Nat \cup {None} /\ (c.e.row.scope = "model" => (c.e.row.value = None => c.e.row.invalid))
  BY <1>2, CliRowValues
<1>4. ~c.e.row.invalid /\ c.value = c.e.row.value
  BY <1>1 DEF CliIsCandidate
<1>5. c.e.row.scope = "session" => c.e.row.value # None \/ c.e.row.invalid
  BY <1>1, CliAmountCandidatesAre DEF CliCountedIn
<1> QED BY <1>1, <1>3, <1>4, <1>5 DEF CliCountedIn

LEMMA CliLargest == ASSUME Cli!CliConstants, CliInv PROVE Cli!LargestCounts
<1> SUFFICES ASSUME NEW o \in Cli!Counted, o.value # None, NEW g \in Cli!Tellers(o.session), NEW r \in Cli!Told(g, o)
             PROVE  r.value # None /\ r.value <= o.value
  BY DEF Cli!LargestCounts
<1>1. PICK C, scope : CliCountedIn(C, scope, o)
  BY CliCountedIs
<1> DEFINE G == CliOf(C, o)
<1>2. CliGroup(G, o) /\ IsFiniteSet(C)
  BY <1>1 DEF CliCountedIn, CliCandidates
<1>3. G \in SUBSET C
  BY DEF CliOf
<1>4. IsFiniteSet(G)
  BY <1>2, <1>3, FS_Subset
<1>5. PICK c \in G : o = Cli!Facts(c.e.row) /\ Cli!Lasts(G) = {c.node}
  BY <1>2 DEF CliGroup
<1>6. o.value = c.e.row.value /\ o.scope = c.e.row.scope
  BY <1>5, CliFactsAre
<1>7. o.scope # "metadata"
  <2>1. CliIsCandidate(c)
    BY <1>2 DEF CliGroup
  <2>2. PICK h : \E q \in Cli!ReadRows(h.file) : /\ CliTells(h, q.session) /\ h.file \in CliFiles
                                             /\ c.e = CliEntry(h, q) /\ c.e.row = q
    BY <2>1, CliFrom
  <2> QED BY <1>6, <2>2, CliRowValues
<1>8. PICK d \in G : d.e.row = r
  BY <1>1, <1>7, CliToldIsCandidate
<1>9. \A x \in G : x.value \in Nat /\ x.value = x.e.row.value
  BY <1>1, <1>7, CliGroupValues
<1>10. \A x, y \in G : x.node = y.node => x.value = y.value
  BY <1>2, <1>9, CliFactsAre DEF CliGroup
<1>11. Cli!Proven(G) /\ None \notin Nat
  BY <1>2 DEF CliGroup, Cli!CliConstants
<1> HIDE DEF G
<1>12. d.value <= c.value
  BY <1>4, <1>5, <1>9, <1>10, <1>11, CliLastIsLargest
<1> QED BY <1>5, <1>6, <1>8, <1>9, <1>11, <1>12

(* What a file tells last is what counts, or another file tells it earlier. *)
LEMMA CliNoneRival == ASSUME Cli!CliConstants, CliInv PROVE Cli!NoRivals
<1> SUFFICES ASSUME NEW o \in Cli!Counted, o.scope # "metadata", NEW g \in Cli!Tellers(o.session), NEW r \in Cli!LastTold(g, o),
                    Cli!Facts(r) # o
             PROVE  \E h \in Cli!Tellers(o.session) : \E q, p \in Cli!Told(h, o) : Cli!Facts(q) = Cli!Facts(r) /\ q.line < p.line
  BY DEF Cli!NoRivals
<1>1. PICK C, scope : CliCountedIn(C, scope, o)
  BY CliCountedIs
<1> DEFINE G == CliOf(C, o)
<1>2. CliGroup(G, o)
  BY <1>1 DEF CliCountedIn
<1>3. r \in Cli!Told(g, o)
  BY DEF Cli!LastTold
<1>4. PICK d \in G : d.e.row = r
  BY <1>1, <1>3, CliToldIsCandidate
<1>5. PICK c \in G : o = Cli!Facts(c.e.row) /\ Cli!Lasts(G) = {c.node}
  BY <1>2 DEF CliGroup
<1>6. d.node # c.node
  BY <1>2, <1>4, <1>5 DEF CliGroup
<1>7. d.node \in Cli!Nodes(G) /\ d.node \notin Cli!Lasts(G)
  BY <1>5, <1>6 DEF Cli!Nodes
<1>8. PICK m \in Cli!Nodes(G) : Cli!Edge(G, d.node, m)
  BY <1>7, Zenon DEF Cli!Lasts
<1>9. PICK a \in G, b \in G : a.node = d.node /\ a.e.source = b.e.source /\ a.e.row.line < b.e.row.line
  BY <1>8, Zenon DEF Cli!Edge
<1>10. Cli!Facts(a.e.row) = Cli!Facts(r)
  BY <1>2, <1>4, <1>9 DEF CliGroup
<1>11. PICK h \in Cli!Tellers(o.session) : \E q \in Cli!FileRows[h.file] :
         /\ CliTells(h, o.session) /\ q \in Cli!ReadRows(h.file) /\ a.e = CliEntry(h, q) /\ a.e.row = q
  BY <1>2, CliFromTeller
<1>12. PICK k \in Cli!Tellers(o.session) : \E p \in Cli!FileRows[k.file] :
         /\ CliTells(k, o.session) /\ p \in Cli!ReadRows(k.file) /\ b.e = CliEntry(k, p) /\ b.e.row = p
  BY <1>2, CliFromTeller
<1>13. h \in CliReadings /\ k \in CliReadings /\ h \in read /\ k \in read
  BY <1>11, <1>12 DEF CliTells, CliInv
<1>14. h = k
  <2>1. a.e.source = <<h.file.locator, h.number>> /\ b.e.source = <<k.file.locator, k.number>>
    BY <1>11, <1>12, CliTold
  <2>2. <<h.file.locator, h.number>> = <<k.file.locator, k.number>>
    BY <1>9, <2>1
  <2>3. h.file.locator = k.file.locator /\ h.number = k.number
    BY <2>2, CliPairs, Zenon
  <2> QED BY <1>13, <2>3 DEF CliInv, CliNumbered
<1>15. ASSUME NEW x \in G, x.e.row \in Cli!FileRows[h.file] PROVE x.e.row \in Cli!Told(h, o)
  <2>1. x.e.row.scope = o.scope /\ x.e.row.model = o.model
    BY <1>2 DEF CliGroup
  <2>2. x.value \in Nat /\ x.value = x.e.row.value
    BY <1>1, CliGroupValues
  <2>3. x.e.row.value # None
    BY <2>2 DEF Cli!CliConstants
  <2> QED BY <1>15, <2>1, <2>3 DEF Cli!Told
<1>16. a.e.row \in Cli!Told(h, o) /\ b.e.row \in Cli!Told(h, o)
  BY <1>11, <1>12, <1>14, <1>15
<1> QED BY <1>9, <1>10, <1>16

-----------------------------------------------------------------------------
(* A shutdown that names models has a row of each. *)
LEMMA CliShutdowns ==
  ASSUME Cli!CliConstants, NEW f \in CliFiles, NEW r \in Cli!ReadRows(f), r.models # None
  PROVE  /\ r.scope = "session" /\ r.event # None
         /\ \A m \in r.models : \E x \in Cli!ReadRows(f) : x.scope = "model" /\ x.event = r.event /\ x.line = r.line /\ x.model = m
         /\ \A q \in Cli!ReadRows(f) : q.models # None /\ q.line = r.line => q = r
<1>1. ASSUME NEW q \in Cli!ReadRows(f), q.models # None
      PROVE  \E i \in CliControls(f) : q = Cli!SessionRow(f, i)
  BY <1>1, CliKinds, CliMetadataIs, CliModelIs DEF CliKind
<1>2. PICK i \in CliControls(f) : r = Cli!SessionRow(f, i)
  BY <1>1
<1>3. r.scope = "session" /\ r.event # None
  BY <1>2, CliSessionIs, CliControlsApart
<1>4. ASSUME NEW m \in r.models
      PROVE  \E x \in Cli!ReadRows(f) : x.scope = "model" /\ x.event = r.event /\ x.line = r.line /\ x.model = m
  <2>1. i \in CliValid(f) /\ r.models = DOMAIN f.events[i].usage
    BY <1>2, CliSessionIs DEF CliValid
  <2> DEFINE x == Cli!ModelRow(f, i, m)
             models(k) == {Cli!ModelRow(f, k, n) : n \in DOMAIN f.events[k].usage}
  <2>2. x \in models(i)
    BY <2>1
  <2>3. Cli!Accepted(f) /\ ~f.workspace
    <3>1. Cli!Accepted(f)
      BY DEF Cli!ReadRows
    <3>2. f.workspace => r = Cli!Metadata(f, 1)
      BY <3>1 DEF Cli!ReadRows
    <3> QED BY <1>3, <3>1, <3>2, CliMetadataIs
  <2>4. Cli!ReadRows(f) = {Cli!Metadata(f, s) : s \in Cli!Starts(f)} \cup {Cli!SessionRow(f, k) : k \in CliControls(f)}
                      \cup UNION {models(k) : k \in CliValid(f)}
    BY <2>3, CliRowsAre, Zenon
  <2>5. x \in Cli!ReadRows(f)
    <3> HIDE DEF x, models
    <3> QED BY <2>1, <2>2, <2>4, Zenon
  <2>6. x.scope = "model" /\ x.event = r.event /\ x.line = r.line /\ x.model = m
    BY <1>2, CliSessionIs, CliModelIs
  <2> HIDE DEF x
  <2> QED BY <2>5, <2>6
<1>5. ASSUME NEW q \in Cli!ReadRows(f), q.models # None, q.line = r.line PROVE q = r
  <2>1. PICK j \in CliControls(f) : q = Cli!SessionRow(f, j)
    BY <1>1, <1>5
  <2>2. i = j
    BY <1>2, <1>5, <2>1, CliSessionIs
  <2> QED BY <1>2, <2>1, <2>2
<1> QED BY <1>3, <1>4, <1>5

(* The shutdowns of a session that name models. *)
CliPresence(s) == Cli!Presence(Cli!Evidence(read), CliActiveRows, s)
LEMMA CliPresenceIs ==
  ASSUME Cli!CliConstants, CliInv, NEW s
  PROVE  /\ IsFiniteSet(CliPresence(s))
         /\ \A p \in CliPresence(s) : /\ p.e \in CliActiveRows /\ p.node = CliNode(p.e)
                                      /\ p.e.row.session = s /\ p.e.row.models # None
         /\ \A e \in CliActiveRows : e.row.session = s /\ e.row.scope = "session" /\ e.row.models # None
              => \E p \in CliPresence(s) : p.e = e
<1> DEFINE of(e) == Cli!Candidate(Cli!Evidence(read), CliActiveRows, e, FALSE)
           at(e) == [of(e) EXCEPT !.value = 0, !.usable = ~Cli!Disputed(Cli!Evidence(read), CliActiveRows, e)]
           S == {f \in Cli!Scope(CliActiveRows, "session") : f.row.session = s /\ f.row.models # None}
           one == [e \in S |-> at(e)]
<1>1. CliPresence(s) = {one[e] : e \in S}
  BY Zenon DEF CliPresence, Cli!Presence
<1>2. \A e \in S : e \in CliActiveRows /\ e.row.session = s /\ e.row.models # None
  BY DEF Cli!Scope
<1>3. \A e \in CliActiveRows : e.row.session = s /\ e.row.scope = "session" /\ e.row.models # None => e \in S
  BY DEF Cli!Scope
<1>4. ASSUME NEW e \in S PROVE one[e].e = e /\ one[e].node = CliNode(e)
  <2> DEFINE ok == ~e.row.invalid /\ ~Cli!Disputed(Cli!Evidence(read), CliActiveRows, e)
             bad == ~Cli!Disputed(Cli!Evidence(read), CliActiveRows, e)
             no == FALSE
  <2>1. of(e) = [e |-> e, node |-> CliNode(e), value |-> e.row.value, usable |-> ok, unknown |-> no]
    BY Zenon DEF Cli!Candidate, CliNode
  <2>2. at(e) = [of(e) EXCEPT !.value = 0, !.usable = bad]
    BY Zenon
  <2> HIDE DEF of, ok, bad, no
  <2>3. at(e).e = of(e).e /\ at(e).node = of(e).node
    BY <2>1, <2>2
  <2>4. of(e).e = e /\ of(e).node = CliNode(e)
    BY <2>1
  <2>5. one[e] = at(e)
    BY Zenon
  <2> HIDE DEF at, one
  <2> QED BY <2>3, <2>4, <2>5
<1>5. IsFiniteSet(S)
  <2>1. S \in SUBSET CliActiveRows
    BY <1>2
  <2> QED BY <2>1, CliActiveFinite, FS_Subset
<1> HIDE DEF S, one
<1>6. IsFiniteSet(CliPresence(s))
  BY <1>1, <1>5, FiniteImage
<1> QED BY <1>1, <1>2, <1>3, <1>4, <1>6

(* The rows of one event in one file have one node. *)
LEMMA CliSameNode ==
  ASSUME NEW e, NEW f, e.source = f.source, e.row.event = f.row.event, e.row.event # None
  PROVE  CliNode(e) = CliNode(f)
<1>1. Cli!Signature(CliActiveRows, e) = Cli!Signature(CliActiveRows, f)
  BY DEF Cli!Signature
<1> QED BY <1>1 DEF CliNode

LEMMA CliNodeEvent ==
  ASSUME NEW e, e.row.event # None
  PROVE  CliNode(e)[1] = e.row.event
BY DEF CliNode

(* A model's counters stand where its shutdowns do: what follows among them
   follows among the shutdowns. *)
LEMMA CliModelEdge ==
  ASSUME Cli!CliConstants, CliInv, NEW G, NEW o, CliGroup(G, o), o.scope = "model", NEW n, NEW m, Cli!Edge(G, n, m)
  PROVE  Cli!Edge(CliPresence(o.session), n, m) /\ m \in Cli!Nodes(CliPresence(o.session))
<1> DEFINE P == CliPresence(o.session)
<1>1. n # m /\ \E a, b \in G : a.node = n /\ b.node = m /\ a.e.source = b.e.source /\ a.e.row.line < b.e.row.line
  BY Zenon DEF Cli!Edge
<1>2. PICK a \in G, b \in G : a.node = n /\ b.node = m /\ a.e.source = b.e.source /\ a.e.row.line < b.e.row.line
  BY <1>1
<1>3. ASSUME NEW c \in G
      PROVE  \E p \in P : p.node = c.node /\ p.e.source = c.e.source /\ p.e.row.line = c.e.row.line
  <2>1. CliIsCandidate(c) /\ c.e.row.scope = "model"
    BY DEF CliGroup
  <2>2. PICK g \in Cli!Tellers(o.session) : \E r \in Cli!FileRows[g.file] :
          /\ CliTells(g, o.session) /\ r \in Cli!ReadRows(g.file) /\ c.e = CliEntry(g, r) /\ c.e.row = r
    BY CliFromTeller
  <2>3. PICK r \in Cli!ReadRows(g.file) : CliTells(g, o.session) /\ c.e = CliEntry(g, r) /\ c.e.row = r
    BY <2>2
  <2>4. g.file \in CliFiles
    BY <2>3, CliSourcedIs DEF CliTells
  <2>5. r.event # None /\ \E z \in Cli!ReadRows(g.file) : /\ z.scope = "session" /\ z.event = r.event /\ z.line = r.line
                                                      /\ z.models # None
    BY <2>1, <2>3, <2>4, CliRowValues
  <2>6. PICK z \in Cli!ReadRows(g.file) : z.scope = "session" /\ z.event = r.event /\ z.line = r.line /\ z.models # None
    BY <2>5
  <2>7. CliEntry(g, z) \in CliActiveRows /\ CliEntry(g, z).row = z /\ z.session = o.session
        /\ CliEntry(g, z).source = <<g.file.locator, g.number>>
    BY <2>3, CliTold
  <2>8. c.e.source = <<g.file.locator, g.number>>
    BY <2>3, CliTold
  <2>9. PICK p \in P : p.e = CliEntry(g, z)
    BY <2>6, <2>7, CliPresenceIs
  <2>10. CliNode(p.e) = CliNode(c.e)
    BY <2>3, <2>5, <2>6, <2>7, <2>8, <2>9, CliSameNode
  <2>11. p.node = c.node
    BY <2>1, <2>10, CliPresenceIs DEF CliIsCandidate
  <2> QED BY <2>3, <2>6, <2>7, <2>8, <2>9, <2>11
<1>4. PICK p \in P : p.node = n /\ p.e.source = a.e.source /\ p.e.row.line = a.e.row.line
  BY <1>2, <1>3
<1>5. PICK q \in P : q.node = m /\ q.e.source = b.e.source /\ q.e.row.line = b.e.row.line
  BY <1>2, <1>3
<1>6. p.e.source = q.e.source /\ p.e.row.line < q.e.row.line
  BY <1>2, <1>4, <1>5
<1> HIDE DEF P
<1>7. m \in Cli!Nodes(P)
  BY <1>5, Zenon DEF Cli!Nodes
<1>8. Cli!Edge(P, n, m)
  BY <1>1, <1>4, <1>5, <1>6, Zenon DEF Cli!Edge
<1> QED BY <1>7, <1>8 DEF P

LEMMA CliForgotten == ASSUME Cli!CliConstants, CliInv PROVE Cli!ForgottenModels
<1> SUFFICES ASSUME NEW o \in Cli!Counted, NEW g \in Cli!Tellers(o.session), o.model # None, NEW r \in Cli!Told(g, o), o = Cli!Facts(r),
                    NEW z \in Cli!FileRows[g.file], z.models # None,
                    \A y \in Cli!FileRows[g.file] : y.models # None => y.line <= z.line
             PROVE  o.model \in z.models
  BY DEF Cli!ForgottenModels
<1>1. PICK C, scope : CliCountedIn(C, scope, o)
  BY CliCountedIs
<1> DEFINE G == CliOf(C, o)
           P == CliPresence(o.session)
<1>2. CliGroup(G, o) /\ Cli!Present(Cli!Evidence(read), CliActiveRows, o)
  BY <1>1 DEF CliCountedIn, CliCounts
<1>3. CliTells(g, o.session) /\ Cli!FileRows[g.file] = Cli!ReadRows(g.file) /\ g.file \in CliFiles
  BY CliTellersAre, CliSourcedIs DEF CliTells
<1>4. r \in Cli!ReadRows(g.file) /\ r.scope = o.scope /\ r.model = o.model /\ r.event = o.event
  BY <1>3, CliFactsAre DEF Cli!Told
<1>5. o.scope = "model"
  BY <1>3, <1>4, CliRowValues
<1>6. PICK c \in G : o = Cli!Facts(c.e.row) /\ Cli!Lasts(G) = {c.node}
  BY <1>2 DEF CliGroup
<1>7. PICK d \in G : d.e = CliEntry(g, r) /\ d.e.row = r
  BY <1>1, <1>5, CliToldIsCandidate
<1>80. r.event # None /\ \E w \in Cli!ReadRows(g.file) : /\ w.scope = "session" /\ w.event = r.event /\ w.line = r.line
                                                    /\ w.models # None /\ r.model \in w.models
  BY <1>3, <1>4, <1>5, CliRowValues
<1>8. PICK w \in Cli!ReadRows(g.file) : /\ w.scope = "session" /\ w.event = r.event /\ w.line = r.line
                                    /\ w.models # None /\ r.model \in w.models
  BY <1>80
(* The row that counts and the file's own row of it have one node. *)
<1>9. d.node = c.node
  <2>1. d.node \in Cli!Nodes(G) /\ c.node \in Cli!Nodes(G)
    BY DEF Cli!Nodes
  <2>2. Cli!At(G, d.node) \in G /\ Cli!At(G, d.node).node = d.node
    BY <2>1, Zenon DEF Cli!At, Cli!Nodes
  <2>3. CliIsCandidate(c) /\ CliIsCandidate(d) /\ CliIsCandidate(Cli!At(G, d.node))
    BY <1>2, <2>2 DEF CliGroup
  <2>4. Cli!Facts(Cli!At(G, d.node).e.row) = Cli!Facts(r)
    BY <1>2, <1>7, <2>2 DEF CliGroup
  <2>5. Cli!At(G, d.node).e.row.event = r.event /\ c.e.row.event = r.event /\ d.e.row.event = r.event
    <3>1. \A a, b : Cli!Facts(a) = Cli!Facts(b) => a.event = b.event
      BY CliFactsAre
    <3>2. Cli!Facts(c.e.row) = Cli!Facts(r)
      BY <1>6
    <3> QED BY <1>7, <2>4, <3>1, <3>2, Zenon
  <2>6. d.node = CliNode(d.e) /\ c.node = CliNode(c.e)
    BY <2>3 DEF CliIsCandidate
  <2>7. d.node[1] = c.node[1]
    BY <1>80, <2>5, <2>6, CliNodeEvent
  <2>8. Cli!OneSignature(G)
    BY <1>2 DEF CliGroup, Cli!Proven
  <2> HIDE DEF G
  <2>9. Cli!At(G, d.node).e.row.event # None
    BY <1>80, <2>5
  <2> QED BY <2>1, <2>7, <2>8, <2>9, Zenon DEF Cli!OneSignature
(* The last of all shutdowns reports the model. *)
<1>10. IsFiniteSet(P) /\ \A p \in P : p.e \in CliActiveRows /\ p.node = CliNode(p.e)
                                      /\ p.e.row.session = o.session /\ p.e.row.models # None
  BY CliPresenceIs
<1>11. \A y \in Cli!ReadRows(g.file) : y.models # None =>
         \E p \in P : p.e = CliEntry(g, y) /\ p.e.row = y /\ p.e.source = <<g.file.locator, g.number>>
  <2> TAKE y \in Cli!ReadRows(g.file)
  <2> HAVE y.models # None
  <2>1. CliEntry(g, y) \in CliActiveRows /\ CliEntry(g, y).row = y /\ y.session = o.session
        /\ CliEntry(g, y).source = <<g.file.locator, g.number>>
    BY <1>3, CliTold
  <2>2. y.scope = "session"
    BY <1>3, CliShutdowns
  <2> QED BY <2>1, <2>2, CliPresenceIs
<1>12. PICK v \in P : v.e = CliEntry(g, w) /\ v.e.row = w /\ v.e.source = <<g.file.locator, g.number>>
  BY <1>8, <1>11
<1>13. Cli!Latest(P) # None /\ o.model \in Cli!Latest(P).models
  BY <1>2, <1>12, Zenon DEF Cli!Present, CliPresence
<1>14. CliLast(P, Cli!Latest(P))
  BY <1>10, <1>13, CliLatestIs
<1>15. PICK p \in P : Cli!Latest(P) = Cli!Facts(p.e.row) /\ Cli!Lasts(P) = {p.node}
  BY <1>14 DEF CliLast
<1>16. o.model \in p.e.row.models
  BY <1>13, <1>15, CliFactsAre
(* Its row of the model is the one that counts. *)
<1>17. p.node = c.node
  <2>1. PICK h : CliTells(h, p.e.row.session) /\ p.e \in Cli!Sourced(h)
    BY <1>10, CliActiveIs
  <2>2. PICK y \in Cli!ReadRows(h.file) : p.e = CliEntry(h, y)
    BY <2>1, CliSourcedIs DEF CliTells
  <2>3. p.e.row = y /\ p.e.source = <<h.file.locator, h.number>> /\ h.file \in CliFiles
    BY <2>1, <2>2, CliTold, CliSourcedIs DEF CliTells
  <2>4. y.event # None /\ \E x \in Cli!ReadRows(h.file) : x.scope = "model" /\ x.event = y.event /\ x.line = y.line /\ x.model = o.model
    BY <1>10, <1>16, <2>3, CliShutdowns
  <2>5. PICK x \in Cli!ReadRows(h.file) : x.scope = "model" /\ x.event = y.event /\ x.model = o.model
    BY <2>4
  <2>6. h \in Cli!Tellers(o.session) /\ Cli!FileRows[h.file] = Cli!ReadRows(h.file)
    BY <1>10, <2>1, CliTellersAre, CliSourcedIs DEF CliTells
  <2>7. x \in Cli!Told(h, o)
    BY <1>5, <2>5, <2>6 DEF Cli!Told
  <2>8. PICK k \in G : k.e = CliEntry(h, x) /\ k.e.row = x
    BY <1>1, <1>5, <2>6, <2>7, CliToldIsCandidate
  <2>9. k.e.source = <<h.file.locator, h.number>>
    BY <1>10, <2>1, <2>5, <2>8, CliTold
  <2>10. CliNode(k.e) = CliNode(p.e)
    BY <2>3, <2>4, <2>5, <2>8, <2>9, CliSameNode
  <2>11. k.node = p.node
    BY <1>2, <1>10, <2>10 DEF CliGroup, CliIsCandidate
  <2>12. \A m \in Cli!Nodes(G) : ~Cli!Edge(G, k.node, m)
    <3>1. SUFFICES ASSUME NEW m \in Cli!Nodes(G), Cli!Edge(G, k.node, m) PROVE FALSE
      OBVIOUS
    <3>2. Cli!Edge(P, k.node, m) /\ m \in Cli!Nodes(P)
      BY <1>2, <1>5, <3>1, CliModelEdge
    <3>3. p.node \in Cli!Lasts(P)
      BY <1>15
    <3> HIDE DEF G, P
    <3> QED BY <2>11, <3>2, <3>3, Zenon DEF Cli!Lasts
  <2>13. k.node \in Cli!Lasts(G)
    <3> HIDE DEF G
    <3>1. k.node \in Cli!Nodes(G)
      BY Zenon DEF Cli!Nodes
    <3> QED BY <2>12, <3>1, Zenon DEF Cli!Lasts
  <2> QED BY <1>6, <2>11, <2>13
<1>18. v.node = p.node
  <2>1. d.e.source = <<g.file.locator, g.number>>
    BY <1>3, <1>4, <1>7, CliTold
  <2>2. CliNode(v.e) = CliNode(d.e)
    BY <1>7, <1>8, <1>80, <1>12, <2>1, CliSameNode
  <2>3. d.node = CliNode(d.e) /\ v.node = CliNode(v.e)
    BY <1>2, <1>10 DEF CliGroup, CliIsCandidate
  <2> QED BY <1>9, <1>17, <2>2, <2>3
(* And no later shutdown of the file follows it. *)
<1>19. PICK u \in P : u.e = CliEntry(g, z) /\ u.e.row = z /\ u.e.source = <<g.file.locator, g.number>>
  BY <1>3, <1>11
<1>20. w.line <= z.line /\ w.line \in Nat /\ z.line \in Nat
  BY <1>3, <1>8, CliRowValues
<1>21. ASSUME w.line < z.line PROVE FALSE
  <2>1. u.node # v.node
    <3>1. SUFFICES ASSUME u.node = v.node PROVE FALSE
      OBVIOUS
    <3>2. z.event # None /\ w.event # None /\ z.scope = "session" /\ w.scope = "session"
      BY <1>3, <1>8, CliShutdowns
    <3>3. CliNode(u.e) = CliNode(v.e)
      BY <1>10, <3>1
    <3>4. z.event = w.event
      BY <1>12, <1>19, <3>2, <3>3, CliNodeEvent
    <3>5. z.model = w.model
      BY <1>3, <1>8, <3>2, CliRowValues
    <3>6. z = w
      BY <1>3, <1>8, <3>2, <3>4, <3>5, CliOneRow
    <3> QED BY <1>20, <1>21, <3>6
  <2>2. u.node \in Cli!Nodes(P)
    BY DEF Cli!Nodes
  <2>3. v.e.source = u.e.source /\ v.e.row.line < u.e.row.line
    BY <1>12, <1>19, <1>21
  <2> HIDE DEF P
  <2>4. Cli!Edge(P, v.node, u.node)
    BY <2>1, <2>3, Zenon DEF Cli!Edge
  <2>5. v.node \in Cli!Lasts(P)
    BY <1>15, <1>18
  <2> QED BY <2>2, <2>4, <2>5, Zenon DEF Cli!Lasts
<1>22. z = w
  BY <1>3, <1>8, <1>20, <1>21, CliShutdowns
<1> QED BY <1>4, <1>8, <1>22

-----------------------------------------------------------------------------
(* The types, and the theorems of the specification. *)
LEMMA CliTypes == ASSUME Cli!CliConstants, CliInv PROVE Cli!TypeOK
<1>1. CliCandidates(CliTokenCandidates, "model") /\ CliCandidates(CliAmountCandidates, "session")
  BY CliTokenCandidatesAre, CliAmountCandidatesAre
<1>2. ASSUME NEW C, NEW scope, CliCandidates(C, scope), NEW d,
             d = Cli!Quarantined(Cli!Evidence(read), CliActiveRows, Cli!Decide(C))
      PROVE  /\ DOMAIN d \subseteq {Cli!Facts(e.row) : e \in Cli!Evidence(read)}
             /\ \A o \in DOMAIN d : d[o] \in DOMAIN d \cup {None}
  <2>1. DOMAIN d = Cli!Rows(C)
    BY <1>2, Zenon DEF Cli!Quarantined, Cli!Decide
  <2>2. \A c \in C : c.e \in Cli!Evidence(read) /\ Cli!Facts(c.e.row) \in Cli!Rows(C)
    <3> TAKE c \in C
    <3>1. c.e \in CliActiveRows
      BY <1>2 DEF CliCandidates, CliIsCandidate
    <3>2. c.e \in Cli!Evidence(read)
      BY <3>1, CliActiveIs, CliEvidence DEF CliTells
    <3> QED BY <3>2 DEF Cli!Rows
  <2>3. \A o \in Cli!Rows(C) : \E c \in C : o = Cli!Facts(c.e.row)
    BY DEF Cli!Rows
  <2>4. ASSUME NEW o \in DOMAIN d, d[o] # None PROVE d[o] \in Cli!Rows(C)
    <3>1. IsFiniteSet(C)
      BY <1>2 DEF CliCandidates
    <3>2. CliLast(CliOf(C, o), d[o])
      BY <1>2, <2>4, <3>1, CliCountsIs
    <3>3. PICK c \in CliOf(C, o) : d[o] = Cli!Facts(c.e.row)
      BY <3>2 DEF CliLast
    <3>4. c \in C
      BY DEF CliOf
    <3> QED BY <2>2, <3>3, <3>4
  <2> QED BY <2>1, <2>2, <2>3, <2>4
<1>3. \A d \in {tokens, amounts} :
        /\ DOMAIN d \subseteq {Cli!Facts(e.row) : e \in Cli!Evidence(read)}
        /\ \A o \in DOMAIN d : d[o] \in DOMAIN d \cup {None}
  BY <1>1, <1>2, CliDecisions
<1>4. \A g \in read : g.number \in 0 .. Cardinality({h \in read \ {g} : h.file.locator = g.file.locator})
  <2> TAKE g \in read
  <2>1. CliOthers(read, g) \in SUBSET read
    BY DEF CliOthers
  <2>2. Cardinality(CliOthers(read, g)) \in Nat
    BY <2>1, FS_Subset, FS_CardinalityType DEF CliInv
  <2>3. g.number \in Nat /\ g.number <= Cardinality(CliOthers(read, g))
    BY DEF CliInv, CliNumbered, CliReadings
  <2> QED BY <2>2, <2>3 DEF CliOthers
<1>5. /\ Cardinality(read) <= MaxRead /\ \A g \in read : g.file \in CliFiles /\ g.available \in BOOLEAN
      /\ \A g, h \in read : g.file.locator = h.file.locator /\ g.number = h.number => g = h
  BY DEF CliInv, CliNumbered, CliReadings
<1> QED BY <1>3, <1>4, <1>5, CliLibrary, Zenon DEF Cli!TypeOK

LEMMA CliSafe ==
  ASSUME Cli!CliConstants, CliInv
  PROVE  Cli!TypeOK /\ Cli!Incremental /\ Cli!OnlyWhatIsThere /\ Cli!LargestCounts /\ Cli!NoRivals /\ Cli!ForgottenModels /\ Cli!Undisputed
BY CliTypes, CliOnlyThere, CliLargest, CliNoneRival, CliForgotten, CliNotDisputed DEF CliInv

(***************************************************************************)
(* VS Code: tokens of models and turns, credits of requests and controls.  *)
(***************************************************************************)
(* The library as the module of the harness sees it. *)
LEMMA VscodeLibrary ==
  /\ \A S : Vscode!Cardinality(S) = Cardinality(S)
  /\ \A S : Vscode!IsFiniteSet(S) <=> IsFiniteSet(S)
<1>1. \A S : Vscode!IsFiniteSet(S) <=> IsFiniteSet(S)
  BY DEF Vscode!IsFiniteSet, IsFiniteSet
<1>2. \A S : Vscode!Cardinality(S) = Cardinality(S)
  BY DEF Vscode!Cardinality, Cardinality
<1> QED BY <1>1, <1>2

(* The rows of a request. *)
VscodeFields == {"session", "kind", "model", "request", "response", "entry", "tokens", "quantity", "amount",
                 "reason", "conflict", "shape"}
VscodeKinds == {"model_totals", "turn_summary", "unavailable", "session_control"}
VscodeShape(f, n, r) ==
  /\ DOMAIN r = VscodeFields \cup {"ordinal", "line"}
  /\ r.session = f.session /\ r.ordinal = n /\ r.line = (IF f.flat THEN 1 ELSE f.requests[n].line)
  /\ r = [x \in DOMAIN r |-> r[x]]
VscodeIsRow(f, n, r) ==
  /\ VscodeShape(f, n, r)
  /\ r.kind \in VscodeKinds
  /\ r.kind # "model_totals" => r.model = None
  /\ r.kind = "session_control" =>
       /\ f.requests[n].control # None /\ r.quantity = Vscode!Quantity(f.requests[n].control)
       /\ r.amount = Vscode!Number(f.requests[n].control)
       /\ r.reason = None => f.requests[n].control # Invalid

LEMMA VscodeRowsOf ==
  ASSUME NEW f, NEW n, NEW kind, NEW model, NEW place, NEW toks, NEW quantity, NEW amount, NEW reason,
         NEW r, r = Vscode!Row(f, n, kind, model, place, toks, quantity, amount, reason)
  PROVE  /\ VscodeShape(f, n, r)
         /\ r.kind = kind /\ r.model = model /\ r.quantity = quantity /\ r.amount = amount /\ r.reason = reason
<1> DEFINE response == IF f.requests[n].response = Invalid THEN None ELSE f.requests[n].response
           entry == <<IF f.requests[n].id = None THEN <<f.locator, n>> ELSE <<f.requests[n].id>>, place>>
           conflict == IF reason = "conflicting" THEN f.requests[n].retained ELSE None
           shape == IF kind \in {"turn_summary", "unavailable"}
                    THEN <<f.requests[n].summary # None, Vscode!LastCall(f.requests[n]), f.requests[n].models # <<>>>> ELSE None
           line == IF f.flat THEN 1 ELSE f.requests[n].line
           id == f.requests[n].id
<1>1. r = [session |-> f.session, kind |-> kind, model |-> model, request |-> id, response |-> response,
           entry |-> entry, tokens |-> toks, quantity |-> quantity, amount |-> amount, reason |-> reason,
           conflict |-> conflict, shape |-> shape, ordinal |-> n, line |-> line]
  BY Zenon DEF Vscode!Row
<1> HIDE DEF response, entry, conflict, shape, line, id
<1>2. DOMAIN r = VscodeFields \cup {"ordinal", "line"}
  BY <1>1 DEF VscodeFields
<1>3. /\ r.session = f.session /\ r.ordinal = n /\ r.line = line
      /\ r.kind = kind /\ r.model = model /\ r.quantity = quantity /\ r.amount = amount /\ r.reason = reason
  BY <1>1
<1>4. r = [x \in DOMAIN r |-> r[x]]
  BY <1>1
<1> QED BY <1>2, <1>3, <1>4 DEF line, VscodeShape

LEMMA VscodeRequestRows ==
  ASSUME None # "number", NEW f, NEW n, NEW r \in Vscode!RequestRows(f, n)
  PROVE  VscodeIsRow(f, n, r)
<1> DEFINE Models == {Vscode!ModelRow(f, n, i) : i \in DOMAIN f.requests[n].models}
           Told == {Vscode!ControlRow(f, n) : m \in {k \in {n} : f.requests[k].control # None}}
<1>1. Vscode!RequestRows(f, n) = Models \cup {Vscode!SummaryRow(f, n)} \cup Told
  BY Zenon DEF Vscode!RequestRows
<1>2. \A x \in Models : \E i : x = Vscode!ModelRow(f, n, i)
  BY Zenon
<1>3. \A x \in Told : x = Vscode!ControlRow(f, n) /\ f.requests[n].control # None
  BY Zenon
<1> HIDE DEF Models, Told
<1>4. (\E i : r = Vscode!ModelRow(f, n, i)) \/ r = Vscode!SummaryRow(f, n) \/ (r = Vscode!ControlRow(f, n) /\ f.requests[n].control # None)
  BY <1>1, <1>2, <1>3
<1>5. ASSUME NEW i, r = Vscode!ModelRow(f, n, i) PROVE VscodeIsRow(f, n, r)
  <2>1. \E model, place, toks, reason : r = Vscode!Row(f, n, "model_totals", model, place, toks, None, None, reason)
    BY <1>5, Zenon DEF Vscode!ModelRow
  <2>2. PICK model, place, toks, reason : r = Vscode!Row(f, n, "model_totals", model, place, toks, None, None, reason)
    BY <2>1
  <2>3. r.kind = "model_totals"
    BY <2>2, VscodeRowsOf
  <2>4. VscodeShape(f, n, r)
    BY <2>2, VscodeRowsOf
  <2> QED BY <2>3, <2>4 DEF VscodeIsRow, VscodeKinds
<1>6. ASSUME r = Vscode!SummaryRow(f, n) PROVE VscodeIsRow(f, n, r)
  <2>1. \E kind, toks, quantity, amount, reason :
           r = Vscode!Row(f, n, kind, None, <<>>, toks, quantity, amount, reason) /\ kind \in {"turn_summary", "unavailable"}
    <3> DEFINE q == f.requests[n]
               told == q.summary # None \/ q.credits # None \/ q.models # <<>> \/ Vscode!LastCall(q)
               reason == IF Vscode!RetainedReason(q) # None THEN Vscode!RetainedReason(q)
                         ELSE IF Vscode!BadNumber(q) THEN "number" ELSE IF Vscode!Repeated(q) # {} THEN "repeated" ELSE Vscode!Identity(q)
               toks == Vscode!Number(IF Vscode!LastCall(q) THEN Vscode!Retained(q) ELSE q.summary)
               kind == IF told THEN "turn_summary" ELSE "unavailable"
    <3>1. r = Vscode!Row(f, n, kind, None, <<>>, toks, Vscode!Quantity(q.credits), Vscode!Number(q.credits), reason)
      BY <1>6, Zenon DEF Vscode!SummaryRow
    <3>2. kind \in {"turn_summary", "unavailable"}
      OBVIOUS
    <3> HIDE DEF told, reason, toks, kind, q
    <3> QED BY <3>1, <3>2
  <2>2. PICK kind, toks, quantity, amount, reason :
           r = Vscode!Row(f, n, kind, None, <<>>, toks, quantity, amount, reason) /\ kind \in {"turn_summary", "unavailable"}
    BY <2>1
  <2>3. r.kind = kind /\ r.model = None
    BY <2>2, VscodeRowsOf
  <2>4. VscodeShape(f, n, r)
    BY <2>2, VscodeRowsOf
  <2> QED BY <2>2, <2>3, <2>4 DEF VscodeIsRow, VscodeKinds
<1>7. ASSUME r = Vscode!ControlRow(f, n), f.requests[n].control # None PROVE VscodeIsRow(f, n, r)
  <2> DEFINE q == f.requests[n]
             reason == IF q.control = Invalid THEN "number" ELSE Vscode!Identity(q)
  <2>1. r = Vscode!Row(f, n, "session_control", None, <<>>, None, Vscode!Quantity(q.control), Vscode!Number(q.control), reason)
    BY <1>7, Zenon DEF Vscode!ControlRow
  <2>2. reason = None => q.control # Invalid
    OBVIOUS
  <2> HIDE DEF reason
  <2>3. r.kind = "session_control" /\ r.model = None /\ r.quantity = Vscode!Quantity(q.control) /\ r.amount = Vscode!Number(q.control) /\ r.reason = reason
    BY <2>1, VscodeRowsOf
  <2>4. VscodeShape(f, n, r)
    BY <2>1, VscodeRowsOf
  <2> QED BY <1>7, <2>2, <2>3, <2>4 DEF VscodeIsRow, VscodeKinds
<1> QED BY <1>4, <1>5, <1>6, <1>7

LEMMA VscodeFactsOf ==
  \A f, n, r : VscodeShape(f, n, r) =>
    /\ DOMAIN Vscode!Facts(r) = VscodeFields /\ \A x \in VscodeFields : Vscode!Facts(r)[x] = r[x]
    /\ \A g, m, q : VscodeShape(g, m, q) /\ Vscode!Facts(r) = Vscode!Facts(q) /\ r.ordinal = q.ordinal /\ r.line = q.line => r = q
<1> TAKE f, n, r
<1> HAVE VscodeShape(f, n, r)
<1>1. \A g, m, q : VscodeShape(g, m, q) =>
        DOMAIN Vscode!Facts(q) = VscodeFields /\ \A x \in VscodeFields : Vscode!Facts(q)[x] = q[x]
  <2> TAKE g, m, q
  <2> HAVE VscodeShape(g, m, q)
  <2>1. DOMAIN q \ {"ordinal", "line"} = VscodeFields
    BY DEF VscodeShape, VscodeFields
  <2>2. Vscode!Facts(q) = [x \in VscodeFields |-> q[x]]
    BY <2>1 DEF Vscode!Facts
  <2> QED BY <2>2
<1>2. ASSUME NEW g, NEW m, NEW q, VscodeShape(g, m, q), Vscode!Facts(r) = Vscode!Facts(q), r.ordinal = q.ordinal, r.line = q.line
      PROVE  r = q
  <2>1. DOMAIN r = DOMAIN q /\ DOMAIN r = VscodeFields \cup {"ordinal", "line"}
    BY <1>2 DEF VscodeShape
  <2>2. \A x \in DOMAIN r : r[x] = q[x]
    <3>1. \A x \in VscodeFields : r[x] = q[x]
      BY <1>1, <1>2
    <3> QED BY <1>2, <2>1, <3>1
  <2>3. r = [x \in DOMAIN r |-> r[x]] /\ q = [x \in DOMAIN q |-> q[x]]
    BY <1>2 DEF VscodeShape
  <2>4. [x \in DOMAIN r |-> r[x]] = [x \in DOMAIN r |-> q[x]]
    BY <2>2
  <2> QED BY <2>1, <2>3, <2>4
<1> QED BY <1>1, <1>2

(* What has been read of a file up to a request. *)
VscodeTold(f, n, X) ==
  /\ IsFiniteSet(X)
  /\ \A r \in X : r.ordinal \in 1 .. n /\ f.requests[r.ordinal].copilot /\ r \in Vscode!RequestRows(f, r.ordinal)
  /\ \A r, q \in X : Vscode!Facts(r) = Vscode!Facts(q) => r.ordinal = q.ordinal
VscodeReads(f, before, n) ==
  IF f.requests[n].copilot
  THEN before \cup {q \in Vscode!RequestRows(f, n) : Vscode!Facts(q) \notin {Vscode!Facts(p) : p \in before}}
  ELSE before

LEMMA VscodeSameFacts ==
  ASSUME NEW f, NEW n, NEW r, VscodeShape(f, n, r), NEW g, NEW m, NEW q, VscodeShape(g, m, q),
         Vscode!Facts(r) = Vscode!Facts(q), r.ordinal = q.ordinal, r.line = q.line
  PROVE  r = q
<1> QED BY VscodeFactsOf, Zenon

LEMMA VscodeRequestFinite ==
  ASSUME Vscode!VscodeConstants, NEW f \in VscodeFiles, NEW n \in 1 .. Len(f.requests)
  PROVE  IsFiniteSet(Vscode!RequestRows(f, n))
<1> DEFINE D == DOMAIN f.requests[n].models
           row == [i \in D |-> Vscode!ModelRow(f, n, i)]
           Models == {row[i] : i \in D}
           K == {k \in {n} : f.requests[k].control # None}
           control == [m \in K |-> Vscode!ControlRow(f, n)]
           Told == {control[m] : m \in K}
           S == {Vscode!SummaryRow(f, n)}
<1>1. Vscode!RequestRows(f, n) = (Models \cup S) \cup Told
  BY Zenon DEF Vscode!RequestRows
<1>2. IsFiniteSet(D)
  BY VscodeLibrary DEF Vscode!VscodeConstants
<1>3. IsFiniteSet(S) /\ IsFiniteSet({n})
  BY FS_Singleton
<1>4. K \in SUBSET {n}
  OBVIOUS
<1> HIDE DEF D, row, K, control, S
<1>5. IsFiniteSet(K)
  BY <1>3, <1>4, FS_Subset
<1>6. IsFiniteSet(Models) /\ IsFiniteSet(Told)
  BY <1>2, <1>5, FiniteImage
<1> HIDE DEF Models, Told
<1>7. IsFiniteSet(Models \cup S)
  BY <1>3, <1>6, FS_Union
<1>8. IsFiniteSet((Models \cup S) \cup Told)
  BY <1>6, <1>7, FS_Union
<1> QED BY <1>1, <1>8

LEMMA VscodeReadsOn ==
  ASSUME Vscode!VscodeConstants, NEW f \in VscodeFiles, NEW n \in 1 .. Len(f.requests), NEW X, VscodeTold(f, n - 1, X)
  PROVE  VscodeTold(f, n, VscodeReads(f, X, n))
<1>0. n \in Nat /\ n - 1 \in Nat /\ None # "number"
  BY DEF Vscode!VscodeConstants
<1> DEFINE known == {Vscode!Facts(p) : p \in X}
           more == {q \in Vscode!RequestRows(f, n) : Vscode!Facts(q) \notin known}
<1>1. CASE ~f.requests[n].copilot
  <2>1. VscodeReads(f, X, n) = X
    BY <1>1 DEF VscodeReads
  <2> QED BY <1>0, <2>1 DEF VscodeTold
<1>2. CASE f.requests[n].copilot
  <2>1. VscodeReads(f, X, n) = X \cup more
    BY <1>2, Zenon DEF VscodeReads
  <2>2. more \in SUBSET Vscode!RequestRows(f, n)
    OBVIOUS
  <2>3. \A q \in more : \A p \in X : Vscode!Facts(q) # Vscode!Facts(p)
    BY Zenon
  <2>4. \A q \in more : q.ordinal = n
    BY <1>0, <2>2, VscodeRequestRows DEF VscodeIsRow, VscodeShape
  <2>5. IsFiniteSet(more)
    BY <2>2, VscodeRequestFinite, FS_Subset
  <2> HIDE DEF more
  <2>6. IsFiniteSet(X \cup more)
    BY <2>5, FS_Union DEF VscodeTold
  <2>7. \A r \in X \cup more : r.ordinal \in 1 .. n /\ f.requests[r.ordinal].copilot /\ r \in Vscode!RequestRows(f, r.ordinal)
    BY <1>0, <1>2, <2>2, <2>4 DEF VscodeTold
  <2>8. \A r, q \in X \cup more : Vscode!Facts(r) = Vscode!Facts(q) => r.ordinal = q.ordinal
    <3>1. \A r, q \in X : Vscode!Facts(r) = Vscode!Facts(q) => r.ordinal = q.ordinal
      BY DEF VscodeTold
    <3> QED BY <2>3, <2>4, <3>1
  <2> QED BY <2>1, <2>6, <2>7, <2>8 DEF VscodeTold
<1> QED BY <1>1, <1>2

VscodeTelling(f, told) ==
  told = [n \in 0 .. Len(f.requests) |->
            IF n = 0 THEN {}
            ELSE IF f.requests[n].copilot
                 THEN told[n - 1] \cup {q \in Vscode!RequestRows(f, n) : Vscode!Facts(q) \notin {Vscode!Facts(p) : p \in told[n - 1]}}
                 ELSE told[n - 1]]
LEMMA VscodeTellingExists ==
  ASSUME Vscode!VscodeConstants, NEW f \in VscodeFiles
  PROVE  \E told : VscodeTelling(f, told)
<1> DEFINE N == Len(f.requests)
           A == SUBSET UNION {Vscode!RequestRows(f, n) : n \in 1 .. N}
           F == [p \in Nat \X A |-> IF p[1] \in 1 .. N THEN VscodeReads(f, p[2], p[1]) ELSE {}]
<1>0. N \in Nat
  BY DEF Vscode!VscodeConstants
<1>1. \A n \in 1 .. N, X \in A : VscodeReads(f, X, n) \in A
  <2> TAKE n \in 1 .. N, X \in A
  <2>1. VscodeReads(f, X, n) \subseteq X \cup Vscode!RequestRows(f, n)
    <3> HIDE DEF A
    <3>1. \A q \in VscodeReads(f, X, n) : q \in X \/ q \in Vscode!RequestRows(f, n)
      BY Zenon DEF VscodeReads
    <3> QED BY <3>1
  <2> QED BY <2>1
<1>2. {} \in A /\ F \in [Nat \X A -> A]
  <2>1. {} \in A
    OBVIOUS
  <2> HIDE DEF A
  <2>2. \A p \in Nat \X A : (IF p[1] \in 1 .. N THEN VscodeReads(f, p[2], p[1]) ELSE {}) \in A
    BY <1>1, <2>1
  <2> QED BY <2>1, <2>2
<1>3. \A n \in 1 .. N, X \in A : F[<<n, X>>] = VscodeReads(f, X, n)
  <2> HIDE DEF A
  <2> TAKE n \in 1 .. N, X \in A
  <2>1. <<n, X>> \in Nat \X A
    BY <1>0
  <2> QED BY <2>1
<1> HIDE DEF A, F, N
<1>4. PICK h : InSteps(h, A, {}, F, N)
  BY <1>0, <1>2, StepsExist
<1>5. /\ h \in [0 .. N -> A] /\ h[0] = {}
      /\ \A k \in 1 .. N : h[k] = F[<<k, h[k - 1]>>]
  BY <1>4 DEF InSteps
<1> DEFINE value(n) == IF n = 0 THEN {} 
                       ELSE IF f.requests[n].copilot
                            THEN h[n - 1] \cup {q \in Vscode!RequestRows(f, n) : Vscode!Facts(q) \notin {Vscode!Facts(p) : p \in h[n - 1]}}
                            ELSE h[n - 1]
<1>6. \A n \in 0 .. N : h[n] = value(n)
  <2> TAKE n \in 0 .. N
  <2>1. CASE n = 0
    BY <1>5, <2>1
  <2>2. CASE n # 0
    <3>1. n \in 1 .. N /\ n - 1 \in 0 .. N
      BY <1>0, <2>2
    <3>2. h[n] = VscodeReads(f, h[n - 1], n)
      BY <1>3, <1>5, <3>1
    <3> QED BY <2>2, <3>2, Zenon DEF VscodeReads
  <2> QED BY <2>1, <2>2
<1>7. h = [n \in 0 .. N |-> value(n)]
  <2> HIDE DEF value
  <2>1. h = [n \in 0 .. N |-> h[n]]
    BY <1>5
  <2> QED BY <1>6, <2>1
<1>8. VscodeTelling(f, h)
  BY <1>7, Zenon DEF VscodeTelling, N
<1> QED BY <1>8, Zenon

(* The rows of a file. *)
VscodeRowsRead(f, X) ==
  /\ IsFiniteSet(X)
  /\ \A r \in X : r.ordinal \in Nat /\ r.line \in Nat /\ VscodeIsRow(f, r.ordinal, r) /\ r.ordinal \in DOMAIN f.requests
  /\ \A r, q \in X : Vscode!Facts(r) = Vscode!Facts(q) => r = q
  /\ X # {} => f.valid
LEMMA VscodeReadRows ==
  ASSUME Vscode!VscodeConstants, NEW f \in VscodeFiles
  PROVE  VscodeRowsRead(f, Vscode!ReadRows(f))
<1> DEFINE N == Len(f.requests)
           J == CHOOSE g : g = [n \in 0 .. N |->
            IF n = 0 THEN {}
            ELSE IF f.requests[n].copilot
                 THEN g[n - 1] \cup {q \in Vscode!RequestRows(f, n) : Vscode!Facts(q) \notin {Vscode!Facts(p) : p \in g[n - 1]}}
                 ELSE g[n - 1]]
<1>0. N \in Nat /\ DOMAIN f.requests = 1 .. N /\ None # "number"
      /\ \A n \in 1 .. N : f.requests[n].line \in Nat
  BY DEF Vscode!VscodeConstants
<1>1. Vscode!ReadRows(f) = IF f.valid THEN J[N] ELSE {}
  BY Zenon DEF Vscode!ReadRows
<1>2. \E g : g = [n \in 0 .. N |->
            IF n = 0 THEN {}
            ELSE IF f.requests[n].copilot
                 THEN g[n - 1] \cup {q \in Vscode!RequestRows(f, n) : Vscode!Facts(q) \notin {Vscode!Facts(p) : p \in g[n - 1]}}
                 ELSE g[n - 1]]
  <2> HIDE DEF J
  <2>1. \E g : VscodeTelling(f, g)
    BY VscodeTellingExists
  <2> QED BY <2>1, Zenon DEF VscodeTelling
<1>3. VscodeTelling(f, J)
  BY <1>2, Zenon DEF VscodeTelling
<1> HIDE DEF J, N
<1>4. J[0] = {} /\ \A n \in 1 .. N : J[n] = VscodeReads(f, J[n - 1], n)
  <2>1. 0 \in 0 .. N /\ \A n \in 1 .. N : n \in 0 .. N /\ n # 0
    BY <1>0
  <2>2. J = [n \in 0 .. N |->
            IF n = 0 THEN {}
            ELSE IF f.requests[n].copilot
                 THEN J[n - 1] \cup {q \in Vscode!RequestRows(f, n) : Vscode!Facts(q) \notin {Vscode!Facts(p) : p \in J[n - 1]}}
                 ELSE J[n - 1]]
    BY <1>3, Zenon DEF VscodeTelling, N
  <2>3. J[0] = {}
    BY <2>1, <2>2, Zenon
  <2>4. ASSUME NEW n \in 1 .. N PROVE J[n] = VscodeReads(f, J[n - 1], n)
    <3>1. n \in 0 .. N /\ n # 0
      BY <2>1
    <3>2. J[n] = IF n = 0 THEN {}
            ELSE IF f.requests[n].copilot
                 THEN J[n - 1] \cup {q \in Vscode!RequestRows(f, n) : Vscode!Facts(q) \notin {Vscode!Facts(p) : p \in J[n - 1]}}
                 ELSE J[n - 1]
      BY <2>2, <3>1, Zenon
    <3> QED BY <3>1, <3>2, Zenon DEF VscodeReads
  <2> QED BY <2>3, <2>4
<1> DEFINE T == {n \in Nat : n <= N => VscodeTold(f, n, J[n])}
<1>5. T = Nat
  <2>1. T \subseteq Nat
    OBVIOUS
  <2>2. 0 \in T
    <3>1. VscodeTold(f, 0, J[0])
      BY <1>4, FS_EmptySet DEF VscodeTold
    <3> QED BY <3>1
  <2>3. ASSUME NEW n \in T PROVE n + 1 \in T
    <3>1. n \in Nat /\ (n + 1 <= N => VscodeTold(f, n, J[n]))
      BY <1>0, <2>3
    <3>2. ASSUME n + 1 <= N PROVE VscodeTold(f, n + 1, J[n + 1])
      <4> DEFINE m == n + 1
      <4>1. m \in 1 .. N /\ m - 1 = n
        BY <1>0, <3>1, <3>2
      <4> HIDE DEF m
      <4>2. VscodeTold(f, m - 1, J[m - 1])
        BY <3>1, <3>2, <4>1
      <4>3. VscodeTold(f, m, VscodeReads(f, J[m - 1], m))
        BY <4>1, <4>2, VscodeReadsOn DEF N
      <4>4. J[m] = VscodeReads(f, J[m - 1], m)
        BY <1>4, <4>1
      <4> QED BY <4>3, <4>4 DEF m
    <3> QED BY <3>1, <3>2
  <2> HIDE DEF T
  <2> QED BY <2>1, <2>2, <2>3, AllNumbers
<1>6. VscodeTold(f, N, J[N])
  BY <1>0, <1>5
<1> DEFINE X == J[N]
<1> HIDE DEF X, T
<1>7. VscodeTold(f, N, X)
  BY <1>6 DEF X
<1>8. \A r \in X : r.ordinal \in 1 .. N /\ VscodeIsRow(f, r.ordinal, r)
  BY <1>0, <1>7, VscodeRequestRows DEF VscodeTold
<1>9. \A r \in X : r.ordinal \in Nat /\ r.line \in Nat /\ r.ordinal \in DOMAIN f.requests
  <2> TAKE r \in X
  <2>1. r.line = IF f.flat THEN 1 ELSE f.requests[r.ordinal].line
    BY <1>8 DEF VscodeIsRow, VscodeShape
  <2> QED BY <1>0, <1>8, <2>1
<1>10. ASSUME NEW r \in X, NEW q \in X, Vscode!Facts(r) = Vscode!Facts(q) PROVE r = q
  <2>1. r.ordinal = q.ordinal
    BY <1>7, <1>10 DEF VscodeTold
  <2>2. r.line = q.line
    BY <1>8, <2>1 DEF VscodeIsRow, VscodeShape
  <2>3. VscodeShape(f, r.ordinal, r) /\ VscodeShape(f, q.ordinal, q)
    BY <1>8 DEF VscodeIsRow
  <2>4. Vscode!Facts(r) = Vscode!Facts(q)
    BY <1>10
  <2> QED BY <2>1, <2>2, <2>3, <2>4, VscodeSameFacts
<1>11. CASE f.valid
  <2>1. Vscode!ReadRows(f) = X
    BY <1>1, <1>11 DEF X
  <2> QED BY <1>7, <1>8, <1>9, <1>10, <1>11, <2>1 DEF VscodeRowsRead, VscodeTold
<1>12. CASE ~f.valid
  <2>1. Vscode!ReadRows(f) = {}
    BY <1>1, <1>12
  <2> QED BY <2>1, FS_EmptySet DEF VscodeRowsRead
<1> QED BY <1>11, <1>12

-----------------------------------------------------------------------------
(* The candidates of a session. *)
VscodeReadings == [file : VscodeFiles, available : BOOLEAN, number : Nat]
VscodeCandidate(L, g, r) ==
  [source |-> Vscode!Source(g), current |-> Vscode!Newest(L, g), there |-> g.available,
   rank |-> <<IF g.file.flat THEN 1 ELSE 0, g.file.place, r.line>>, row |-> r]
VscodeSource(g) ==
  [source |-> Vscode!Source(g), there |-> g.available, rank |-> <<IF g.file.flat THEN 1 ELSE 0, g.file.place>>]

LEMMA VscodeCandidates ==
  ASSUME NEW L, NEW s
  PROVE  /\ \A c : c \in Vscode!Candidates(L, s) <=> \E g \in L : g.file.session = s /\ \E r \in Vscode!FileRows[g.file] : c = VscodeCandidate(L, g, r)
         /\ \A t : t \in Vscode!Sources(L, s) <=> \E g \in L : g.file.session = s /\ g.file.valid /\ Vscode!Newest(L, g) /\ t = VscodeSource(g)
<1>1. \A g, c : c \in Vscode!Sourced(L, g) <=> \E r \in Vscode!FileRows[g.file] : c = VscodeCandidate(L, g, r)
  BY Zenon DEF Vscode!Sourced, VscodeCandidate
<1>2. \A c : c \in Vscode!Candidates(L, s) <=> \E g \in L : g.file.session = s /\ c \in Vscode!Sourced(L, g)
  <2> DEFINE told == {Vscode!Sourced(L, g) : g \in {h \in L : h.file.session = s}}
  <2>1. Vscode!Candidates(L, s) = UNION told
    BY Zenon DEF Vscode!Candidates
  <2>2. \A t : t \in told <=> \E g \in L : g.file.session = s /\ t = Vscode!Sourced(L, g)
    BY Zenon
  <2> HIDE DEF told
  <2> QED BY <2>1, <2>2
<1>3. \A t : t \in Vscode!Sources(L, s) <=> \E g \in L : g.file.session = s /\ g.file.valid /\ Vscode!Newest(L, g) /\ t = VscodeSource(g)
  BY Zenon DEF Vscode!Sources, VscodeSource
<1> QED BY <1>1, <1>2, <1>3

VscodeObserved(L, s) == {Vscode!Observation(c) : c \in Vscode!Candidates(L, s)}

LEMMA VscodeRowOf ==
  ASSUME Vscode!VscodeConstants, NEW f \in VscodeFiles, NEW r \in Vscode!FileRows[f]
  PROVE  f.valid /\ VscodeIsRow(f, r.ordinal, r) /\ r.ordinal \in Nat /\ r.line \in Nat /\ Vscode!Facts(r) # None
         /\ DOMAIN Vscode!Facts(r) = VscodeFields /\ \A x \in VscodeFields : Vscode!Facts(r)[x] = r[x]
<1>1. VscodeRowsRead(f, Vscode!FileRows[f]) /\ Vscode!FileRows[f] = Vscode!ReadRows(f)
  BY VscodeReadRows DEF Vscode!FileRows
<1>2. f.valid /\ VscodeIsRow(f, r.ordinal, r) /\ r.ordinal \in Nat /\ r.line \in Nat
  BY <1>1 DEF VscodeRowsRead
<1>3. Vscode!Facts(r) # None
  BY <1>1 DEF Vscode!VscodeConstants
<1>4. VscodeShape(f, r.ordinal, r)
  BY <1>2 DEF VscodeIsRow
<1> QED BY <1>2, <1>3, <1>4, VscodeFactsOf

LEMMA VscodeObservedIn ==
  ASSUME Vscode!VscodeConstants, NEW L, L \subseteq VscodeReadings, NEW s, NEW o \in VscodeObserved(L, s)
  PROVE  o.session = s /\ s \in Vscode!Sessions(L) /\ \E g \in L : g.file.session = s /\ g.file.valid /\ \E r \in Vscode!FileRows[g.file] : o = Vscode!Facts(r)
<1>1. PICK c \in Vscode!Candidates(L, s) : o = Vscode!Observation(c)
  BY Zenon DEF VscodeObserved
<1>2. PICK g \in L : g.file.session = s /\ \E r \in Vscode!FileRows[g.file] : c = VscodeCandidate(L, g, r)
  BY VscodeCandidates
<1>3. PICK r \in Vscode!FileRows[g.file] : c = VscodeCandidate(L, g, r)
  BY <1>2
<1>4. g.file \in VscodeFiles
  BY DEF VscodeReadings
<1>5. o = Vscode!Facts(r)
  BY <1>1, <1>3 DEF Vscode!Observation, VscodeCandidate
<1>6. g.file.valid /\ r.session = g.file.session /\ o.session = r.session
  BY <1>4, <1>5, VscodeRowOf DEF VscodeIsRow, VscodeShape, VscodeFields
<1> QED BY <1>2, <1>5, <1>6 DEF Vscode!Sessions

(* The decisions on a session, and on several. *)
LEMMA VscodeDecisions ==
  ASSUME NEW L, NEW s
  PROVE  /\ DOMAIN Vscode!Decided(L, s).tokens = VscodeObserved(L, s)
         /\ DOMAIN Vscode!Decided(L, s).credits = {o \in VscodeObserved(L, s) : o.quantity # None}
<1> DEFINE C == Vscode!Candidates(L, s)
           S == Vscode!Sources(L, s)
           R == IF Vscode!Settled(C, S) THEN Vscode!Canonical(C, S) ELSE {}
           alternate == Vscode!Alternate(C, R)
<1>1. Vscode!Decided(L, s) = [tokens |-> Vscode!Covered(C, alternate), credits |-> Vscode!Credits(C, R, alternate)]
  BY Zenon DEF Vscode!Decided
<1>2. Vscode!Decided(L, s).tokens = Vscode!Covered(C, alternate) /\ Vscode!Decided(L, s).credits = Vscode!Credits(C, R, alternate)
  <2> HIDE DEF C, S, R, alternate
  <2> QED BY <1>1
<1>3. DOMAIN alternate = VscodeObserved(L, s)
  BY Zenon DEF Vscode!Alternate, VscodeObserved
<1> HIDE DEF C, S, R, alternate
<1>4. DOMAIN Vscode!Covered(C, alternate) = DOMAIN alternate
  BY Zenon DEF Vscode!Covered
<1>5. DOMAIN Vscode!Credits(C, R, alternate) = {o \in DOMAIN alternate : o.quantity # None}
  BY Zenon DEF Vscode!Credits
<1> QED BY <1>2, <1>3, <1>4, <1>5

VscodeJoins(d, scope, part) ==
  /\ d = [o \in DOMAIN d |-> d[o]]
  /\ \A o : o \in DOMAIN d <=> o.session \in scope /\ o \in DOMAIN part[o.session]
  /\ \A o \in DOMAIN d : d[o] = part[o.session][o]
VscodeApart(scope, part) == \A s \in scope : \A o \in DOMAIN part[s] : o.session = s
LEMMA VscodeJoined ==
  ASSUME NEW scope, NEW part, VscodeApart(scope, part), NEW d, d = Vscode!Joined({part[s] : s \in scope})
  PROVE  VscodeJoins(d, scope, part)
<1> USE DEF VscodeApart, VscodeJoins
<1> DEFINE T == {part[s] : s \in scope}
           D == UNION {DOMAIN t : t \in T}
           value(o) == (CHOOSE t \in T : o \in DOMAIN t)[o]
<1>1. d = [o \in D |-> value(o)]
  BY Zenon DEF Vscode!Joined
<1>2. \A o : o \in D <=> \E s \in scope : o \in DOMAIN part[s]
  BY Zenon
<1>3. \A o, t : t \in T /\ o \in DOMAIN t => t = part[o.session] /\ o.session \in scope
  <2> TAKE o, t
  <2> HAVE t \in T /\ o \in DOMAIN t
  <2>1. PICK s \in scope : t = part[s]
    OBVIOUS
  <2> QED BY <2>1
<1>4. \A o \in D : \E t \in T : o \in DOMAIN t
  OBVIOUS
<1> HIDE DEF T, D
<1>5. \A o \in D : value(o) = part[o.session][o]
  <2> TAKE o \in D
  <2> DEFINE t == CHOOSE t \in T : o \in DOMAIN t
  <2>1. t \in T /\ o \in DOMAIN t
    BY <1>4
  <2> HIDE DEF t
  <2>2. t = part[o.session]
    BY <1>3, <2>1
  <2> QED BY <2>2 DEF t
<1> HIDE DEF value
<1>6. DOMAIN d = D /\ (\A o \in D : d[o] = value(o)) /\ d = [o \in DOMAIN d |-> d[o]]
  BY <1>1
<1>7. \A o : o \in D <=> o.session \in scope /\ o \in DOMAIN part[o.session]
  BY <1>2
<1> QED BY <1>5, <1>6, <1>7

LEMMA VscodeOwn ==
  ASSUME Vscode!VscodeConstants, NEW L, L \subseteq VscodeReadings
  PROVE  \A s, o : o \in VscodeObserved(L, s) => o.session = s
<1> SUFFICES ASSUME NEW s, NEW o \in VscodeObserved(L, s) PROVE o.session = s
  OBVIOUS
<1>1. o.session = s /\ s \in Vscode!Sessions(L)
  BY VscodeObservedIn
<1> QED BY <1>1

VscodeAll(d, L, scope, tokensToo) ==
  /\ d = [o \in DOMAIN d |-> d[o]]
  /\ \A o : o \in DOMAIN d <=> o.session \in scope /\ o \in VscodeObserved(L, o.session) /\ (tokensToo \/ o.quantity # None)
  /\ \A o \in DOMAIN d : d[o] = IF tokensToo THEN Vscode!Decided(L, o.session).tokens[o] ELSE Vscode!Decided(L, o.session).credits[o]
LEMMA VscodeAlls ==
  ASSUME Vscode!VscodeConstants, NEW L, L \subseteq VscodeReadings, NEW scope
  PROVE  VscodeAll(Vscode!AllTokens(L, scope), L, scope, TRUE) /\ VscodeAll(Vscode!AllCredits(L, scope), L, scope, FALSE)
<1> DEFINE t == [s \in scope |-> Vscode!Decided(L, s).tokens]
           c == [s \in scope |-> Vscode!Decided(L, s).credits]
           X == Vscode!AllTokens(L, scope)
           Y == Vscode!AllCredits(L, scope)
<1>1. X = Vscode!Joined({t[s] : s \in scope}) /\ Y = Vscode!Joined({c[s] : s \in scope})
  <2>1. {t[s] : s \in scope} = {Vscode!Decided(L, s).tokens : s \in scope} /\ {c[s] : s \in scope} = {Vscode!Decided(L, s).credits : s \in scope}
    BY Zenon
  <2> HIDE DEF t, c
  <2> QED BY <2>1, Zenon DEF Vscode!AllTokens, Vscode!AllCredits
<1>2. \A s \in scope : /\ t[s] = Vscode!Decided(L, s).tokens /\ c[s] = Vscode!Decided(L, s).credits
                       /\ DOMAIN t[s] = VscodeObserved(L, s) /\ DOMAIN c[s] = {o \in VscodeObserved(L, s) : o.quantity # None}
  BY VscodeDecisions
<1> HIDE DEF t, c, X, Y
<1>3. \A s, o : o \in VscodeObserved(L, s) => o.session = s
  BY VscodeOwn
<1>4. \A s \in scope : (\A o \in DOMAIN t[s] : o.session = s) /\ (\A o \in DOMAIN c[s] : o.session = s)
  BY <1>2, <1>3
<1>5. /\ X = [o \in DOMAIN X |-> X[o]]
      /\ \A o : o \in DOMAIN X <=> o.session \in scope /\ o \in DOMAIN t[o.session]
      /\ \A o \in DOMAIN X : X[o] = t[o.session][o]
  <2>1. VscodeApart(scope, t)
    BY <1>4 DEF VscodeApart
  <2>2. VscodeJoins(X, scope, t)
    BY <1>1, <2>1, VscodeJoined
  <2> QED BY <2>2 DEF VscodeJoins
<1>6. /\ Y = [o \in DOMAIN Y |-> Y[o]]
      /\ \A o : o \in DOMAIN Y <=> o.session \in scope /\ o \in DOMAIN c[o.session]
      /\ \A o \in DOMAIN Y : Y[o] = c[o.session][o]
  <2>1. VscodeApart(scope, c)
    BY <1>4 DEF VscodeApart
  <2>2. VscodeJoins(Y, scope, c)
    BY <1>1, <2>1, VscodeJoined
  <2> QED BY <2>2 DEF VscodeJoins
<1>7. VscodeAll(X, L, scope, TRUE)
  BY <1>2, <1>5 DEF VscodeAll
<1>8. VscodeAll(Y, L, scope, FALSE)
  BY <1>2, <1>6 DEF VscodeAll
<1> QED BY <1>7, <1>8 DEF X, Y

(* The sessions an import decides again: among them those of the files at its
   places. *)
VscodeMeets(links, near) ==
  near \cup {l[2] : l \in {m \in links : m[1] \in {k[1] : k \in {j \in links : j[2] \in near}}}}
VscodeRounds(links, base, n, f) ==
  f = [k \in 0 .. n |->
        IF k = 0 THEN base
        ELSE f[k - 1] \cup {l[2] : l \in {m \in links : m[1] \in {j[1] : j \in {i \in links : i[2] \in f[k - 1]}}}}]
LEMMA VscodeRoundsExist ==
  ASSUME NEW links, NEW base, base \subseteq {l[2] : l \in links}, NEW n \in Nat
  PROVE  \E f : VscodeRounds(links, base, n, f)
<1> DEFINE A == SUBSET {l[2] : l \in links}
           F == [X \in A |-> VscodeMeets(links, X)]
<1>1. \A X \in A : VscodeMeets(links, X) \in A
  <2> TAKE X \in A
  <2> DEFINE around == {k[1] : k \in {j \in links : j[2] \in X}}
             met == {m \in links : m[1] \in around}
             more == {l[2] : l \in met}
  <2>1. VscodeMeets(links, X) = X \cup more
    BY Zenon DEF VscodeMeets
  <2>2. met \subseteq links
    OBVIOUS
  <2> HIDE DEF around, met
  <2> QED BY <2>1, <2>2
<1>2. base \in A /\ F \in [A -> A]
  <2> HIDE DEF A
  <2>1. F \in [A -> A]
    BY <1>1
  <2> QED BY <2>1 DEF A
<1>3. \A X \in A : F[X] = VscodeMeets(links, X)
  OBVIOUS
<1> HIDE DEF A, F
<1>4. PICK h : InRounds(h, A, base, F, n)
  BY <1>2, RoundsExist
<1>5. h \in [0 .. n -> A] /\ h[0] = base /\ \A k \in 1 .. n : h[k] = F[h[k - 1]]
  BY <1>4 DEF InRounds
<1> DEFINE value(k) ==
        IF k = 0 THEN base
        ELSE h[k - 1] \cup {l[2] : l \in {m \in links : m[1] \in {j[1] : j \in {i \in links : i[2] \in h[k - 1]}}}}
<1>6. \A k \in 0 .. n : h[k] = value(k)
  <2> TAKE k \in 0 .. n
  <2>1. CASE k = 0
    BY <1>5, <2>1
  <2>2. CASE k # 0
    <3>1. k \in 1 .. n /\ k - 1 \in 0 .. n
      BY <2>2
    <3>2. h[k] = VscodeMeets(links, h[k - 1])
      BY <1>3, <1>5, <3>1
    <3> QED BY <2>2, <3>2, Zenon DEF VscodeMeets
  <2> QED BY <2>1, <2>2
<1>7. h = [k \in 0 .. n |-> value(k)]
  <2> HIDE DEF value
  <2>1. h = [k \in 0 .. n |-> h[k]]
    BY <1>5
  <2> QED BY <1>6, <2>1
<1>8. VscodeRounds(links, base, n, h)
  BY <1>7, Zenon DEF VscodeRounds
<1> QED BY <1>8, Zenon

LEMMA VscodeAffected ==
  ASSUME NEW L, IsFiniteSet(L), NEW places
  PROVE  \A g \in L : g.file.valid /\ g.file.locator \in places => g.file.session \in Vscode!Affected(L, places)
<1> DEFINE links == {<<g.file.locator, g.file.session>> : g \in {h \in L : h.file.valid}}
           base == {l[2] : l \in {m \in links : m[1] \in places}}
           n == Cardinality(L)
           J == CHOOSE f : f = [k \in 0 .. n |->
        IF k = 0 THEN base
        ELSE f[k - 1] \cup {l[2] : l \in {m \in links : m[1] \in {j[1] : j \in {i \in links : i[2] \in f[k - 1]}}}}]
<1>1. Vscode!Affected(L, places) = J[n]
  BY VscodeLibrary, Zenon DEF Vscode!Affected
<1>2. n \in Nat
  BY FS_CardinalityType
<1>3. base \subseteq {l[2] : l \in links}
  <2> DEFINE M == {m \in links : m[1] \in places}
  <2>1. M \subseteq links
    OBVIOUS
  <2> HIDE DEF M, links
  <2> QED BY <2>1 DEF M
<1>4. \A g \in L : g.file.valid /\ g.file.locator \in places => g.file.session \in base
  <2> TAKE g \in L
  <2> HAVE g.file.valid /\ g.file.locator \in places
  <2> DEFINE l == <<g.file.locator, g.file.session>>
  <2>1. l \in links
    BY Zenon
  <2>2. l[1] \in places /\ l[2] = g.file.session
    OBVIOUS
  <2> HIDE DEF l, links
  <2> QED BY <2>1, <2>2
<1> HIDE DEF links, base, n
<1>5. \E f : f = [k \in 0 .. n |->
        IF k = 0 THEN base
        ELSE f[k - 1] \cup {l[2] : l \in {m \in links : m[1] \in {j[1] : j \in {i \in links : i[2] \in f[k - 1]}}}}]
  <2> HIDE DEF J
  <2>1. \E f : VscodeRounds(links, base, n, f)
    BY <1>2, <1>3, VscodeRoundsExist
  <2> QED BY <2>1, Zenon DEF VscodeRounds
<1>6. VscodeRounds(links, base, n, J)
  BY <1>5, Zenon DEF VscodeRounds
<1> HIDE DEF J
<1> DEFINE value(k) ==
        IF k = 0 THEN base
        ELSE J[k - 1] \cup {l[2] : l \in {m \in links : m[1] \in {j[1] : j \in {i \in links : i[2] \in J[k - 1]}}}}
<1>7. J = [k \in 0 .. n |-> value(k)]
  BY <1>6, Zenon DEF VscodeRounds
<1>8. \A k \in 0 .. n : J[k] = value(k)
  <2> HIDE DEF value
  <2> QED BY <1>7
<1> DEFINE T == {k \in Nat : k <= n => base \subseteq J[k]}
<1>9. T = Nat
  <2>1. T \subseteq Nat
    OBVIOUS
  <2>2. 0 \in T
    <3>1. value(0) = base /\ 0 \in 0 .. n
      BY <1>2
    <3> HIDE DEF value
    <3> QED BY <1>8, <3>1
  <2>3. ASSUME NEW k \in T PROVE k + 1 \in T
    <3>1. k \in Nat /\ (k + 1 <= n => base \subseteq J[k])
      BY <1>2, <2>3
    <3>2. ASSUME k + 1 <= n PROVE J[k] \subseteq J[k + 1]
      <4> DEFINE m == k + 1
      <4>1. m \in 0 .. n /\ m # 0 /\ m - 1 = k
        BY <1>2, <3>1, <3>2
      <4> HIDE DEF m
      <4>2. J[m - 1] \subseteq value(m)
        BY <4>1
      <4> HIDE DEF value
      <4> QED BY <1>8, <4>1, <4>2 DEF m
    <3> QED BY <3>1, <3>2
  <2> HIDE DEF T
  <2> QED BY <2>1, <2>2, <2>3, AllNumbers
<1>10. base \subseteq J[n]
  BY <1>2, <1>9
<1> QED BY <1>1, <1>4, <1>10

-----------------------------------------------------------------------------
(* From the generations K an import leaves L: what is elsewhere stays as it is. *)
VscodeChange(K, L, places) ==
  /\ K \subseteq VscodeReadings /\ L \subseteq VscodeReadings /\ IsFiniteSet(L)
  /\ \A g : g.file.locator \notin places => (g \in K <=> g \in L)
  /\ \A g \in K : \E h \in L : h.file = g.file /\ h.number = g.number

(* A session outside the scope has the candidates it had. *)
LEMMA VscodeUntouched ==
  ASSUME Vscode!VscodeConstants, NEW K, NEW L, NEW places, VscodeChange(K, L, places), NEW s, s \notin Vscode!Affected(L, places)
  PROVE  Vscode!Candidates(K, s) = Vscode!Candidates(L, s) /\ Vscode!Sources(K, s) = Vscode!Sources(L, s)
<1>0. K \subseteq VscodeReadings /\ L \subseteq VscodeReadings /\ IsFiniteSet(L)
  BY DEF VscodeChange
<1>1. \A g \in L : g.file.session = s /\ g.file.valid => g.file.locator \notin places /\ g \in K
  BY <1>0, VscodeAffected DEF VscodeChange
<1>2. \A g \in K : g.file.session = s /\ g.file.valid => g.file.locator \notin places /\ g \in L
  <2> TAKE g \in K
  <2> HAVE g.file.session = s /\ g.file.valid
  <2>1. PICK h \in L : h.file = g.file
    BY DEF VscodeChange
  <2>2. g.file.locator \notin places
    BY <1>1, <2>1
  <2> QED BY <2>2 DEF VscodeChange
<1>3. ASSUME NEW g, g.file.locator \notin places PROVE Vscode!Newest(K, g) <=> Vscode!Newest(L, g)
  <2>1. \A h : h.file.locator = g.file.locator => (h \in K <=> h \in L)
    BY <1>3 DEF VscodeChange
  <2> QED BY <2>1 DEF Vscode!Newest
<1>4. \A g \in K \cup L : \A r \in Vscode!FileRows[g.file] : g.file.valid
  BY <1>0, VscodeRowOf DEF VscodeReadings
<1>5. \A g, r : g.file.locator \notin places => VscodeCandidate(K, g, r) = VscodeCandidate(L, g, r)
  <2> TAKE g, r
  <2> HAVE g.file.locator \notin places
  <2>1. Vscode!Newest(K, g) = Vscode!Newest(L, g)
    <3>1. Vscode!Newest(K, g) <=> Vscode!Newest(L, g)
      BY <1>3
    <3> QED BY <3>1, Zenon DEF Vscode!Newest
  <2> QED BY <2>1, Zenon DEF VscodeCandidate
<1>6. \A c : c \in Vscode!Candidates(K, s) <=> c \in Vscode!Candidates(L, s)
  <2> TAKE c
  <2>1. ASSUME NEW g \in K, g.file.session = s, NEW r \in Vscode!FileRows[g.file], c = VscodeCandidate(K, g, r)
        PROVE  c \in Vscode!Candidates(L, s)
    <3>1. g \in L /\ c = VscodeCandidate(L, g, r)
      BY <1>2, <1>4, <1>5, <2>1
    <3> QED BY <2>1, <3>1, VscodeCandidates
  <2>2. ASSUME NEW g \in L, g.file.session = s, NEW r \in Vscode!FileRows[g.file], c = VscodeCandidate(L, g, r)
        PROVE  c \in Vscode!Candidates(K, s)
    <3>1. g \in K /\ c = VscodeCandidate(K, g, r)
      BY <1>1, <1>4, <1>5, <2>2
    <3> QED BY <2>2, <3>1, VscodeCandidates
  <2> QED BY <2>1, <2>2, VscodeCandidates
<1>7. \A t : t \in Vscode!Sources(K, s) <=> t \in Vscode!Sources(L, s)
  <2> TAKE t
  <2>1. ASSUME NEW g \in K, g.file.session = s, g.file.valid, Vscode!Newest(K, g), t = VscodeSource(g)
        PROVE  t \in Vscode!Sources(L, s)
    <3>1. g \in L /\ Vscode!Newest(L, g)
      BY <1>2, <1>3, <2>1
    <3> QED BY <2>1, <3>1, VscodeCandidates
  <2>2. ASSUME NEW g \in L, g.file.session = s, g.file.valid, Vscode!Newest(L, g), t = VscodeSource(g)
        PROVE  t \in Vscode!Sources(K, s)
    <3>1. g \in K /\ Vscode!Newest(K, g)
      BY <1>1, <1>3, <2>2
    <3> QED BY <2>2, <3>1, VscodeCandidates
  <2> QED BY <2>1, <2>2, VscodeCandidates
<1>8. Vscode!Candidates(K, s) = UNION {Vscode!Candidates(K, s)} /\ Vscode!Candidates(L, s) = UNION {Vscode!Candidates(L, s)}
  OBVIOUS
<1>9. Vscode!Candidates(K, s) = Vscode!Candidates(L, s)
  BY <1>6, <1>8
<1>10. Vscode!Sources(K, s) = Vscode!Sources(L, s)
  BY <1>7, Zenon DEF Vscode!Sources
<1> QED BY <1>9, <1>10

(* Deciding part is deciding everything. *)
LEMMA VscodeMerge ==
  ASSUME Vscode!VscodeConstants, NEW K, NEW L, NEW scope, K \subseteq VscodeReadings, L \subseteq VscodeReadings,
         \A s : s \notin scope => /\ VscodeObserved(K, s) = VscodeObserved(L, s)
                                  /\ Vscode!Decided(K, s) = Vscode!Decided(L, s),
         NEW tokensToo \in BOOLEAN,
         NEW before, VscodeAll(before, K, Vscode!Sessions(K), tokensToo),
         NEW anew, VscodeAll(anew, L, scope, tokensToo),
         NEW all, VscodeAll(all, L, Vscode!Sessions(L), tokensToo)
  PROVE  Vscode!Merged(before, scope, anew) = all
<1> DEFINE D == {p \in DOMAIN before : p.session \notin scope} \cup DOMAIN anew
<1>1. Vscode!Merged(before, scope, anew) = [o \in D |-> IF o \in DOMAIN anew THEN anew[o] ELSE before[o]]
  BY Zenon DEF Vscode!Merged
<1>2. \A o \in DOMAIN all : o \in VscodeObserved(L, o.session) /\ (tokensToo \/ o.quantity # None)
  BY DEF VscodeAll
<1>3. \A X, s, o : X \subseteq VscodeReadings /\ o \in VscodeObserved(X, s) => s \in Vscode!Sessions(X)
  BY VscodeObservedIn
<1>4. \A o : o \in D <=> o \in DOMAIN all
  <2> TAKE o
  <2>1. o \in D <=> \/ o \in DOMAIN before /\ o.session \notin scope
                    \/ o \in DOMAIN anew
    OBVIOUS
  <2>2. o \in DOMAIN before <=> o.session \in Vscode!Sessions(K) /\ o \in VscodeObserved(K, o.session) /\ (tokensToo \/ o.quantity # None)
    BY DEF VscodeAll
  <2>3. o \in DOMAIN anew <=> o.session \in scope /\ o \in VscodeObserved(L, o.session) /\ (tokensToo \/ o.quantity # None)
    BY DEF VscodeAll
  <2>4. o \in DOMAIN all <=> o.session \in Vscode!Sessions(L) /\ o \in VscodeObserved(L, o.session) /\ (tokensToo \/ o.quantity # None)
    BY DEF VscodeAll
  <2>5. o.session \notin scope => VscodeObserved(K, o.session) = VscodeObserved(L, o.session)
    OBVIOUS
  <2> HIDE DEF D
  <2> QED BY <1>3, <2>1, <2>2, <2>3, <2>4, <2>5
<1>5. \A o \in DOMAIN all : (IF o \in DOMAIN anew THEN anew[o] ELSE before[o]) = all[o]
  <2> TAKE o \in DOMAIN all
  <2>1. all[o] = IF tokensToo THEN Vscode!Decided(L, o.session).tokens[o] ELSE Vscode!Decided(L, o.session).credits[o]
    BY DEF VscodeAll
  <2>2. CASE o \in DOMAIN anew
    <3>1. anew[o] = IF tokensToo THEN Vscode!Decided(L, o.session).tokens[o] ELSE Vscode!Decided(L, o.session).credits[o]
      BY <2>2 DEF VscodeAll
    <3> QED BY <2>1, <2>2, <3>1
  <2>3. CASE o \notin DOMAIN anew
    <3>1. o \in DOMAIN before /\ o.session \notin scope
      BY <1>4, <2>3
    <3>2. before[o] = IF tokensToo THEN Vscode!Decided(K, o.session).tokens[o] ELSE Vscode!Decided(K, o.session).credits[o]
      BY <3>1 DEF VscodeAll
    <3>3. Vscode!Decided(K, o.session) = Vscode!Decided(L, o.session)
      BY <3>1
    <3> QED BY <2>1, <2>3, <3>2, <3>3
  <2> QED BY <2>2, <2>3
<1>6. D = DOMAIN all
  BY <1>4
<1>7. all = [o \in DOMAIN all |-> all[o]]
  BY DEF VscodeAll
<1> HIDE DEF D
<1> QED BY <1>1, <1>5, <1>6, <1>7, Zenon

LEMMA VscodeScopeDecidesAll ==
  ASSUME Vscode!VscodeConstants, NEW K, NEW L, NEW places, VscodeChange(K, L, places), NEW scope, scope = Vscode!Affected(L, places)
  PROVE  /\ Vscode!Merged(Vscode!AllTokens(K, Vscode!Sessions(K)), scope, Vscode!AllTokens(L, scope)) = Vscode!AllTokens(L, Vscode!Sessions(L))
         /\ Vscode!Merged(Vscode!AllCredits(K, Vscode!Sessions(K)), scope, Vscode!AllCredits(L, scope)) = Vscode!AllCredits(L, Vscode!Sessions(L))
<1>0. K \subseteq VscodeReadings /\ L \subseteq VscodeReadings
  BY DEF VscodeChange
<1>1. \A s : s \notin scope => /\ VscodeObserved(K, s) = VscodeObserved(L, s)
                               /\ Vscode!Decided(K, s) = Vscode!Decided(L, s)
  <2> TAKE s
  <2> HAVE s \notin scope
  <2>1. Vscode!Candidates(K, s) = Vscode!Candidates(L, s) /\ Vscode!Sources(K, s) = Vscode!Sources(L, s)
    BY VscodeUntouched
  <2> QED BY <2>1, Zenon DEF VscodeObserved, Vscode!Decided
<1>2. /\ VscodeAll(Vscode!AllTokens(K, Vscode!Sessions(K)), K, Vscode!Sessions(K), TRUE) /\ VscodeAll(Vscode!AllCredits(K, Vscode!Sessions(K)), K, Vscode!Sessions(K), FALSE)
      /\ VscodeAll(Vscode!AllTokens(L, scope), L, scope, TRUE) /\ VscodeAll(Vscode!AllCredits(L, scope), L, scope, FALSE)
      /\ VscodeAll(Vscode!AllTokens(L, Vscode!Sessions(L)), L, Vscode!Sessions(L), TRUE) /\ VscodeAll(Vscode!AllCredits(L, Vscode!Sessions(L)), L, Vscode!Sessions(L), FALSE)
  BY <1>0, VscodeAlls
<1> DEFINE too == TRUE  nottoo == FALSE
<1>3. Vscode!Merged(Vscode!AllTokens(K, Vscode!Sessions(K)), scope, Vscode!AllTokens(L, scope)) = Vscode!AllTokens(L, Vscode!Sessions(L))
  <2>1. /\ VscodeAll(Vscode!AllTokens(K, Vscode!Sessions(K)), K, Vscode!Sessions(K), too) /\ VscodeAll(Vscode!AllTokens(L, scope), L, scope, too)
        /\ VscodeAll(Vscode!AllTokens(L, Vscode!Sessions(L)), L, Vscode!Sessions(L), too) /\ too \in BOOLEAN
    BY <1>2
  <2> HIDE DEF too
  <2> QED BY <1>0, <1>1, <2>1, VscodeMerge
<1>4. Vscode!Merged(Vscode!AllCredits(K, Vscode!Sessions(K)), scope, Vscode!AllCredits(L, scope)) = Vscode!AllCredits(L, Vscode!Sessions(L))
  <2>1. /\ VscodeAll(Vscode!AllCredits(K, Vscode!Sessions(K)), K, Vscode!Sessions(K), nottoo) /\ VscodeAll(Vscode!AllCredits(L, scope), L, scope, nottoo)
        /\ VscodeAll(Vscode!AllCredits(L, Vscode!Sessions(L)), L, Vscode!Sessions(L), nottoo) /\ nottoo \in BOOLEAN
    BY <1>2
  <2> HIDE DEF nottoo
  <2> QED BY <1>0, <1>1, <2>1, VscodeMerge
<1> QED BY <1>3, <1>4

-----------------------------------------------------------------------------
(* The invariant: the readings of a place are numbered from 0, and the decisions
   are those of reading everything anew. *)
VscodeAt(L, l) == {g \in L : g.file.locator = l}
VscodeFilled(L) ==
  \A l, n : n \in Nat /\ n < Cardinality(VscodeAt(L, l)) => \E g \in L : g.file.locator = l /\ g.number = n
VscodeBelow(L) == \A g \in L : g.number < Cardinality(VscodeAt(L, g.file.locator))
VscodeDistinct(L) == \A g, h \in L : g.file.locator = h.file.locator /\ g.number = h.number => g = h
VscodeNumbered(L) == VscodeFilled(L) /\ VscodeBelow(L) /\ VscodeDistinct(L)
VscodeInv == /\ read \subseteq VscodeReadings /\ IsFiniteSet(read) /\ Cardinality(read) <= MaxRead
             /\ VscodeNumbered(read) /\ Vscode!Incremental

LEMMA VscodeAtFinite ==
  ASSUME NEW L, IsFiniteSet(L)
  PROVE  \A l : IsFiniteSet(VscodeAt(L, l)) /\ Cardinality(VscodeAt(L, l)) \in Nat
<1> TAKE l
<1>1. VscodeAt(L, l) \in SUBSET L
  BY DEF VscodeAt
<1> QED BY <1>1, FS_Subset, FS_CardinalityType

(* What an import adds. *)
LEMMA VscodeBatch ==
  ASSUME Vscode!VscodeConstants, read \subseteq VscodeReadings, IsFiniteSet(read), VscodeNumbered(read), NEW b \in Vscode!Batches,
         NEW L, L = read \cup {Vscode!Generation(f) : f \in b}
  PROVE  VscodeChange(read, L, {f.locator : f \in b}) /\ VscodeNumbered(L)
<1> DEFINE num == [f \in b |-> Cardinality(VscodeAt(read, f.locator))]
           gen == [f \in b |-> Vscode!Generation(f)]
           new == {gen[f] : f \in b}
<1>1. b \subseteq VscodeFiles /\ \A f, g \in b : f.locator = g.locator => f = g
  BY DEF Vscode!Batches
<1>2. \A l : IsFiniteSet(VscodeAt(read, l)) /\ Cardinality(VscodeAt(read, l)) \in Nat
  BY VscodeAtFinite
<1>3. \A f \in b : gen[f] = [file |-> f, available |-> TRUE, number |-> num[f]] /\ num[f] = Cardinality(VscodeAt(read, f.locator))
  BY VscodeLibrary, Zenon DEF Vscode!Generation, VscodeAt
<1>4. L = read \cup new
  BY Zenon
<1> HIDE DEF gen, num
<1>5. \A f \in b : gen[f] \in VscodeReadings /\ gen[f].file = f /\ gen[f].number = Cardinality(VscodeAt(read, f.locator))
  <2> TAKE f \in b
  <2>1. num[f] \in Nat /\ f \in VscodeFiles
    BY <1>1, <1>2, <1>3
  <2>2. gen[f] = [file |-> f, available |-> TRUE, number |-> num[f]]
    BY <1>3
  <2>3. gen[f] \in VscodeReadings
    BY <2>1, <2>2 DEF VscodeReadings
  <2> QED BY <1>3, <2>2, <2>3
<1>6. \A g \in new : g \in VscodeReadings /\ g.file \in b /\ g.number = Cardinality(VscodeAt(read, g.file.locator))
  BY <1>5
<1>7. IsFiniteSet(L)
  <2>1. IsFiniteSet(b)
    BY <1>1, VscodeLibrary, FS_Subset DEF Vscode!VscodeConstants
  <2>2. IsFiniteSet(new)
    BY <2>1, FiniteImage
  <2> HIDE DEF new
  <2> QED BY <1>4, <2>2, FS_Union
<1>8. \A g, h \in new : g.file.locator = h.file.locator => g = h
  BY <1>1, <1>5
<1> HIDE DEF new
<1>9. VscodeChange(read, L, {f.locator : f \in b})
  <2>1. \A g : g.file.locator \notin {f.locator : f \in b} => (g \in read <=> g \in L)
    BY <1>4, <1>6
  <2> QED BY <1>4, <1>6, <1>7, <2>1 DEF VscodeChange
<1>10. \A g \in read : g.number < Cardinality(VscodeAt(read, g.file.locator)) /\ g.number \in Nat
  BY DEF VscodeNumbered, VscodeBelow, VscodeReadings
<1>11. \A g \in new : g \notin read
  <2> TAKE g \in new
  <2>1. ASSUME g \in read PROVE FALSE
    <3>1. g.number < Cardinality(VscodeAt(read, g.file.locator)) /\ g.number = Cardinality(VscodeAt(read, g.file.locator))
      BY <1>6, <1>10, <2>1
    <3> QED BY <1>2, <3>1
  <2> QED BY <2>1
<1>12. \A g \in new : Cardinality(VscodeAt(L, g.file.locator)) = Cardinality(VscodeAt(read, g.file.locator)) + 1
  <2> TAKE g \in new
  <2> DEFINE P == VscodeAt(read, g.file.locator)
  <2>1. VscodeAt(L, g.file.locator) = P \cup {g}
    BY <1>4, <1>8 DEF VscodeAt
  <2>2. g \notin P /\ IsFiniteSet(P)
    BY <1>2, <1>11 DEF VscodeAt
  <2> HIDE DEF P
  <2>3. Cardinality(P \cup {g}) = Cardinality(P) + 1
    BY <2>2, FS_AddElement
  <2> QED BY <2>1, <2>3 DEF P
<1>13. \A l : (\A g \in new : g.file.locator # l) => VscodeAt(L, l) = VscodeAt(read, l)
  BY <1>4 DEF VscodeAt
<1>14. ASSUME NEW l, NEW n \in Nat, n < Cardinality(VscodeAt(L, l))
       PROVE  \E g \in L : g.file.locator = l /\ g.number = n
  <2>1. CASE \A g \in new : g.file.locator # l
    <3>1. n < Cardinality(VscodeAt(read, l))
      BY <1>13, <1>14, <2>1
    <3> QED BY <1>4, <3>1 DEF VscodeNumbered, VscodeFilled
  <2>2. ASSUME NEW g \in new, g.file.locator = l PROVE \E h \in L : h.file.locator = l /\ h.number = n
    <3>1. Cardinality(VscodeAt(L, l)) = g.number + 1 /\ g.number = Cardinality(VscodeAt(read, l)) /\ g.number \in Nat
      BY <1>2, <1>6, <1>12, <2>2
    <3>2. n = g.number \/ n < g.number
      BY <1>14, <3>1
    <3> QED BY <1>4, <2>2, <3>1, <3>2 DEF VscodeNumbered, VscodeFilled
  <2> QED BY <2>1, <2>2
<1>15. ASSUME NEW g \in L PROVE g.number < Cardinality(VscodeAt(L, g.file.locator))
  <2>1. CASE g \in new
    <3>1. /\ g.number = Cardinality(VscodeAt(read, g.file.locator))
          /\ Cardinality(VscodeAt(L, g.file.locator)) = Cardinality(VscodeAt(read, g.file.locator)) + 1
          /\ Cardinality(VscodeAt(read, g.file.locator)) \in Nat
      BY <1>2, <1>6, <1>12, <2>1
    <3> QED BY <3>1
  <2>2. CASE g \in read
    <3>1. CASE \A h \in new : h.file.locator # g.file.locator
      BY <1>10, <1>13, <2>2, <3>1
    <3>2. ASSUME NEW h \in new, h.file.locator = g.file.locator PROVE g.number < Cardinality(VscodeAt(L, g.file.locator))
      <4>1. Cardinality(VscodeAt(L, g.file.locator)) = Cardinality(VscodeAt(read, g.file.locator)) + 1
        BY <1>12, <3>2
      <4> QED BY <1>2, <1>10, <2>2, <4>1
    <3> QED BY <3>1, <3>2
  <2> QED BY <1>4, <2>1, <2>2
<1>16. ASSUME NEW g \in L, NEW h \in L, g.file.locator = h.file.locator, g.number = h.number PROVE g = h
  <2>1. CASE g \in read /\ h \in read
    BY <1>16, <2>1 DEF VscodeNumbered, VscodeDistinct
  <2>2. ASSUME NEW x \in read, NEW y \in new, x.file.locator = y.file.locator, x.number = y.number PROVE FALSE
    <3>1. x.number < Cardinality(VscodeAt(read, x.file.locator)) /\ x.number = Cardinality(VscodeAt(read, x.file.locator))
      BY <1>6, <1>10, <2>2
    <3> QED BY <1>2, <3>1
  <2>3. CASE g \in new /\ h \in new
    BY <1>16, <1>8, <2>3
  <2> QED BY <1>4, <1>16, <2>1, <2>2, <2>3
<1>17. VscodeFilled(L)
  BY <1>14 DEF VscodeFilled
<1>18. VscodeBelow(L)
  BY <1>15 DEF VscodeBelow
<1>19. VscodeDistinct(L)
  BY <1>16 DEF VscodeDistinct
<1> QED BY <1>9, <1>17, <1>18, <1>19 DEF VscodeNumbered

(* What a disappearance leaves. *)
LEMMA VscodeMissing ==
  ASSUME read \subseteq VscodeReadings, IsFiniteSet(read), VscodeNumbered(read), NEW gone,
         NEW L, L = {IF g.file.locator \in gone THEN [g EXCEPT !.available = FALSE] ELSE g : g \in read}
  PROVE  VscodeChange(read, L, gone) /\ VscodeNumbered(L) /\ Cardinality(L) <= Cardinality(read)
<1> DEFINE m == [g \in read |-> IF g.file.locator \in gone THEN [g EXCEPT !.available = FALSE] ELSE g]
<1>1. L = {m[g] : g \in read}
  BY Zenon
<1>2. \A g \in read : /\ m[g] \in VscodeReadings /\ m[g].file = g.file /\ m[g].number = g.number
                      /\ g.file.locator \notin gone => m[g] = g
  BY DEF VscodeReadings
<1> HIDE DEF m
<1>3. IsFiniteSet(L) /\ Cardinality(L) <= Cardinality(read)
  BY <1>1, FiniteImage
<1>4. \A g, h \in read : m[g] = m[h] => g = h
  <2> TAKE g, h \in read
  <2>1. m[g] = m[h] => g.file = h.file /\ g.number = h.number
    BY <1>2
  <2> QED BY <2>1 DEF VscodeNumbered, VscodeDistinct
<1>5. VscodeChange(read, L, gone)
  <2>1. ASSUME NEW g, g.file.locator \notin gone PROVE g \in read <=> g \in L
    BY <1>1, <1>2, <2>1
  <2>2. \A g \in read : \E h \in L : h.file = g.file /\ h.number = g.number
    BY <1>1, <1>2
  <2> QED BY <1>1, <1>2, <1>3, <2>1, <2>2 DEF VscodeChange
<1>6. ASSUME NEW l PROVE Cardinality(VscodeAt(L, l)) = Cardinality(VscodeAt(read, l))
  <2> DEFINE R == VscodeAt(read, l)
             T == {m[h] : h \in R}
             f == [h \in R |-> m[h]]
  <2>1. VscodeAt(L, l) = T
    <3>1. \A h \in R : m[h] \in VscodeAt(L, l)
      BY <1>1, <1>2 DEF VscodeAt
    <3>2. \A k \in VscodeAt(L, l) : \E h \in R : k = m[h]
      BY <1>1, <1>2 DEF VscodeAt
    <3> QED BY <3>1, <3>2
  <2>2. R \subseteq read /\ IsFiniteSet(R)
    BY VscodeAtFinite DEF VscodeAt
  <2> HIDE DEF R
  <2>3. f \in Bijection(R, T)
    BY <1>4, <2>2 DEF Bijection, Injection, Surjection, IsInjective
  <2> HIDE DEF T, f
  <2>4. ExistsBijection(R, T)
    BY <2>3 DEF ExistsBijection
  <2>5. Cardinality(R) = Cardinality(T)
    BY <2>2, <2>4, FS_Bijection
  <2> QED BY <2>1, <2>5 DEF R
<1>7. VscodeBelow(L)
  <2> USE DEF VscodeBelow
  <2> TAKE g \in L
  <2>1. PICK h \in read : g = m[h]
    BY <1>1
  <2>2. g.number = h.number /\ g.file = h.file
    BY <1>2, <2>1
  <2>3. h.number < Cardinality(VscodeAt(read, h.file.locator))
    BY DEF VscodeNumbered, VscodeBelow
  <2> QED BY <1>6, <2>2, <2>3
<1>8. VscodeDistinct(L)
  <2>1. \A g, h \in read : g.file.locator = h.file.locator /\ g.number = h.number => g = h
    BY DEF VscodeNumbered, VscodeDistinct
  <2> QED BY <1>1, <1>2, <2>1 DEF VscodeDistinct
<1>9. VscodeFilled(L)
  <2> USE DEF VscodeFilled
  <2> TAKE l, n
  <2> HAVE n \in Nat /\ n < Cardinality(VscodeAt(L, l))
  <2>1. n < Cardinality(VscodeAt(read, l))
    BY <1>6
  <2>2. VscodeFilled(read)
    BY DEF VscodeNumbered
  <2>3. PICK g \in read : g.file.locator = l /\ g.number = n
    BY <2>1, <2>2
  <2> QED BY <1>1, <1>2, <2>3
<1> QED BY <1>3, <1>5, <1>7, <1>8, <1>9 DEF VscodeNumbered

LEMMA VscodeInit == ASSUME Vscode!VscodeConstants, Vscode!Init PROVE VscodeInv
<1>1. read = {} /\ tokens = [o \in {} |-> None] /\ credits = [o \in {} |-> None]
  BY DEF Vscode!Init
<1>2. IsFiniteSet(read) /\ read \subseteq VscodeReadings /\ Cardinality(read) <= MaxRead
  BY <1>1, FS_EmptySet DEF Vscode!VscodeConstants
<1>3. VscodeNumbered(read)
  <2>1. \A l : VscodeAt(read, l) = {}
    BY <1>1 DEF VscodeAt
  <2> QED BY <1>1, <2>1, FS_EmptySet DEF VscodeNumbered, VscodeFilled, VscodeBelow, VscodeDistinct
<1>4. Vscode!Sessions(read) = {}
  BY <1>1 DEF Vscode!Sessions
<1>5. \A d, too : VscodeAll(d, read, {}, too) => d = [o \in {} |-> None]
  <2> TAKE d, too
  <2> HAVE VscodeAll(d, read, {}, too)
  <2>1. DOMAIN d = {} /\ d = [o \in DOMAIN d |-> d[o]]
    BY DEF VscodeAll
  <2> QED BY <2>1
<1>6. Vscode!AllTokens(read, {}) = [o \in {} |-> None] /\ Vscode!AllCredits(read, {}) = [o \in {} |-> None]
  BY <1>2, <1>5, VscodeAlls, Zenon
<1> QED BY <1>1, <1>2, <1>3, <1>4, <1>6, Zenon DEF VscodeInv, Vscode!Incremental

LEMMA VscodeReconciled ==
  ASSUME Vscode!VscodeConstants, VscodeInv, NEW L, NEW places, VscodeChange(read, L, places), VscodeNumbered(L),
         Cardinality(L) <= MaxRead, read' = L, Vscode!Reconcile(L, places)
  PROVE  VscodeInv'
<1> DEFINE scope == Vscode!Affected(L, places)
<1>1. /\ tokens' = Vscode!Merged(tokens, scope, Vscode!AllTokens(L, scope))
      /\ credits' = Vscode!Merged(credits, scope, Vscode!AllCredits(L, scope))
  BY Zenon DEF Vscode!Reconcile
<1>2. tokens = Vscode!AllTokens(read, Vscode!Sessions(read)) /\ credits = Vscode!AllCredits(read, Vscode!Sessions(read))
  BY DEF VscodeInv, Vscode!Incremental
<1> HIDE DEF scope
<1>3. /\ Vscode!Merged(Vscode!AllTokens(read, Vscode!Sessions(read)), scope, Vscode!AllTokens(L, scope)) = Vscode!AllTokens(L, Vscode!Sessions(L))
      /\ Vscode!Merged(Vscode!AllCredits(read, Vscode!Sessions(read)), scope, Vscode!AllCredits(L, scope)) = Vscode!AllCredits(L, Vscode!Sessions(L))
  BY VscodeScopeDecidesAll DEF scope
<1>4. tokens' = Vscode!AllTokens(L, Vscode!Sessions(L)) /\ credits' = Vscode!AllCredits(L, Vscode!Sessions(L))
  BY <1>1, <1>2, <1>3, Zenon
<1>5. L \subseteq VscodeReadings /\ IsFiniteSet(L)
  BY DEF VscodeChange
<1>6. Vscode!Incremental'
  BY <1>4 DEF Vscode!Incremental
<1> QED BY <1>5, <1>6 DEF VscodeInv

LEMMA VscodeStep ==
  ASSUME Vscode!VscodeConstants, VscodeInv, [Vscode!Next]_Vscode!vars
  PROVE  VscodeInv'
<1>0. /\ read \subseteq VscodeReadings /\ IsFiniteSet(read) /\ VscodeNumbered(read)
      /\ Cardinality(read) <= MaxRead /\ Cardinality(read) \in Nat /\ MaxRead \in Nat
  BY FS_CardinalityType DEF VscodeInv, Vscode!VscodeConstants
<1>1. CASE UNCHANGED Vscode!vars
  BY <1>1 DEF Vscode!vars, VscodeInv, Vscode!Incremental
<1>2. ASSUME NEW b \in Vscode!Batches, Vscode!Import(b) PROVE VscodeInv'
  <2> DEFINE L == read \cup {Vscode!Generation(f) : f \in b}
             places == {f.locator : f \in b}
  <2>1. read' = L /\ Vscode!Reconcile(L, places) /\ Cardinality(L) <= MaxRead
    BY <1>2, VscodeLibrary, Zenon DEF Vscode!Import
  <2>2. VscodeChange(read, L, places) /\ VscodeNumbered(L)
    BY <1>0, VscodeBatch
  <2> HIDE DEF L, places
  <2> QED BY <2>1, <2>2, VscodeReconciled
<1>3. ASSUME NEW gone, Vscode!MarkMissing(gone) PROVE VscodeInv'
  <2> DEFINE L == {IF g.file.locator \in gone THEN [g EXCEPT !.available = FALSE] ELSE g : g \in read}
  <2>1. read' = L /\ Vscode!Reconcile(L, gone)
    BY <1>3, Zenon DEF Vscode!MarkMissing
  <2>2. L = {IF g.file.locator \in gone THEN [g EXCEPT !.available = FALSE] ELSE g : g \in read}
    BY Zenon
  <2> HIDE DEF L
  <2>3. VscodeChange(read, L, gone) /\ VscodeNumbered(L) /\ Cardinality(L) <= Cardinality(read)
    BY <1>0, <2>2, VscodeMissing
  <2>4. IsFiniteSet(L)
    BY <2>3 DEF VscodeChange
  <2>5. Cardinality(L) <= MaxRead
    BY <1>0, <2>3, <2>4, FS_CardinalityType
  <2> QED BY <2>1, <2>3, <2>5, VscodeReconciled
<1> QED BY <1>1, <1>2, <1>3 DEF Vscode!Next

LEMMA VscodeAlways == ASSUME Vscode!VscodeConstants PROVE Vscode!Spec => []VscodeInv
<1>1. VscodeInv /\ [Vscode!Next]_Vscode!vars => VscodeInv'
  BY VscodeStep
<1>2. Vscode!Init => VscodeInv
  BY VscodeInit
<1> QED BY <1>1, <1>2, PTL DEF Vscode!Spec

(* _reconcile_copilot_vscode decides again the sessions connected with the files
   of a transaction, and leaves the decisions that deciding every session would
   make: for any files, batches and disappearances. *)
THEOREM VscodeDecidedAsAll == ASSUME Vscode!VscodeConstants PROVE Vscode!Spec => []Vscode!Incremental
<1>1. VscodeInv => Vscode!Incremental
  BY DEF VscodeInv
<1> QED BY <1>1, VscodeAlways, PTL

-----------------------------------------------------------------------------
(* Of rows and files by rank there is a first. *)
LEMMA VscodeBeforeRow ==
  ASSUME NEW a \in Nat, NEW b \in Nat, NEW c \in Nat, NEW x \in Nat, NEW y \in Nat, NEW z \in Nat
  PROVE  Vscode!Before(<<a, b, c>>, <<x, y, z>>) <=> a < x \/ (a = x /\ b < y) \/ (a = x /\ b = y /\ c < z)
<1> DEFINE s == <<a, b, c>>  t == <<x, y, z>>
<1>1. /\ DOMAIN s = 1 .. 3 /\ s[1] = a /\ s[2] = b /\ s[3] = c
      /\ t[1] = x /\ t[2] = y /\ t[3] = z
  OBVIOUS
<1> HIDE DEF s, t
<1>2. Vscode!Before(s, t) <=> \E k \in 1 .. 3 : s[k] < t[k] /\ \A j \in 1 .. k - 1 : s[j] = t[j]
  BY <1>1 DEF Vscode!Before
<1>3. \A k : k \in 1 .. 3 <=> k = 1 \/ k = 2 \/ k = 3
  OBVIOUS
<1>4. (\A j : j \notin 1 .. 1 - 1) /\ (\A j : j \in 1 .. 2 - 1 <=> j = 1) /\ (\A j : j \in 1 .. 3 - 1 <=> j = 1 \/ j = 2)
  OBVIOUS
<1>5. Vscode!Before(s, t) <=> \/ s[1] < t[1]
                              \/ s[2] < t[2] /\ s[1] = t[1]
                              \/ s[3] < t[3] /\ s[1] = t[1] /\ s[2] = t[2]
  BY <1>2, <1>3, <1>4
<1>6. Vscode!Before(s, t) <=> a < x \/ (a = x /\ b < y) \/ (a = x /\ b = y /\ c < z)
  BY <1>1, <1>5
<1> QED BY <1>6 DEF s, t

LEMMA VscodeBeforeFile ==
  ASSUME NEW a \in Nat, NEW b \in Nat, NEW x \in Nat, NEW y \in Nat
  PROVE  Vscode!Before(<<a, b>>, <<x, y>>) <=> a < x \/ (a = x /\ b < y)
<1> DEFINE s == <<a, b>>  t == <<x, y>>
<1>1. /\ DOMAIN s = 1 .. 2 /\ s[1] = a /\ s[2] = b
      /\ t[1] = x /\ t[2] = y
  OBVIOUS
<1> HIDE DEF s, t
<1>2. Vscode!Before(s, t) <=> \E k \in 1 .. 2 : s[k] < t[k] /\ \A j \in 1 .. k - 1 : s[j] = t[j]
  BY <1>1 DEF Vscode!Before
<1>3. \A k : k \in 1 .. 2 <=> k = 1 \/ k = 2
  OBVIOUS
<1>4. (\A j : j \notin 1 .. 1 - 1) /\ (\A j : j \in 1 .. 2 - 1 <=> j = 1)
  OBVIOUS
<1>5. Vscode!Before(s, t) <=> \/ s[1] < t[1]
                              \/ s[2] < t[2] /\ s[1] = t[1]
  BY <1>2, <1>3, <1>4
<1>6. Vscode!Before(s, t) <=> a < x \/ (a = x /\ b < y)
  BY <1>1, <1>5
<1> QED BY <1>6 DEF s, t

VscodeRank(x) == \E a, b, c \in Nat : x.rank = <<a, b, c>>
VscodeIsFirst(X, x) == x \in X /\ \A y \in X : ~Vscode!Before(y.rank, x.rank)
LEMMA VscodeFirst ==
  ASSUME NEW X, X # {}, \A x \in X : VscodeRank(x)
  PROVE  VscodeIsFirst(X, Vscode!First(X))
<1> DEFINE part == [x \in X |-> CHOOSE t \in Nat \X (Nat \X Nat) : x.rank = <<t[1], t[2][1], t[2][2]>>]
           a == [x \in X |-> part[x][1]]
           b == [x \in X |-> part[x][2][1]]
           c == [x \in X |-> part[x][2][2]]
<1>1. \A x \in X : a[x] \in Nat /\ b[x] \in Nat /\ c[x] \in Nat /\ x.rank = <<a[x], b[x], c[x]>>
  <2> TAKE x \in X
  <2>1. \E t \in Nat \X (Nat \X Nat) : x.rank = <<t[1], t[2][1], t[2][2]>>
    <3>1. PICK i \in Nat, j \in Nat, k \in Nat : x.rank = <<i, j, k>>
      BY DEF VscodeRank
    <3> DEFINE t == <<i, <<j, k>>>>
    <3>2. t \in Nat \X (Nat \X Nat) /\ t[1] = i /\ t[2][1] = j /\ t[2][2] = k
      OBVIOUS
    <3> HIDE DEF t
    <3> QED BY <3>1, <3>2
  <2>2. part[x] \in Nat \X (Nat \X Nat) /\ x.rank = <<part[x][1], part[x][2][1], part[x][2][2]>>
    BY <2>1
  <2> HIDE DEF part
  <2>3. part[x][1] \in Nat /\ part[x][2][1] \in Nat /\ part[x][2][2] \in Nat
    BY <2>2
  <2> QED BY <2>2, <2>3
<1> HIDE DEF a, b, c
<1>2. PICK p \in X : \A y \in X : a[p] <= a[y]
  <2> DEFINE T == {a[x] : x \in X}
  <2>1. T \subseteq Nat /\ T # {}
    BY <1>1
  <2>2. PICK n \in T : \A m \in T : n <= m
    <3> HIDE DEF T
    <3> QED BY <2>1, LeastNumber
  <2> QED BY <2>2
<1>3. PICK q \in {x \in X : a[x] = a[p]} : \A y \in {x \in X : a[x] = a[p]} : b[q] <= b[y]
  <2> DEFINE Y == {x \in X : a[x] = a[p]}
             T == {b[x] : x \in Y}
  <2>1. T \subseteq Nat /\ T # {}
    BY <1>1
  <2>2. PICK n \in T : \A m \in T : n <= m
    <3> HIDE DEF T
    <3> QED BY <2>1, LeastNumber
  <2> QED BY <2>2
<1>4. PICK r \in {x \in X : a[x] = a[p] /\ b[x] = b[q]} : \A y \in {x \in X : a[x] = a[p] /\ b[x] = b[q]} : c[r] <= c[y]
  <2> DEFINE Y == {x \in X : a[x] = a[p] /\ b[x] = b[q]}
             T == {c[x] : x \in Y}
  <2>1. T \subseteq Nat /\ T # {}
    BY <1>1, <1>3
  <2>2. PICK n \in T : \A m \in T : n <= m
    <3> HIDE DEF T
    <3> QED BY <2>1, LeastNumber
  <2> QED BY <2>2
<1>5. \A y \in X : ~Vscode!Before(y.rank, r.rank)
  <2> TAKE y \in X
  <2>1. Vscode!Before(y.rank, r.rank) <=> a[y] < a[r] \/ (a[y] = a[r] /\ b[y] < b[r]) \/ (a[y] = a[r] /\ b[y] = b[r] /\ c[y] < c[r])
    <3> DEFINE i == a[y]  j == b[y]  k == c[y]  l == a[r]  m == b[r]  n == c[r]
    <3>1. i \in Nat /\ j \in Nat /\ k \in Nat /\ l \in Nat /\ m \in Nat /\ n \in Nat
          /\ y.rank = <<i, j, k>> /\ r.rank = <<l, m, n>>
      BY <1>1, <1>4
    <3> HIDE DEF i, j, k, l, m, n
    <3>2. Vscode!Before(<<i, j, k>>, <<l, m, n>>) <=> i < l \/ (i = l /\ j < m) \/ (i = l /\ j = m /\ k < n)
      BY <3>1, VscodeBeforeRow
    <3> QED BY <3>1, <3>2 DEF i, j, k, l, m, n
  <2>2. a[r] = a[p] /\ b[r] = b[q] /\ r \in X /\ q \in X
    BY <1>3, <1>4
  <2>3. a[r] <= a[y] /\ (a[y] = a[r] => b[r] <= b[y]) /\ (a[y] = a[r] /\ b[y] = b[r] => c[r] <= c[y])
    BY <1>2, <1>3, <1>4, <2>2
  <2> QED BY <1>1, <2>1, <2>2, <2>3
<1>6. \E x \in X : \A y \in X : ~Vscode!Before(y.rank, x.rank)
  BY <1>4, <1>5
<1> QED BY <1>6, Zenon DEF Vscode!First, VscodeIsFirst

VscodePair(x) == \E a, b \in Nat : x.rank = <<a, b>>
LEMMA VscodeFirstSource ==
  ASSUME NEW X, X # {}, \A x \in X : VscodePair(x)
  PROVE  VscodeIsFirst(X, Vscode!First(X)) /\ \A x \in X : (\A y \in X : ~Vscode!Before(y.rank, x.rank)) => x.rank = Vscode!First(X).rank
<1> DEFINE part == [x \in X |-> CHOOSE t \in Nat \X Nat : x.rank = <<t[1], t[2]>>]
           a == [x \in X |-> part[x][1]]
           b == [x \in X |-> part[x][2]]
<1>1. \A x \in X : a[x] \in Nat /\ b[x] \in Nat /\ x.rank = <<a[x], b[x]>>
  <2> TAKE x \in X
  <2>1. \E t \in Nat \X Nat : x.rank = <<t[1], t[2]>>
    <3>1. PICK i \in Nat, j \in Nat : x.rank = <<i, j>>
      BY DEF VscodePair
    <3> DEFINE t == <<i, j>>
    <3>2. t \in Nat \X Nat /\ t[1] = i /\ t[2] = j
      OBVIOUS
    <3> HIDE DEF t
    <3> QED BY <3>1, <3>2
  <2>2. part[x] \in Nat \X Nat /\ x.rank = <<part[x][1], part[x][2]>>
    BY <2>1
  <2> HIDE DEF part
  <2> QED BY <2>2
<1> HIDE DEF a, b
<1>2. PICK p \in X : \A y \in X : a[p] <= a[y]
  <2> DEFINE T == {a[x] : x \in X}
  <2>1. T \subseteq Nat /\ T # {}
    BY <1>1
  <2>2. PICK n \in T : \A m \in T : n <= m
    <3> HIDE DEF T
    <3> QED BY <2>1, LeastNumber
  <2> QED BY <2>2
<1>3. PICK q \in {x \in X : a[x] = a[p]} : \A y \in {x \in X : a[x] = a[p]} : b[q] <= b[y]
  <2> DEFINE Y == {x \in X : a[x] = a[p]}
             T == {b[x] : x \in Y}
  <2>1. T \subseteq Nat /\ T # {}
    BY <1>1
  <2>2. PICK n \in T : \A m \in T : n <= m
    <3> HIDE DEF T
    <3> QED BY <2>1, LeastNumber
  <2> QED BY <2>2
<1>4. \A x, y \in X : Vscode!Before(y.rank, x.rank) <=> a[y] < a[x] \/ (a[y] = a[x] /\ b[y] < b[x])
  <2> TAKE x, y \in X
  <2> DEFINE i == a[y]  j == b[y]  l == a[x]  m == b[x]
  <2>1. i \in Nat /\ j \in Nat /\ l \in Nat /\ m \in Nat /\ y.rank = <<i, j>> /\ x.rank = <<l, m>>
    BY <1>1
  <2> HIDE DEF i, j, l, m
  <2>2. Vscode!Before(<<i, j>>, <<l, m>>) <=> i < l \/ (i = l /\ j < m)
    BY <2>1, VscodeBeforeFile
  <2> QED BY <2>1, <2>2 DEF i, j, l, m
<1>5. \A y \in X : ~Vscode!Before(y.rank, q.rank)
  BY <1>1, <1>2, <1>3, <1>4
<1>6. \E x \in X : \A y \in X : ~Vscode!Before(y.rank, x.rank)
  BY <1>3, <1>5
<1>7. VscodeIsFirst(X, Vscode!First(X))
  BY <1>6, Zenon DEF Vscode!First, VscodeIsFirst
<1>8. ASSUME NEW x \in X, NEW y \in X, ~Vscode!Before(y.rank, x.rank), ~Vscode!Before(x.rank, y.rank) PROVE x.rank = y.rank
  <2>1. a[x] = a[y] /\ b[x] = b[y]
    BY <1>1, <1>4, <1>8
  <2> QED BY <1>1, <2>1
<1> QED BY <1>7, <1>8 DEF VscodeIsFirst

-----------------------------------------------------------------------------
(* A session as reconcile_copilot_vscode sees it: its candidates and sources,
   the rows of its canonical file and what stands for each row. *)
VscodeC(s) == Vscode!Candidates(read, s)
VscodeS(s) == Vscode!Sources(read, s)
VscodeR(s) == IF Vscode!Settled(VscodeC(s), VscodeS(s)) THEN Vscode!Canonical(VscodeC(s), VscodeS(s)) ELSE {}
VscodeA(s) == Vscode!Alternate(VscodeC(s), VscodeR(s))

LEMMA VscodeDecidedAre ==
  ASSUME NEW s
  PROVE  /\ Vscode!Decided(read, s).tokens = Vscode!Covered(VscodeC(s), VscodeA(s))
         /\ Vscode!Decided(read, s).credits = Vscode!Credits(VscodeC(s), VscodeR(s), VscodeA(s))
<1>1. Vscode!Decided(read, s) = [tokens |-> Vscode!Covered(VscodeC(s), VscodeA(s)), credits |-> Vscode!Credits(VscodeC(s), VscodeR(s), VscodeA(s))]
  BY Zenon DEF Vscode!Decided, VscodeC, VscodeS, VscodeR, VscodeA
<1> QED BY <1>1

VscodeOf(g, c) ==
  /\ g \in read /\ g.file \in VscodeFiles /\ g.file.valid /\ c.row \in Vscode!FileRows[g.file] /\ c.source = Vscode!Source(g)
  /\ c.current <=> Vscode!Newest(read, g)
  /\ c.there <=> g.available
VscodeObserves(c) ==
  /\ VscodeRank(c) /\ Vscode!Observation(c) = Vscode!Facts(c.row) /\ Vscode!Observation(c) # None
  /\ \A x \in VscodeFields : Vscode!Observation(c)[x] = c.row[x]
  /\ c.row.ordinal \in Nat /\ c.row.kind \in VscodeKinds
  /\ c.row.kind # "model_totals" => c.row.model = None
  /\ c.row.kind = "session_control" =>
       /\ c.row.reason = None => c.row.quantity = "known"
       /\ c.row.quantity = "known" => c.row.amount \in Nat
VscodeReadIs ==
  /\ read \subseteq VscodeReadings /\ IsFiniteSet(read)
  /\ \A g, h \in read : Vscode!Source(g) = Vscode!Source(h) => g = h

LEMMA VscodeReadIsOf == ASSUME VscodeInv PROVE VscodeReadIs
<1>1. \A g, h \in read : g.file.locator = h.file.locator /\ g.number = h.number => g = h
  BY DEF VscodeInv, VscodeNumbered, VscodeDistinct
<1>2. \A a, b, c, d : <<a, b>> = <<c, d>> => a = c /\ b = d
  OBVIOUS
<1>3. \A g, h \in read : Vscode!Source(g) = Vscode!Source(h) => g = h
  <2> TAKE g, h \in read
  <2> HAVE Vscode!Source(g) = Vscode!Source(h)
  <2>1. <<g.file.locator, g.number>> = <<h.file.locator, h.number>>
    BY Zenon DEF Vscode!Source
  <2>2. g.file.locator = h.file.locator /\ g.number = h.number
    BY <1>2, <2>1, Zenon
  <2> QED BY <1>1, <2>2
<1> QED BY <1>3 DEF VscodeInv, VscodeReadIs

LEMMA VscodeRowIs ==
  ASSUME Vscode!VscodeConstants, VscodeReadIs, NEW g \in read, NEW r \in Vscode!FileRows[g.file], NEW c, c = VscodeCandidate(read, g, r)
  PROVE  VscodeOf(g, c) /\ c.row = r /\ VscodeObserves(c)
<1> DEFINE f == g.file
<1>0. f \in VscodeFiles
  BY DEF VscodeReadIs, VscodeReadings
<1>1. /\ c.source = Vscode!Source(g) /\ (c.current <=> Vscode!Newest(read, g)) /\ (c.there <=> g.available)
      /\ c.rank = <<IF g.file.flat THEN 1 ELSE 0, g.file.place, r.line>> /\ c.row = r
  <2> DEFINE current == Vscode!Newest(read, g)
  <2>1. c = [source |-> Vscode!Source(g), current |-> current, there |-> g.available,
             rank |-> <<IF g.file.flat THEN 1 ELSE 0, g.file.place, r.line>>, row |-> r]
    BY Zenon DEF VscodeCandidate
  <2> HIDE DEF current
  <2>2. /\ c.source = Vscode!Source(g) /\ c.current = current /\ c.there = g.available
        /\ c.rank = <<IF g.file.flat THEN 1 ELSE 0, g.file.place, r.line>> /\ c.row = r
    BY <2>1
  <2> QED BY <2>2 DEF current
<1>2. f.valid /\ VscodeIsRow(f, r.ordinal, r) /\ r.ordinal \in Nat /\ r.line \in Nat /\ Vscode!Facts(r) # None
      /\ DOMAIN Vscode!Facts(r) = VscodeFields /\ \A x \in VscodeFields : Vscode!Facts(r)[x] = r[x]
  BY <1>0, VscodeRowOf
<1>3. VscodeRank(c)
  <2>1. f.place \in Nat /\ r.line \in Nat
    BY <1>0, <1>2 DEF Vscode!VscodeConstants
  <2> DEFINE i == IF g.file.flat THEN 1 ELSE 0
  <2>2. i \in Nat
    OBVIOUS
  <2>3. c.rank = <<i, f.place, r.line>>
    BY <1>1
  <2> HIDE DEF i
  <2> QED BY <2>1, <2>2, <2>3 DEF VscodeRank
<1>4. Vscode!Observation(c) = Vscode!Facts(c.row)
  BY DEF Vscode!Observation
<1>5. r.kind = "session_control" =>
       /\ r.reason = None => r.quantity = "known"
       /\ r.quantity = "known" => r.amount \in Nat
  <2> HAVE r.kind = "session_control"
  <2> DEFINE v == f.requests[r.ordinal].control
  <2>1. v # None /\ r.quantity = Vscode!Quantity(v) /\ r.amount = Vscode!Number(v) /\ (r.reason = None => v # Invalid)
    BY <1>2 DEF VscodeIsRow
  <2>2. v \in Nat \cup {None, Invalid}
    <3>1. r.ordinal \in DOMAIN f.requests
      BY <1>0, VscodeReadRows DEF VscodeRowsRead, Vscode!FileRows
    <3> QED BY <1>0, <3>1 DEF Vscode!VscodeConstants
  <2> HIDE DEF v
  <2> QED BY <2>1, <2>2 DEF Vscode!Quantity, Vscode!Number
<1>6. VscodeOf(g, c)
  BY <1>0, <1>1, <1>2 DEF VscodeOf
<1>7. VscodeObserves(c)
  BY <1>1, <1>2, <1>3, <1>4, <1>5 DEF VscodeObserves, VscodeIsRow
<1> QED BY <1>1, <1>6, <1>7

LEMMA VscodeCandidateIs ==
  ASSUME Vscode!VscodeConstants, VscodeReadIs, NEW s, NEW c \in VscodeC(s)
  PROVE  VscodeObserves(c) /\ c.row.session = s /\ \E g \in read : g.file.session = s /\ VscodeOf(g, c)
<1>1. PICK g \in read : g.file.session = s /\ \E r \in Vscode!FileRows[g.file] : c = VscodeCandidate(read, g, r)
  BY VscodeCandidates DEF VscodeC
<1>2. PICK r \in Vscode!FileRows[g.file] : c = VscodeCandidate(read, g, r)
  BY <1>1
<1>3. VscodeOf(g, c) /\ c.row = r /\ VscodeObserves(c)
  BY <1>2, VscodeRowIs
<1>4. r.session = s
  BY <1>1, <1>3, VscodeRowOf DEF VscodeOf, VscodeIsRow, VscodeShape
<1> QED BY <1>1, <1>3, <1>4

LEMMA VscodeFiniteCandidates ==
  ASSUME Vscode!VscodeConstants, VscodeReadIs, NEW s
  PROVE  IsFiniteSet(VscodeC(s))
<1> DEFINE G == {h \in read : h.file.session = s}
           told == [g \in G |-> Vscode!Sourced(read, g)]
<1>1. ASSUME NEW g \in G PROVE IsFiniteSet(told[g])
  <2> DEFINE R == Vscode!FileRows[g.file]
             row == [r \in R |-> VscodeCandidate(read, g, r)]
  <2>1. g.file \in VscodeFiles
    BY DEF VscodeReadIs, VscodeReadings
  <2>2. IsFiniteSet(R)
    BY <2>1, VscodeReadRows DEF Vscode!FileRows, VscodeRowsRead
  <2>3. told[g] = {row[r] : r \in R}
    BY Zenon DEF Vscode!Sourced, VscodeCandidate
  <2> HIDE DEF R, row, told
  <2> QED BY <2>2, <2>3, FiniteImage
<1>2. VscodeC(s) = UNION {told[g] : g \in G}
  BY Zenon DEF Vscode!Candidates, VscodeC
<1>3. IsFiniteSet(G)
  <2>1. G \in SUBSET read
    OBVIOUS
  <2> HIDE DEF G
  <2> QED BY <2>1, FS_Subset DEF VscodeReadIs
<1> HIDE DEF told, G
<1> QED BY <1>1, <1>2, <1>3, FiniteUnion

(* The files that tell of a session. *)
VscodeTells(s, g) ==
  /\ g \in read /\ g.file.session = s /\ g.file.valid /\ Vscode!Newest(read, g)
  /\ g.available \/ \A h \in read : h.file.session = s /\ h.file.valid /\ Vscode!Newest(read, h) => ~h.available
LEMMA VscodePreferred ==
  ASSUME NEW X
  PROVE  \A x : x \in Vscode!Preferred(X) <=> x \in X /\ (x.there \/ \A y \in X : ~y.there)
<1> DEFINE there == {x \in X : x.there}
<1>1. Vscode!Preferred(X) = IF there = {} THEN X ELSE there
  BY Zenon DEF Vscode!Preferred
<1> QED BY <1>1

LEMMA VscodeTellersAre ==
  ASSUME NEW s
  PROVE  /\ \A t : t \in Vscode!Tellers(s) <=> \E g : VscodeTells(s, g) /\ t = [there |-> g.available, file |-> g.file]
         /\ \A x : x \in Vscode!Preferred(VscodeS(s)) <=> \E g : VscodeTells(s, g) /\ x = VscodeSource(g)
<1> DEFINE G == {h \in read : h.file.session = s /\ h.file.valid /\ Vscode!Newest(read, h)}
           T == {[there |-> g.available, file |-> g.file] : g \in G}
<1>1. \A g : VscodeTells(s, g) <=> g \in G /\ (g.available \/ \A h \in G : ~h.available)
  BY DEF VscodeTells
<1>2. Vscode!Tellers(s) = Vscode!Preferred(T)
  BY Zenon DEF Vscode!Tellers
<1>3. \A t : t \in T <=> \E g \in G : t = [there |-> g.available, file |-> g.file]
  BY Zenon
<1>4. \A x : x \in VscodeS(s) <=> \E g \in G : x = VscodeSource(g)
  BY VscodeCandidates DEF VscodeS
<1> HIDE DEF G, T
<1>5. \A t : t \in Vscode!Tellers(s) <=> t \in T /\ (t.there \/ \A y \in T : ~y.there)
  BY <1>2, VscodePreferred
<1>6. (\A y \in T : ~y.there) <=> \A h \in G : ~h.available
  <2> DEFINE teller(h) == [there |-> h.available, file |-> h.file]
  <2>1. \A h \in G : teller(h) \in T
    BY <1>3, Zenon
  <2>2. \A h : teller(h).there = h.available
    OBVIOUS
  <2>3. \A y \in T : \E h \in G : y = teller(h)
    BY <1>3, Zenon
  <2> HIDE DEF teller
  <2> QED BY <2>1, <2>2, <2>3
<1>7. \A t : t \in Vscode!Tellers(s) <=> \E g : VscodeTells(s, g) /\ t = [there |-> g.available, file |-> g.file]
  BY <1>1, <1>3, <1>5, <1>6
<1>8. \A x : x \in Vscode!Preferred(VscodeS(s)) <=> x \in VscodeS(s) /\ (x.there \/ \A y \in VscodeS(s) : ~y.there)
  BY VscodePreferred
<1>9. \A g : VscodeSource(g).there = g.available
  BY DEF VscodeSource
<1>10. (\A y \in VscodeS(s) : ~y.there) <=> \A h \in G : ~h.available
  BY <1>4, <1>9
<1>11. \A x : x \in Vscode!Preferred(VscodeS(s)) <=> \E g : VscodeTells(s, g) /\ x = VscodeSource(g)
  BY <1>1, <1>4, <1>8, <1>9, <1>10
<1> QED BY <1>7, <1>11

LEMMA VscodeActive ==
  ASSUME Vscode!VscodeConstants, VscodeReadIs, NEW s
  PROVE  /\ Vscode!ActiveRows(VscodeC(s)) \subseteq VscodeC(s)
         /\ \A g : VscodeTells(s, g) => \A r \in Vscode!FileRows[g.file] : VscodeCandidate(read, g, r) \in Vscode!ActiveRows(VscodeC(s))
<1> DEFINE C == VscodeC(s)
           now == {c \in C : c.current}
<1>1. Vscode!ActiveRows(C) = IF Vscode!Preferred(now) = {} THEN C ELSE Vscode!Preferred(now)
  BY Zenon DEF Vscode!ActiveRows
<1>2. \A x : x \in Vscode!Preferred(now) <=> x \in now /\ (x.there \/ \A y \in now : ~y.there)
  BY VscodePreferred
<1>3. ASSUME NEW g, VscodeTells(s, g), NEW r \in Vscode!FileRows[g.file]
      PROVE  VscodeCandidate(read, g, r) \in Vscode!Preferred(now)
  <2> DEFINE c == VscodeCandidate(read, g, r)
  <2>1. c \in C
    BY <1>3, VscodeCandidates DEF VscodeTells, VscodeC
  <2>2. (c.current <=> Vscode!Newest(read, g)) /\ (c.there <=> g.available)
    BY <1>3, VscodeRowIs DEF VscodeTells, VscodeOf
  <2>3. c \in now
    BY <1>3, <2>1, <2>2 DEF VscodeTells
  <2>4. ASSUME NEW y \in now, y.there PROVE g.available
    <3>1. PICK h \in read : h.file.session = s /\ VscodeOf(h, y)
      BY VscodeCandidateIs
    <3> QED BY <1>3, <2>4, <3>1 DEF VscodeTells, VscodeOf
  <2> HIDE DEF now, c
  <2> QED BY <1>2, <2>2, <2>3, <2>4 DEF c
<1> QED BY <1>1, <1>2, <1>3

(* The canonical file is the first of them, and every other tells what it tells. *)
VscodeCanon(s, g) ==
  /\ VscodeTells(s, g) /\ \A h : VscodeTells(s, h) => ~Vscode!Before(VscodeSource(h).rank, VscodeSource(g).rank)
  /\ \A c \in VscodeR(s) : VscodeOf(g, c) /\ c \in VscodeC(s)
  /\ \A r \in Vscode!FileRows[g.file] : VscodeCandidate(read, g, r) \in VscodeR(s)
VscodeAgreed(s, h) ==
  /\ \A c \in VscodeR(s) : \E q \in Vscode!FileRows[h.file] : Vscode!Facts(q) = Vscode!Observation(c)
  /\ \A q \in Vscode!FileRows[h.file] : \E c \in VscodeR(s) : Vscode!Observation(c) = Vscode!Facts(q)
LEMMA VscodeSettled ==
  ASSUME Vscode!VscodeConstants, VscodeReadIs, NEW s, VscodeR(s) # {}
  PROVE  (\E g : VscodeCanon(s, g)) /\ \A h : VscodeTells(s, h) => VscodeAgreed(s, h)
<1> DEFINE C == VscodeC(s)
           S == VscodeS(s)
           A == Vscode!ActiveRows(C)
           P == Vscode!Preferred(S)
           source == IF S = {} THEN Vscode!First(A).source ELSE Vscode!First(P).source
           sources == {c.source : c \in A} \cup {t.source : t \in P}
<1>1. Vscode!Settled(C, S) /\ VscodeR(s) = {c \in A : c.source = source}
  BY Zenon DEF VscodeR, Vscode!Canonical
<1>2. /\ S # {} \/ \E c \in C : c.current
      /\ \A x, y \in sources : Vscode!Signature(A, x) = Vscode!Signature(A, y)
  <2>1. (S # {} \/ \E c \in C : c.current) /\ Vscode!Agree(A, S)
    BY <1>1, Zenon DEF Vscode!Settled
  <2> QED BY <2>1, Zenon DEF Vscode!Agree
<1>3. \A x, c : c \in A /\ x = c.source => x \in sources
  OBVIOUS
<1>4. \A x, t : t \in P /\ x = t.source => x \in sources
  OBVIOUS
<1> HIDE DEF A, P, sources
<1>5. A \subseteq C /\ \A g : VscodeTells(s, g) => \A r \in Vscode!FileRows[g.file] : VscodeCandidate(read, g, r) \in A
  BY VscodeActive DEF A
<1>6. \A x : x \in P <=> \E g : VscodeTells(s, g) /\ x = VscodeSource(g)
  BY VscodeTellersAre DEF P
<1>7. S # {}
  <2>1. ASSUME NEW c \in C, c.current PROVE S # {}
    <3>1. PICK g \in read : g.file.session = s /\ VscodeOf(g, c)
      BY VscodeCandidateIs
    <3>2. VscodeSource(g) \in S
      BY <2>1, <3>1, VscodeCandidates DEF VscodeOf, VscodeS
    <3> QED BY <3>2
  <2> QED BY <1>2, <2>1
<1>8. P # {}
  <2>1. \A x : x \in P <=> x \in S /\ (x.there \/ \A y \in S : ~y.there)
    BY VscodePreferred DEF P
  <2> HIDE DEF S
  <2> QED BY <1>7, <2>1
<1>9. \A x \in P : VscodePair(x)
  <2> TAKE x \in P
  <2>1. PICK g : VscodeTells(s, g) /\ x = VscodeSource(g)
    BY <1>6
  <2> DEFINE i == IF g.file.flat THEN 1 ELSE 0
  <2>2. g.file.place \in Nat
    BY <2>1 DEF VscodeTells, VscodeReadIs, VscodeReadings, Vscode!VscodeConstants
  <2>3. i \in Nat
    OBVIOUS
  <2>4. x.rank = <<i, g.file.place>>
    BY <2>1 DEF VscodeSource
  <2> HIDE DEF i
  <2> QED BY <2>2, <2>3, <2>4 DEF VscodePair
<1>10. VscodeIsFirst(P, Vscode!First(P))
  BY <1>8, <1>9, VscodeFirstSource
<1>11. PICK g : VscodeTells(s, g) /\ Vscode!First(P) = VscodeSource(g)
  BY <1>6, <1>10 DEF VscodeIsFirst
<1>12. \A h : VscodeSource(h).source = Vscode!Source(h)
  BY DEF VscodeSource
<1>13. source = Vscode!Source(g)
  BY <1>7, <1>11, <1>12
<1> HIDE DEF source
<1>14. \A h : VscodeTells(s, h) => ~Vscode!Before(VscodeSource(h).rank, VscodeSource(g).rank)
  BY <1>6, <1>10, <1>11 DEF VscodeIsFirst
<1>15. \A h : VscodeTells(s, h) => Vscode!Source(h) \in sources
  BY <1>4, <1>6, <1>12
<1>16. ASSUME NEW h, VscodeTells(s, h), NEW c \in A, c.source = Vscode!Source(h) PROVE VscodeOf(h, c)
  <2>1. PICK k \in read : k.file.session = s /\ VscodeOf(k, c)
    BY <1>5, VscodeCandidateIs
  <2>2. Vscode!Source(k) = Vscode!Source(h) /\ h \in read
    BY <1>16, <2>1 DEF VscodeOf, VscodeTells
  <2>3. k = h
    BY <2>2 DEF VscodeReadIs
  <2> QED BY <2>1, <2>3
<1>17. ASSUME NEW h, VscodeTells(s, h), NEW r \in Vscode!FileRows[h.file]
       PROVE  LET c == VscodeCandidate(read, h, r) IN c \in A /\ c.source = Vscode!Source(h) /\ Vscode!Observation(c) = Vscode!Facts(r)
  <2> DEFINE c == VscodeCandidate(read, h, r)
  <2>1. c \in A
    BY <1>5, <1>17
  <2>2. VscodeOf(h, c) /\ c.row = r /\ VscodeObserves(c)
    BY <1>17, VscodeRowIs DEF VscodeTells
  <2> HIDE DEF c
  <2>3. c.source = Vscode!Source(h) /\ Vscode!Observation(c) = Vscode!Facts(r)
    BY <2>2 DEF VscodeOf, VscodeObserves
  <2> QED BY <2>1, <2>3 DEF c
<1>18. VscodeCanon(s, g)
  <2>1. \A c \in VscodeR(s) : VscodeOf(g, c) /\ c \in VscodeC(s)
    BY <1>1, <1>5, <1>11, <1>13, <1>16
  <2>2. \A r \in Vscode!FileRows[g.file] : VscodeCandidate(read, g, r) \in VscodeR(s)
    BY <1>1, <1>11, <1>13, <1>17
  <2> QED BY <1>11, <1>14, <2>1, <2>2 DEF VscodeCanon
<1>19. ASSUME NEW x \in sources, NEW y \in sources, NEW c \in A, c.source = x
       PROVE  \E d \in A : d.source = y /\ Vscode!Observation(d) = Vscode!Observation(c)
  <2>1. \A z : Vscode!Signature(A, z) = {<<Vscode!Key(d), Vscode!Observation(d)>> : d \in {b \in A : b.source = z}}
    BY Zenon DEF Vscode!Signature
  <2>2. <<Vscode!Key(c), Vscode!Observation(c)>> \in Vscode!Signature(A, x)
    <3>1. c \in {b \in A : b.source = x}
      BY <1>19
    <3> QED BY <2>1, <3>1, Zenon
  <2>3. <<Vscode!Key(c), Vscode!Observation(c)>> \in Vscode!Signature(A, y)
    BY <1>2, <2>2
  <2>4. \E d \in {b \in A : b.source = y} : <<Vscode!Key(c), Vscode!Observation(c)>> = <<Vscode!Key(d), Vscode!Observation(d)>>
    <3> DEFINE Y == {b \in A : b.source = y}
    <3>1. Vscode!Signature(A, y) = {<<Vscode!Key(d), Vscode!Observation(d)>> : d \in Y}
      BY <2>1
    <3> HIDE DEF Y
    <3>2. \E d \in Y : <<Vscode!Key(c), Vscode!Observation(c)>> = <<Vscode!Key(d), Vscode!Observation(d)>>
      BY <2>3, <3>1, Zenon
    <3> QED BY <3>2 DEF Y
  <2>5. \A i, j, k, l : <<i, j>> = <<k, l>> => i = k /\ j = l
    OBVIOUS
  <2> QED BY <2>4, <2>5, Zenon
<1>20. ASSUME NEW h, VscodeTells(s, h) PROVE VscodeAgreed(s, h)
  <2>0. Vscode!Source(g) \in sources /\ Vscode!Source(h) \in sources
    BY <1>11, <1>15, <1>20
  <2>1. ASSUME NEW c \in VscodeR(s) PROVE \E q \in Vscode!FileRows[h.file] : Vscode!Facts(q) = Vscode!Observation(c)
    <3>1. c \in A /\ c.source = Vscode!Source(g)
      BY <1>1, <1>13
    <3>2. PICK d \in A : d.source = Vscode!Source(h) /\ Vscode!Observation(d) = Vscode!Observation(c)
      BY <1>19, <2>0, <3>1
    <3>3. VscodeOf(h, d)
      BY <1>16, <1>20, <3>2
    <3>4. d.row \in Vscode!FileRows[h.file]
      BY <3>3 DEF VscodeOf
    <3>5. Vscode!Observation(d) = Vscode!Facts(d.row)
      BY DEF Vscode!Observation
    <3> QED BY <3>2, <3>4, <3>5
  <2>2. ASSUME NEW q \in Vscode!FileRows[h.file] PROVE \E c \in VscodeR(s) : Vscode!Observation(c) = Vscode!Facts(q)
    <3> DEFINE d == VscodeCandidate(read, h, q)
    <3>1. d \in A /\ d.source = Vscode!Source(h) /\ Vscode!Observation(d) = Vscode!Facts(q)
      BY <1>17, <1>20
    <3> HIDE DEF d
    <3>2. PICK c \in A : c.source = Vscode!Source(g) /\ Vscode!Observation(c) = Vscode!Observation(d)
      BY <1>19, <2>0, <3>1
    <3> QED BY <1>1, <1>13, <3>1, <3>2
  <2> QED BY <2>1, <2>2 DEF VscodeAgreed
<1> QED BY <1>18, <1>20

(* What stands for a row: itself, where the canonical file tells it usably. *)
VscodeUsable(s, c) ==
  /\ c.row.reason = None /\ c.row.request # None
  /\ \A d \in VscodeR(s) : d.row.request = c.row.request /\ d.row.response = c.row.response
                           /\ d.row.kind = c.row.kind /\ d.row.model = c.row.model => Vscode!Observation(d) = Vscode!Observation(c)
VscodeStandsFor(s, o) ==
  LET x == VscodeA(s)[o] IN
  /\ x # None => \E c \in VscodeR(s) : x = Vscode!Observation(c)
  /\ \A c \in VscodeR(s) : x # None /\ Vscode!Observation(c) = o => x = o /\ VscodeUsable(s, c)
LEMMA VscodeAlternate ==
  ASSUME Vscode!VscodeConstants, VscodeReadIs, NEW s
  PROVE  /\ DOMAIN VscodeA(s) = VscodeObserved(read, s)
         /\ \A o \in VscodeObserved(read, s) : VscodeStandsFor(s, o)
<1> DEFINE C == VscodeC(s)
           R == VscodeR(s)
           same(o) == {Vscode!Key(d) : d \in {e \in C : Vscode!Observation(e) = o}}
           G(o) == {c \in R : Vscode!Key(c) \in same(o)}
           value(o) == IF R = {} THEN None
                       ELSE IF G(o) = {} THEN Vscode!Observation(Vscode!First(R))
                       ELSE IF Vscode!Usable(G(o)) THEN Vscode!Observation(Vscode!First(G(o))) ELSE None
           D == {Vscode!Observation(c) : c \in C}
<1>1. VscodeA(s) = [o \in D |-> value(o)] /\ D = VscodeObserved(read, s)
  BY Zenon DEF VscodeA, Vscode!Alternate, VscodeObserved, VscodeC
<1>2. R \subseteq C
  BY VscodeSettled DEF VscodeCanon
<1>3. \A c \in C : VscodeRank(c)
  BY VscodeCandidateIs DEF VscodeObserves
<1>4. \A o, c : c \in C /\ Vscode!Observation(c) = o => Vscode!Key(c) \in same(o)
  BY Zenon
<1>5. \A c, d : d.row.request = c.row.request /\ d.row.response = c.row.response /\ d.row.kind = c.row.kind /\ d.row.model = c.row.model
                /\ c.row.request # None => Vscode!Key(d) = Vscode!Key(c)
  <2> TAKE c, d
  <2> HAVE d.row.request = c.row.request /\ d.row.response = c.row.response /\ d.row.kind = c.row.kind /\ d.row.model = c.row.model
           /\ c.row.request # None
  <2>1. Vscode!Key(c) = <<<<c.row.request>>, c.row.response, c.row.kind, c.row.model>>
    BY DEF Vscode!Key
  <2>2. Vscode!Key(d) = <<<<d.row.request>>, d.row.response, d.row.kind, d.row.model>>
    BY DEF Vscode!Key
  <2> QED BY <2>1, <2>2
<1> HIDE DEF C, R, D
<1>6. \A o \in D : VscodeA(s)[o] = value(o)
  <2> HIDE DEF value
  <2> QED BY <1>1
<1>7. DOMAIN VscodeA(s) = D
  <2> HIDE DEF value
  <2> QED BY <1>1
<1>8. ASSUME NEW o \in D PROVE VscodeStandsFor(s, o)
  <2> DEFINE H == G(o)
             v == VscodeA(s)[o]
  <2>1. H \subseteq R
    OBVIOUS
  <2>2. v = IF R = {} THEN None
            ELSE IF H = {} THEN Vscode!Observation(Vscode!First(R))
            ELSE IF Vscode!Usable(H) THEN Vscode!Observation(Vscode!First(H)) ELSE None
    BY <1>6
  <2>3. \A c \in R : Vscode!Observation(c) = o => c \in H /\ \A d \in R : Vscode!Key(d) = Vscode!Key(c) => d \in H
    BY <1>2, <1>4
  <2>4. Vscode!Usable(H) <=> /\ \A c \in H : c.row.reason = None /\ c.row.request # None
                             /\ \A c, d \in H : Vscode!Observation(c) = Vscode!Observation(d)
    BY Zenon DEF Vscode!Usable
  <2> HIDE DEF G, H, v, value, same
  <2>5. R # {} => Vscode!First(R) \in R
    BY <1>2, <1>3, VscodeFirst DEF VscodeIsFirst
  <2>6. H # {} => Vscode!First(H) \in H
    BY <1>2, <1>3, <2>1, VscodeFirst DEF VscodeIsFirst
  <2>7. v # None => \E c \in R : v = Vscode!Observation(c)
    BY <2>1, <2>2, <2>5, <2>6
  <2>8. ASSUME NEW c \in R, v # None, Vscode!Observation(c) = o PROVE v = o /\ VscodeUsable(s, c)
    <3>1. c \in H /\ Vscode!Usable(H) /\ v = Vscode!Observation(Vscode!First(H)) /\ Vscode!First(H) \in H
      BY <2>2, <2>3, <2>6, <2>8
    <3>2. v = o /\ c.row.reason = None /\ c.row.request # None
      BY <2>4, <2>8, <3>1
    <3>3. ASSUME NEW d \in R, d.row.request = c.row.request, d.row.response = c.row.response, d.row.kind = c.row.kind, d.row.model = c.row.model
          PROVE  Vscode!Observation(d) = Vscode!Observation(c)
      <4>1. Vscode!Key(d) = Vscode!Key(c)
        BY <1>5, <3>2, <3>3
      <4>2. d \in H
        BY <2>3, <2>8, <4>1
      <4> QED BY <2>4, <3>1, <4>2
    <3> QED BY <3>2, <3>3 DEF VscodeUsable, R
  <2> QED BY <2>7, <2>8 DEF VscodeStandsFor, v, R
<1> QED BY <1>1, <1>7, <1>8

LEMMA VscodeStands ==
  ASSUME Vscode!VscodeConstants, VscodeReadIs, NEW s, NEW o \in VscodeObserved(read, s)
  PROVE  /\ VscodeA(s)[o] \in VscodeObserved(read, s) \cup {None}
         /\ VscodeA(s)[o] # None => VscodeR(s) # {}
         /\ \A c \in VscodeR(s) : VscodeA(s)[o] # None /\ Vscode!Observation(c) = o => VscodeA(s)[o] = o /\ VscodeUsable(s, c)
         /\ VscodeA(s)[o] = o => \E c \in VscodeR(s) : Vscode!Observation(c) = o /\ VscodeUsable(s, c)
<1>1. VscodeStandsFor(s, o)
  BY VscodeAlternate
<1> DEFINE v == VscodeA(s)[o]
<1>2. /\ v # None => \E c \in VscodeR(s) : v = Vscode!Observation(c)
      /\ \A c \in VscodeR(s) : v # None /\ Vscode!Observation(c) = o => v = o /\ VscodeUsable(s, c)
  BY <1>1, Zenon DEF VscodeStandsFor
<1> HIDE DEF v
<1>3. \A c \in VscodeR(s) : c \in VscodeC(s)
  BY VscodeSettled DEF VscodeCanon
<1>4. \A c \in VscodeC(s) : Vscode!Observation(c) \in VscodeObserved(read, s)
  BY Zenon DEF VscodeObserved, VscodeC
<1>5. o # None
  <2>1. PICK c \in VscodeC(s) : o = Vscode!Observation(c)
    BY Zenon DEF VscodeObserved, VscodeC
  <2> QED BY <2>1, VscodeCandidateIs DEF VscodeObserves
<1>6. v \in VscodeObserved(read, s) \cup {None}
  BY <1>2, <1>3, <1>4
<1>7. v # None => VscodeR(s) # {}
  BY <1>2
<1>8. v = o => \E c \in VscodeR(s) : Vscode!Observation(c) = o /\ VscodeUsable(s, c)
  BY <1>2, <1>5
<1> QED BY <1>2, <1>6, <1>7, <1>8 DEF v

(* What hides a row: the models of its request, or any tokens of it. *)
VscodeOthers(s, c) == {d \in VscodeC(s) : d.row.request = c.row.request /\ d.row.response = c.row.response}
VscodeChosen(s, c, kinds) == {d \in VscodeOthers(s, c) : d.row.kind \in kinds /\ VscodeA(s)[Vscode!Observation(d)] = Vscode!Observation(d)}
VscodeHidden(s, c) ==
  /\ VscodeA(s)[Vscode!Observation(c)] = Vscode!Observation(c)
  /\ \/ c.row.kind \in {"turn_summary", "unavailable"} /\ VscodeChosen(s, c, {"model_totals"}) # {}
     \/ c.row.kind = "session_control" /\ VscodeChosen(s, c, {"model_totals", "turn_summary", "unavailable"}) # {}
LEMMA VscodeCovers ==
  ASSUME Vscode!VscodeConstants, VscodeReadIs, NEW s, NEW o \in VscodeObserved(read, s), NEW v, v = Vscode!Decided(read, s).tokens[o]
  PROVE  \/ /\ v = VscodeA(s)[o]
            /\ \A c \in VscodeC(s) : Vscode!Observation(c) = o => ~VscodeHidden(s, c)
         \/ v \in VscodeObserved(read, s) /\ v # o
<1> DEFINE C == VscodeC(s)
           decided == VscodeA(s)
           Models(c) == Vscode!Selected(Vscode!SameRequest(C, c), decided, {"model_totals"})
           Summaries(c) == Vscode!Selected(Vscode!SameRequest(C, c), decided, {"turn_summary", "unavailable"})
           Target(c) == IF Models(c) = {} THEN Summaries(c) ELSE Models(c)
           Hidden(c) == \/ c \in Summaries(c) /\ Models(c) # {}
                        \/ c \in Vscode!Selected(C, decided, {"session_control"}) /\ Target(c) # {}
           hidden == {c \in C : Hidden(c)}
           D == DOMAIN decided
           value(p) == IF \E c \in hidden : Vscode!Observation(c) = p
                       THEN Vscode!Observation(Vscode!First(Target(CHOOSE c \in hidden : Vscode!Observation(c) = p)))
                       ELSE decided[p]
<1>1. Vscode!Decided(read, s).tokens = [p \in D |-> value(p)]
  <2>1. Vscode!Covered(C, decided) = [p \in D |-> value(p)]
    BY Zenon DEF Vscode!Covered
  <2> HIDE DEF value, D
  <2> QED BY <2>1, VscodeDecidedAre
<1>2. o \in D
  BY VscodeAlternate
<1>3. v = value(o)
  <2> HIDE DEF value, D
  <2> QED BY <1>1, <1>2
<1>4. \A c : /\ Models(c) = VscodeChosen(s, c, {"model_totals"})
             /\ Summaries(c) = VscodeChosen(s, c, {"turn_summary", "unavailable"})
  BY Zenon DEF Vscode!Selected, Vscode!SameRequest, VscodeChosen, VscodeOthers
<1>5. \A c \in C : c \in Vscode!Selected(C, decided, {"session_control"}) <=> c.row.kind = "session_control" /\ decided[Vscode!Observation(c)] = Vscode!Observation(c)
  BY DEF Vscode!Selected
<1> DEFINE M(c) == VscodeChosen(s, c, {"model_totals"})
           U(c) == VscodeChosen(s, c, {"turn_summary", "unavailable"})
           W(c) == VscodeChosen(s, c, {"model_totals", "turn_summary", "unavailable"})
<1>6. \A c : W(c) = M(c) \cup U(c)
  BY DEF VscodeChosen
<1>7. \A c \in C : c \in U(c) <=> c.row.kind \in {"turn_summary", "unavailable"} /\ decided[Vscode!Observation(c)] = Vscode!Observation(c)
  BY DEF VscodeChosen, VscodeOthers
<1>8. \A c \in C : Hidden(c) <=> VscodeHidden(s, c)
  <2> TAKE c \in C
  <2> HIDE DEF C, decided
  <2>1. Models(c) = M(c) /\ Summaries(c) = U(c)
    BY <1>4
  <2> DEFINE m == M(c)  u == U(c)  w == W(c)
  <2>2. Target(c) # {} <=> w # {}
    BY <1>6, <2>1
  <2>3. VscodeHidden(s, c) <=>
          /\ decided[Vscode!Observation(c)] = Vscode!Observation(c)
          /\ \/ c.row.kind \in {"turn_summary", "unavailable"} /\ m # {}
             \/ c.row.kind = "session_control" /\ w # {}
    BY DEF VscodeHidden, decided
  <2>4. Hidden(c) <=> \/ c \in Summaries(c) /\ Models(c) # {}
                      \/ c \in Vscode!Selected(C, decided, {"session_control"}) /\ Target(c) # {}
    OBVIOUS
  <2> HIDE DEF M, U, W, Target, Models, Summaries, Hidden
  <2> QED BY <1>5, <1>7, <2>1, <2>2, <2>3, <2>4
<1>9. \A c \in C : \A d \in M(c) \cup U(c) : d \in C /\ d.row.kind # "session_control"
                   /\ (d \in M(c) => d.row.kind = "model_totals")
  BY DEF VscodeChosen, VscodeOthers
<1>10. \A c \in C : Hidden(c) => /\ Target(c) # {} /\ Target(c) \subseteq C
                                 /\ \A d \in Target(c) : d.row.kind # c.row.kind
  <2> TAKE c \in C
  <2> HAVE Hidden(c)
  <2>1. Models(c) = M(c) /\ Summaries(c) = U(c)
    BY <1>4
  <2>2. CASE c \in Summaries(c) /\ Models(c) # {}
    <3>1. Target(c) = M(c) /\ M(c) # {}
      BY <2>1, <2>2
    <3>2. c.row.kind \in {"turn_summary", "unavailable"}
      BY <1>7, <2>1, <2>2
    <3> HIDE DEF Target, M, U, Hidden, Models, Summaries
    <3> QED BY <1>9, <3>1, <3>2
  <2>3. CASE c \in Vscode!Selected(C, decided, {"session_control"}) /\ Target(c) # {}
    <3>1. Target(c) \subseteq M(c) \cup U(c)
      BY <2>1
    <3>2. c.row.kind = "session_control"
      BY <1>5, <2>3
    <3> HIDE DEF Target, M, U, Hidden, Models, Summaries
    <3> QED BY <1>9, <2>3, <3>1, <3>2
  <2> QED BY <2>2, <2>3
<1>11. \A c \in C : VscodeObserves(c) /\ Vscode!Observation(c) \in VscodeObserved(read, s)
  BY VscodeCandidateIs, Zenon DEF VscodeObserved, VscodeC
<1> HIDE DEF C, decided, Models, Summaries, Target, Hidden, D, M, U, W
<1>12. CASE \E c \in hidden : Vscode!Observation(c) = o
  <2> DEFINE c == CHOOSE c \in hidden : Vscode!Observation(c) = o
             T == Target(c)
             d == Vscode!First(T)
  <2>1. c \in hidden /\ Vscode!Observation(c) = o
    BY <1>12
  <2>2. v = Vscode!Observation(Vscode!First(Target(c)))
    BY <1>3, <1>12
  <2> HIDE DEF c
  <2>3. c \in C /\ Hidden(c)
    BY <2>1
  <2>4. T # {} /\ T \subseteq C /\ \A x \in T : x.row.kind # c.row.kind
    BY <1>10, <2>3
  <2> HIDE DEF T, d
  <2>5. \A x \in T : VscodeRank(x)
    BY <1>11, <2>4 DEF VscodeObserves
  <2>6. d \in T
    BY <2>4, <2>5, VscodeFirst DEF VscodeIsFirst, d
  <2>7. v = Vscode!Observation(d)
    BY <2>2 DEF d, T
  <2>8. Vscode!Observation(d).kind = d.row.kind /\ o.kind = c.row.kind
    <3>1. VscodeObserves(d) /\ VscodeObserves(c) /\ "kind" \in VscodeFields
      BY <1>11, <2>3, <2>4, <2>6 DEF VscodeFields
    <3> QED BY <2>1, <3>1 DEF VscodeObserves
  <2> QED BY <1>11, <2>4, <2>6, <2>7, <2>8
<1>13. CASE ~\E c \in hidden : Vscode!Observation(c) = o
  <2>1. v = decided[o]
    BY <1>3, <1>13
  <2>2. \A c \in C : Vscode!Observation(c) = o => ~VscodeHidden(s, c)
    BY <1>8, <1>13
  <2> QED BY <2>1, <2>2 DEF C, decided
<1> QED BY <1>12, <1>13

-----------------------------------------------------------------------------
(* Controls. *)
VscodeKnown(s) == {c \in VscodeR(s) : /\ c.row.kind = "session_control" /\ c.row.quantity = "known"
                                      /\ VscodeA(s)[Vscode!Observation(c)] = Vscode!Observation(c)}
VscodeControl(s) == Vscode!Greatest(VscodeKnown(s))

LEMMA VscodeFiniteRows ==
  ASSUME Vscode!VscodeConstants, VscodeReadIs, NEW s
  PROVE  IsFiniteSet(VscodeR(s)) /\ VscodeR(s) \subseteq VscodeC(s)
<1>1. VscodeR(s) \in SUBSET VscodeC(s)
  BY VscodeSettled DEF VscodeCanon
<1> QED BY <1>1, VscodeFiniteCandidates, FS_Subset

LEMMA VscodeGreatest ==
  ASSUME Vscode!VscodeConstants, VscodeReadIs, NEW s, VscodeKnown(s) # {}
  PROVE  /\ VscodeControl(s) \in VscodeKnown(s)
         /\ \A d \in VscodeKnown(s) : d.row.amount \in Nat /\ d.row.amount <= VscodeControl(s).row.amount
<1> DEFINE K == VscodeKnown(s)
           most == {c \in K : \A d \in K : d.row.amount <= c.row.amount}
           last == {c \in most : \A d \in most : d.row.ordinal <= c.row.ordinal}
<1>1. VscodeControl(s) = Vscode!First(last)
  BY Zenon DEF VscodeControl, Vscode!Greatest
<1>2. IsFiniteSet(K) /\ K \subseteq VscodeC(s)
  <2>1. K \in SUBSET VscodeR(s)
    BY DEF VscodeKnown
  <2> HIDE DEF K
  <2>2. IsFiniteSet(VscodeR(s)) /\ VscodeR(s) \subseteq VscodeC(s)
    BY VscodeFiniteRows
  <2>3. IsFiniteSet(K)
    BY <2>1, <2>2, FS_Subset
  <2> QED BY <2>1, <2>2, <2>3
<1>3. \A c \in K : VscodeRank(c) /\ c.row.amount \in Nat /\ c.row.ordinal \in Nat
  <2> TAKE c \in K
  <2>1. VscodeObserves(c) /\ c.row.kind = "session_control" /\ c.row.quantity = "known"
    BY <1>2, VscodeCandidateIs DEF VscodeKnown
  <2> QED BY <2>1 DEF VscodeObserves
<1>4. K # {}
  OBVIOUS
<1> HIDE DEF K
<1> DEFINE amount == [c \in K |-> c.row.amount]
           ordinal == [c \in most |-> c.row.ordinal]
           As == {amount[c] : c \in K}
           Os == {ordinal[c] : c \in most}
<1>5. most # {}
  <2>1. As \subseteq Nat /\ As # {}
    BY <1>3, <1>4
  <2>2. IsFiniteSet(As)
    BY <1>2, FiniteImage
  <2>3. PICK n \in As : \A m \in As : m <= n
    <3> HIDE DEF As
    <3> QED BY <2>1, <2>2, GreatestNumber
  <2> QED BY <2>3
<1>6. most \subseteq K /\ IsFiniteSet(most)
  <2>1. most \in SUBSET K
    OBVIOUS
  <2> HIDE DEF most
  <2> QED BY <1>2, <2>1, FS_Subset
<1>7. last # {}
  <2> HIDE DEF most
  <2>1. Os \subseteq Nat /\ Os # {}
    BY <1>3, <1>5, <1>6
  <2>2. IsFiniteSet(Os)
    BY <1>6, FiniteImage
  <2>3. PICK n \in Os : \A m \in Os : m <= n
    <3> HIDE DEF Os
    <3> QED BY <2>1, <2>2, GreatestNumber
  <2> QED BY <2>3
<1>8. last \subseteq K
  OBVIOUS
<1> HIDE DEF last
<1>9. Vscode!First(last) \in last
  BY <1>3, <1>7, <1>8, VscodeFirst DEF VscodeIsFirst
<1>10. Vscode!First(last) \in most
  BY <1>9 DEF last
<1> QED BY <1>1, <1>3, <1>10 DEF K

LEMMA VscodeCreditsAre ==
  ASSUME Vscode!VscodeConstants, VscodeReadIs, NEW s, NEW o \in VscodeObserved(read, s), o.quantity # None, NEW v, v = Vscode!Decided(read, s).credits[o]
  PROVE  v = IF \E c \in VscodeR(s) : c.row.kind = "session_control" /\ VscodeA(s)[Vscode!Observation(c)] = None THEN None
             ELSE IF VscodeKnown(s) = {} THEN VscodeA(s)[o]
             ELSE IF o = Vscode!Observation(VscodeControl(s)) THEN o
             ELSE IF VscodeA(s)[o] # None /\ Vscode!Covers(VscodeR(s), VscodeControl(s), o) THEN Vscode!Observation(VscodeControl(s))
             ELSE VscodeA(s)[o]
<1> DEFINE C == VscodeC(s)
           R == VscodeR(s)
           decided == VscodeA(s)
           owed == {p \in DOMAIN decided : p.quantity # None}
           known == {c \in Vscode!Controls(R) : decided[Vscode!Observation(c)] = Vscode!Observation(c) /\ c.row.quantity = "known"}
           control == Vscode!Greatest(known)
           value(p) == IF \E c \in Vscode!Controls(R) : decided[Vscode!Observation(c)] = None THEN None
                       ELSE IF known = {} THEN decided[p]
                       ELSE IF p = Vscode!Observation(control) THEN p
                       ELSE IF decided[p] # None /\ Vscode!Covers(R, control, p) THEN Vscode!Observation(control)
                       ELSE decided[p]
<1>1. Vscode!Decided(read, s).credits = [p \in owed |-> value(p)]
  <2>1. Vscode!Credits(C, R, decided) = [p \in owed |-> value(p)]
    BY Zenon DEF Vscode!Credits
  <2> HIDE DEF value, owed
  <2> QED BY <2>1, VscodeDecidedAre
<1>2. o \in owed
  BY VscodeAlternate
<1>3. v = value(o)
  <2> HIDE DEF value, owed
  <2> QED BY <1>1, <1>2
<1>4. known = VscodeKnown(s)
  BY DEF VscodeKnown, Vscode!Controls
<1>5. control = VscodeControl(s)
  BY <1>4, Zenon DEF VscodeControl
<1>6. (\E c \in Vscode!Controls(R) : decided[Vscode!Observation(c)] = None) <=> \E c \in R : c.row.kind = "session_control" /\ decided[Vscode!Observation(c)] = None
  BY DEF Vscode!Controls
<1> HIDE DEF known, control
<1> QED BY <1>3, <1>4, <1>5, <1>6

-----------------------------------------------------------------------------
(* The decisions there are. *)
LEMMA VscodeHere ==
  ASSUME Vscode!VscodeConstants, VscodeInv
  PROVE  /\ \A o : o \in DOMAIN tokens <=> o.session \in Vscode!Sessions(read) /\ o \in VscodeObserved(read, o.session)
         /\ \A o \in DOMAIN tokens : tokens[o] = Vscode!Decided(read, o.session).tokens[o]
         /\ \A o : o \in DOMAIN credits <=> o \in DOMAIN tokens /\ o.quantity # None
         /\ \A o \in DOMAIN credits : credits[o] = Vscode!Decided(read, o.session).credits[o]
<1>1. VscodeAll(tokens, read, Vscode!Sessions(read), TRUE) /\ VscodeAll(credits, read, Vscode!Sessions(read), FALSE)
  <2>1. /\ VscodeAll(Vscode!AllTokens(read, Vscode!Sessions(read)), read, Vscode!Sessions(read), TRUE)
        /\ VscodeAll(Vscode!AllCredits(read, Vscode!Sessions(read)), read, Vscode!Sessions(read), FALSE)
    BY VscodeAlls DEF VscodeInv
  <2>2. tokens = Vscode!AllTokens(read, Vscode!Sessions(read)) /\ credits = Vscode!AllCredits(read, Vscode!Sessions(read))
    BY DEF VscodeInv, Vscode!Incremental
  <2> QED BY <2>1, <2>2
<1> QED BY <1>1 DEF VscodeAll

LEMMA VscodeCreditsTold ==
  ASSUME Vscode!VscodeConstants, VscodeReadIs, NEW s, NEW o \in VscodeObserved(read, s), o.quantity # None
  PROVE  LET v == Vscode!Decided(read, s).credits[o] IN
         /\ v \in VscodeObserved(read, s) \cup {None}
         /\ v = o => VscodeA(s)[o] = o
<1> DEFINE v == Vscode!Decided(read, s).credits[o]
<1>1. v = IF \E c \in VscodeR(s) : c.row.kind = "session_control" /\ VscodeA(s)[Vscode!Observation(c)] = None THEN None
             ELSE IF VscodeKnown(s) = {} THEN VscodeA(s)[o]
             ELSE IF o = Vscode!Observation(VscodeControl(s)) THEN o
             ELSE IF VscodeA(s)[o] # None /\ Vscode!Covers(VscodeR(s), VscodeControl(s), o) THEN Vscode!Observation(VscodeControl(s))
             ELSE VscodeA(s)[o]
  BY VscodeCreditsAre
<1>2. VscodeA(s)[o] \in VscodeObserved(read, s) \cup {None}
  BY VscodeStands
<1>3. VscodeKnown(s) # {} => /\ VscodeA(s)[Vscode!Observation(VscodeControl(s))] = Vscode!Observation(VscodeControl(s))
                             /\ Vscode!Observation(VscodeControl(s)) \in VscodeObserved(read, s)
  <2> HAVE VscodeKnown(s) # {}
  <2>1. VscodeControl(s) \in VscodeKnown(s)
    BY VscodeGreatest
  <2>2. VscodeControl(s) \in VscodeC(s)
    BY <2>1, VscodeFiniteRows DEF VscodeKnown
  <2>3. Vscode!Observation(VscodeControl(s)) \in VscodeObserved(read, s)
    BY <2>2, Zenon DEF VscodeObserved, VscodeC
  <2> QED BY <2>1, <2>3 DEF VscodeKnown
<1>4. o # None
  <2>1. PICK c \in VscodeC(s) : o = Vscode!Observation(c)
    BY Zenon DEF VscodeObserved, VscodeC
  <2> QED BY <2>1, VscodeCandidateIs DEF VscodeObserves
<1> QED BY <1>1, <1>2, <1>3, <1>4

LEMMA VscodeTypes == ASSUME Vscode!VscodeConstants, VscodeInv PROVE Vscode!TypeOK
<1>0. VscodeReadIs
  BY VscodeReadIsOf
<1>1. Cardinality(read) <= MaxRead /\ \A g \in read : g.file \in VscodeFiles /\ g.available \in BOOLEAN
  BY DEF VscodeInv, VscodeReadings
<1>2. \A g \in read : \A n \in 0 .. g.number : \E h \in read : h.file.locator = g.file.locator /\ h.number = n
  <2> TAKE g \in read
  <2> TAKE n \in 0 .. g.number
  <2>1. g.number \in Nat /\ g.number < Cardinality(VscodeAt(read, g.file.locator))
    BY DEF VscodeInv, VscodeReadings, VscodeNumbered, VscodeBelow
  <2>2. Cardinality(VscodeAt(read, g.file.locator)) \in Nat
    BY VscodeAtFinite DEF VscodeInv
  <2>3. n \in Nat /\ n < Cardinality(VscodeAt(read, g.file.locator))
    BY <2>1, <2>2
  <2>4. VscodeFilled(read)
    BY DEF VscodeInv, VscodeNumbered
  <2> QED BY <2>3, <2>4 DEF VscodeFilled
<1>3. \A g, h \in read : Vscode!Source(g) = Vscode!Source(h) => g = h
  BY <1>0 DEF VscodeReadIs
<1>4. \A o : o \in DOMAIN tokens <=> o.session \in Vscode!Sessions(read) /\ o \in VscodeObserved(read, o.session)
  BY VscodeHere
<1>5. \A o : o \in DOMAIN tokens <=> \E g \in read : \E r \in Vscode!FileRows[g.file] : o = Vscode!Facts(r)
  <2> TAKE o
  <2>1. ASSUME o \in DOMAIN tokens PROVE \E g \in read : \E r \in Vscode!FileRows[g.file] : o = Vscode!Facts(r)
    BY <1>0, <1>4, <2>1, VscodeObservedIn DEF VscodeReadIs
  <2>2. ASSUME NEW g \in read, NEW r \in Vscode!FileRows[g.file], o = Vscode!Facts(r) PROVE o \in DOMAIN tokens
    <3> DEFINE c == VscodeCandidate(read, g, r)
    <3>1. c \in VscodeC(g.file.session)
      BY VscodeCandidates DEF VscodeC
    <3>2. VscodeOf(g, c) /\ c.row = r /\ VscodeObserves(c) /\ c.row.session = g.file.session
      BY <1>0, <3>1, VscodeRowIs, VscodeCandidateIs
    <3> HIDE DEF c
    <3>3. o = Vscode!Observation(c) /\ o.session = g.file.session
      BY <2>2, <3>2 DEF VscodeObserves, VscodeFields
    <3>4. o \in VscodeObserved(read, g.file.session)
      BY <3>1, <3>3, Zenon DEF VscodeObserved, VscodeC
    <3>5. g.file.session \in Vscode!Sessions(read)
      BY <3>2 DEF VscodeOf, Vscode!Sessions
    <3> QED BY <1>4, <3>3, <3>4, <3>5
  <2> QED BY <2>1, <2>2
<1>6. DOMAIN tokens = {Vscode!Facts(r) : r \in UNION {Vscode!FileRows[g.file] : g \in read}}
  <2> DEFINE all == UNION {Vscode!FileRows[g.file] : g \in read}
             F == {Vscode!Facts(r) : r \in all}
  <2>1. \A r : r \in all <=> \E g \in read : r \in Vscode!FileRows[g.file]
    OBVIOUS
  <2> HIDE DEF all
  <2>2. \A o : o \in F <=> \E r \in all : o = Vscode!Facts(r)
    BY Zenon
  <2> HIDE DEF F
  <2>3. \A o : o \in DOMAIN tokens <=> o \in F
    BY <1>5, <2>1, <2>2
  <2>4. DOMAIN tokens = F
    BY <2>3
  <2> QED BY <2>4 DEF F, all
<1>7. DOMAIN credits = {o \in DOMAIN tokens : o.quantity # None}
  <2>1. \A o : o \in DOMAIN credits <=> o \in DOMAIN tokens /\ o.quantity # None
    BY VscodeHere
  <2> QED BY <2>1
<1>8. ASSUME NEW o \in DOMAIN tokens PROVE /\ VscodeObserved(read, o.session) \subseteq DOMAIN tokens
                                           /\ o \in VscodeObserved(read, o.session)
  <2>1. \A p \in VscodeObserved(read, o.session) : p.session = o.session /\ o.session \in Vscode!Sessions(read)
    BY <1>0, VscodeObservedIn DEF VscodeReadIs
  <2> QED BY <1>4, <2>1
<1>9. \A o \in DOMAIN tokens : tokens[o] \in DOMAIN tokens \cup {None}
  <2> TAKE o \in DOMAIN tokens
  <2> DEFINE v == Vscode!Decided(read, o.session).tokens[o]
  <2>1. v = VscodeA(o.session)[o] \/ v \in VscodeObserved(read, o.session)
    BY <1>0, <1>8, VscodeCovers
  <2>2. VscodeA(o.session)[o] \in VscodeObserved(read, o.session) \cup {None}
    BY <1>0, <1>8, VscodeStands
  <2>3. tokens[o] = v
    BY VscodeHere
  <2> HIDE DEF v
  <2> QED BY <1>8, <2>1, <2>2, <2>3
<1>10. \A o \in DOMAIN credits : credits[o] \in DOMAIN tokens \cup {None}
  <2> TAKE o \in DOMAIN credits
  <2> DEFINE v == Vscode!Decided(read, o.session).credits[o]
  <2>1. o \in DOMAIN tokens /\ o.quantity # None /\ credits[o] = v
    BY VscodeHere
  <2>2. v \in VscodeObserved(read, o.session) \cup {None}
    BY <1>0, <1>8, <2>1, VscodeCreditsTold
  <2> HIDE DEF v
  <2> QED BY <1>8, <2>1, <2>2
<1> QED BY VscodeLibrary, <1>1, <1>2, <1>3, <1>6, <1>7, <1>9, <1>10 DEF Vscode!TypeOK

(* What counts stands for itself, and is told. *)
LEMMA VscodeCounted ==
  ASSUME Vscode!VscodeConstants, VscodeInv, NEW o \in Vscode!CountedTokens \cup Vscode!CountedCredits
  PROVE  /\ o \in VscodeObserved(read, o.session) /\ VscodeA(o.session)[o] = o
         /\ o \in Vscode!CountedTokens => \A c \in VscodeC(o.session) : Vscode!Observation(c) = o => ~VscodeHidden(o.session, c)
<1>0. VscodeReadIs
  BY VscodeReadIsOf
<1>1. CASE o \in Vscode!CountedTokens
  <2> DEFINE v == Vscode!Decided(read, o.session).tokens[o]
  <2>1. o \in DOMAIN tokens /\ tokens[o] = o
    BY <1>1 DEF Vscode!CountedTokens
  <2>2. o \in VscodeObserved(read, o.session) /\ v = o
    BY <2>1, VscodeHere
  <2>3. \/ v = VscodeA(o.session)[o] /\ \A c \in VscodeC(o.session) : Vscode!Observation(c) = o => ~VscodeHidden(o.session, c)
        \/ v # o
    BY <1>0, <2>2, VscodeCovers
  <2> HIDE DEF v
  <2> QED BY <2>2, <2>3
<1>2. CASE o \in Vscode!CountedCredits
  <2>1. o \in DOMAIN credits /\ credits[o] = o
    BY <1>2 DEF Vscode!CountedCredits
  <2>2. o \in VscodeObserved(read, o.session) /\ o.quantity # None /\ Vscode!Decided(read, o.session).credits[o] = o
    BY <2>1, VscodeHere
  <2>3. VscodeA(o.session)[o] = o
    BY <1>0, <2>2, VscodeCreditsTold
  <2>4. CASE o \in Vscode!CountedTokens
    BY <1>1, <2>4
  <2> QED BY <2>2, <2>3, <2>4
<1> QED BY <1>1, <1>2

LEMMA VscodeOnlyTold == ASSUME Vscode!VscodeConstants, VscodeInv PROVE Vscode!OnlyWhatIsTold
<1>0. VscodeReadIs
  BY VscodeReadIsOf
<1> SUFFICES ASSUME NEW o \in Vscode!CountedTokens \cup Vscode!CountedCredits
             PROVE  /\ Vscode!Tellers(o.session) # {}
                    /\ \A t \in Vscode!Tellers(o.session) : \E r \in Vscode!FileRows[t.file] : Vscode!Facts(r) = o
  BY DEF Vscode!OnlyWhatIsTold
<1> DEFINE s == o.session
<1>1. o \in VscodeObserved(read, s) /\ VscodeA(s)[o] = o
  BY VscodeCounted
<1> HIDE DEF s
<1>2. PICK c \in VscodeR(s) : Vscode!Observation(c) = o
  BY <1>0, <1>1, VscodeStands
<1>3. (\E g : VscodeCanon(s, g)) /\ \A h : VscodeTells(s, h) => VscodeAgreed(s, h)
  BY <1>0, <1>2, VscodeSettled
<1>4. \A t : t \in Vscode!Tellers(s) <=> \E g : VscodeTells(s, g) /\ t = [there |-> g.available, file |-> g.file]
  BY VscodeTellersAre
<1>5. Vscode!Tellers(s) # {}
  BY <1>3, <1>4 DEF VscodeCanon
<1>6. \A t \in Vscode!Tellers(s) : \E r \in Vscode!FileRows[t.file] : Vscode!Facts(r) = o
  <2> TAKE t \in Vscode!Tellers(s)
  <2>1. PICK g : VscodeTells(s, g) /\ t.file = g.file
    BY <1>4
  <2>2. PICK q \in Vscode!FileRows[g.file] : Vscode!Facts(q) = o
    BY <1>2, <1>3, <2>1 DEF VscodeAgreed
  <2> QED BY <2>1, <2>2
<1> QED BY <1>5, <1>6 DEF s

LEMMA VscodeOnce == ASSUME Vscode!VscodeConstants, VscodeInv PROVE Vscode!CountedOnce
<1>0. VscodeReadIs
  BY VscodeReadIsOf
<1> SUFFICES ASSUME NEW o \in Vscode!CountedTokens, NEW p \in Vscode!CountedTokens, o.kind # "unavailable", p.kind # "unavailable",
                    o.session = p.session, o.request = p.request, o.response = p.response, o # p
             PROVE  o.kind = "model_totals" /\ p.kind = "model_totals" /\ o.model # p.model
  BY DEF Vscode!CountedOnce
<1> DEFINE s == o.session
<1>1. /\ o \in VscodeObserved(read, s) /\ VscodeA(s)[o] = o /\ \A c \in VscodeC(s) : Vscode!Observation(c) = o => ~VscodeHidden(s, c)
      /\ p \in VscodeObserved(read, s) /\ VscodeA(s)[p] = p /\ \A c \in VscodeC(s) : Vscode!Observation(c) = p => ~VscodeHidden(s, c)
  BY VscodeCounted
<1> HIDE DEF s
<1>2. PICK c \in VscodeR(s) : Vscode!Observation(c) = o /\ VscodeUsable(s, c)
  BY <1>0, <1>1, VscodeStands
<1>3. PICK d \in VscodeR(s) : Vscode!Observation(d) = p /\ VscodeUsable(s, d)
  BY <1>0, <1>1, VscodeStands
<1>4. c \in VscodeC(s) /\ d \in VscodeC(s)
  BY <1>0, VscodeFiniteRows
<1>5. VscodeObserves(c) /\ VscodeObserves(d)
  BY <1>0, <1>4, VscodeCandidateIs
<1>6. /\ c.row.kind = o.kind /\ c.row.model = o.model /\ c.row.request = o.request /\ c.row.response = o.response
      /\ d.row.kind = p.kind /\ d.row.model = p.model /\ d.row.request = p.request /\ d.row.response = p.response
  BY <1>2, <1>3, <1>5 DEF VscodeObserves, VscodeFields
<1>7. ~(o.kind = p.kind /\ o.model = p.model)
  BY <1>2, <1>3, <1>6 DEF VscodeUsable
<1>8. /\ o.kind \in VscodeKinds /\ p.kind \in VscodeKinds
      /\ o.kind # "model_totals" => o.model = None
      /\ p.kind # "model_totals" => p.model = None
  BY <1>5, <1>6 DEF VscodeObserves
<1>9. \A kinds : /\ p.kind \in kinds => d \in VscodeChosen(s, c, kinds)
                 /\ o.kind \in kinds => c \in VscodeChosen(s, d, kinds)
  <2> TAKE kinds
  <2>1. d \in VscodeOthers(s, c) /\ c \in VscodeOthers(s, d)
    BY <1>4, <1>6 DEF VscodeOthers
  <2>2. VscodeA(s)[Vscode!Observation(d)] = Vscode!Observation(d) /\ VscodeA(s)[Vscode!Observation(c)] = Vscode!Observation(c)
    BY <1>1, <1>2, <1>3
  <2> QED BY <1>6, <2>1, <2>2 DEF VscodeChosen
<1>10. o.kind # "session_control"
  <2>1. ASSUME o.kind = "session_control" PROVE FALSE
    <3>1. p.kind \in {"model_totals", "turn_summary", "unavailable"}
      BY <1>7, <1>8, <2>1 DEF VscodeKinds
    <3>2. VscodeHidden(s, c)
      BY <1>1, <1>2, <1>6, <1>9, <2>1, <3>1 DEF VscodeHidden
    <3> QED BY <1>1, <1>2, <1>4, <3>2
  <2> QED BY <2>1
<1>11. p.kind # "session_control"
  <2>1. ASSUME p.kind = "session_control" PROVE FALSE
    <3>1. o.kind \in {"model_totals", "turn_summary", "unavailable"}
      BY <1>7, <1>8, <2>1 DEF VscodeKinds
    <3>2. VscodeHidden(s, d)
      BY <1>1, <1>3, <1>6, <1>9, <2>1, <3>1 DEF VscodeHidden
    <3> QED BY <1>1, <1>3, <1>4, <3>2
  <2> QED BY <2>1
<1>12. o.kind = "model_totals"
  <2>1. ASSUME o.kind = "turn_summary" PROVE FALSE
    <3>1. p.kind = "model_totals"
      BY <1>7, <1>8, <1>11, <2>1 DEF VscodeKinds
    <3>2. VscodeHidden(s, c)
      BY <1>1, <1>2, <1>6, <1>9, <2>1, <3>1 DEF VscodeHidden
    <3> QED BY <1>1, <1>2, <1>4, <3>2
  <2> QED BY <1>8, <1>10, <2>1 DEF VscodeKinds
<1>13. p.kind = "model_totals"
  <2>1. ASSUME p.kind = "turn_summary" PROVE FALSE
    <3>1. VscodeHidden(s, d)
      BY <1>1, <1>3, <1>6, <1>9, <1>12, <2>1 DEF VscodeHidden
    <3> QED BY <1>1, <1>3, <1>4, <3>1
  <2> QED BY <1>8, <1>11, <2>1 DEF VscodeKinds
<1> QED BY <1>7, <1>12, <1>13

(* The file whose order counts is the canonical one. *)
LEMMA VscodeOrdering ==
  ASSUME Vscode!VscodeConstants, VscodeReadIs, NEW s, NEW t \in Vscode!Ordering(s), NEW g, VscodeCanon(s, g)
  PROVE  t.file = g.file
<1>1. t \in Vscode!Tellers(s) /\ \A u \in Vscode!Tellers(s) : ~Vscode!Before(Vscode!Place(u.file), Vscode!Place(t.file))
  BY DEF Vscode!Ordering
<1>2. \A x : x \in Vscode!Tellers(s) <=> \E h : VscodeTells(s, h) /\ x = [there |-> h.available, file |-> h.file]
  BY VscodeTellersAre
<1>3. PICK h : VscodeTells(s, h) /\ t = [there |-> h.available, file |-> h.file]
  BY <1>1, <1>2
<1>4. VscodeTells(s, g) /\ ~Vscode!Before(VscodeSource(h).rank, VscodeSource(g).rank)
  BY <1>3 DEF VscodeCanon
<1>5. ~Vscode!Before(Vscode!Place(g.file), Vscode!Place(h.file))
  <2> DEFINE u == [there |-> g.available, file |-> g.file]
  <2>1. u \in Vscode!Tellers(s) /\ u.file = g.file /\ t.file = h.file
    BY <1>2, <1>3, <1>4
  <2> HIDE DEF u
  <2> QED BY <1>1, <2>1
<1>6. \A k : VscodeSource(k).rank = Vscode!Place(k.file)
  BY DEF VscodeSource, Vscode!Place
<1>7. g \in read /\ h \in read /\ Vscode!Newest(read, g) /\ Vscode!Newest(read, h) /\ g.file \in VscodeFiles /\ h.file \in VscodeFiles
      /\ g.file.place \in Nat /\ h.file.place \in Nat /\ g.number \in Nat /\ h.number \in Nat
  BY <1>3, <1>4 DEF VscodeTells, VscodeReadIs, VscodeReadings, Vscode!VscodeConstants
<1> DEFINE a == IF g.file.flat THEN 1 ELSE 0  b == g.file.place
           c == IF h.file.flat THEN 1 ELSE 0  d == h.file.place
<1>8. Vscode!Place(g.file) = <<a, b>> /\ Vscode!Place(h.file) = <<c, d>> /\ a \in Nat /\ b \in Nat /\ c \in Nat /\ d \in Nat
  BY <1>7 DEF Vscode!Place
<1>9. a = c /\ b = d
  <2> HIDE DEF a, b, c, d
  <2>1. ~Vscode!Before(<<a, b>>, <<c, d>>) /\ ~Vscode!Before(<<c, d>>, <<a, b>>)
    BY <1>4, <1>5, <1>6, <1>8
  <2>2. ~(a < c \/ (a = c /\ b < d))
    BY <1>8, <2>1, VscodeBeforeFile
  <2>3. ~(c < a \/ (c = a /\ d < b))
    BY <1>8, <2>1, VscodeBeforeFile
  <2> QED BY <1>8, <2>2, <2>3
<1>10. g.file.locator = h.file.locator
  <2>1. g.file.flat <=> h.file.flat
    BY <1>9
  <2>2. \A f, k \in VscodeFiles : f.flat = k.flat /\ f.place = k.place => f.locator = k.locator
    BY DEF Vscode!VscodeConstants
  <2>3. g.file.flat \in BOOLEAN /\ h.file.flat \in BOOLEAN
    BY <1>7 DEF Vscode!VscodeConstants
  <2> QED BY <1>7, <1>9, <2>1, <2>2, <2>3
<1>11. g.number = h.number
  BY <1>7, <1>10 DEF Vscode!Newest
<1>12. g = h
  BY <1>7, <1>10, <1>11 DEF VscodeReadIs, Vscode!Source
<1> QED BY <1>3, <1>12

(* A row of the canonical file is a row of its candidates. *)
LEMMA VscodeCanonRow ==
  ASSUME Vscode!VscodeConstants, VscodeReadIs, NEW s, NEW g, VscodeCanon(s, g), NEW r \in Vscode!FileRows[g.file],
         NEW c \in VscodeR(s), Vscode!Observation(c) = Vscode!Facts(r)
  PROVE  c.row = r
<1>1. VscodeOf(g, c)
  BY DEF VscodeCanon
<1>2. c.row \in Vscode!FileRows[g.file] /\ g.file \in VscodeFiles
  BY <1>1 DEF VscodeOf
<1>3. VscodeRowsRead(g.file, Vscode!FileRows[g.file])
  BY <1>2, VscodeReadRows DEF Vscode!FileRows
<1>4. Vscode!Facts(c.row) = Vscode!Facts(r)
  BY DEF Vscode!Observation
<1> QED BY <1>2, <1>3, <1>4 DEF VscodeRowsRead

LEMMA VscodeCreditsOnce == ASSUME Vscode!VscodeConstants, VscodeInv PROVE Vscode!CreditsOnce
<1>0. VscodeReadIs
  BY VscodeReadIsOf
<1> SUFFICES ASSUME NEW o \in Vscode!CountedCredits, o.kind = "session_control", o.quantity = "known",
                    NEW t \in Vscode!Ordering(o.session), NEW r \in Vscode!FileRows[t.file], Vscode!Facts(r) = o,
                    NEW q \in Vscode!FileRows[t.file], Vscode!Facts(q) \in Vscode!CountedCredits, Vscode!Facts(q) # o
             PROVE  q.kind # "session_control" /\ q.ordinal > r.ordinal
  BY DEF Vscode!CreditsOnce
<1> DEFINE s == o.session
           p == Vscode!Facts(q)
           R == VscodeR(s)
           K == VscodeKnown(s)
           m == VscodeControl(s)
<1>1. o \in VscodeObserved(read, s) /\ VscodeA(s)[o] = o
  BY VscodeCounted
<1>2. o \in DOMAIN credits /\ o.quantity # None /\ Vscode!Decided(read, s).credits[o] = o
  BY VscodeHere DEF Vscode!CountedCredits
<1> HIDE DEF s
<1>3. PICK c \in R : Vscode!Observation(c) = o /\ VscodeUsable(s, c)
  BY <1>0, <1>1, VscodeStands
<1>4. c \in VscodeC(s) /\ VscodeObserves(c)
  BY <1>0, <1>3, VscodeFiniteRows, VscodeCandidateIs
<1>5. c.row.kind = "session_control" /\ c.row.quantity = "known"
  BY <1>3, <1>4 DEF VscodeObserves, VscodeFields
<1>6. c \in K
  BY <1>1, <1>3, <1>5 DEF VscodeKnown
<1>7. PICK g : VscodeCanon(s, g)
  BY <1>0, <1>3, VscodeSettled
<1>8. t.file = g.file
  BY <1>0, <1>7, VscodeOrdering DEF s
<1>9. c.row = r
  BY <1>0, <1>3, <1>7, <1>8, VscodeCanonRow
<1>10. g.file \in VscodeFiles
  BY <1>7, <1>0 DEF VscodeCanon, VscodeTells, VscodeReadIs, VscodeReadings
<1>11. q.session = s /\ p.session = s /\ p.kind = q.kind /\ q.ordinal \in Nat /\ r.ordinal \in Nat
  <2>1. VscodeIsRow(g.file, q.ordinal, q) /\ q.ordinal \in Nat /\ r.ordinal \in Nat /\ p.session = q.session /\ p.kind = q.kind
    BY <1>8, <1>10, VscodeRowOf DEF VscodeFields
  <2>2. g.file.session = s
    BY <1>7 DEF VscodeCanon, VscodeTells
  <2> QED BY <2>1, <2>2 DEF VscodeIsRow, VscodeShape
<1>12. p \in VscodeObserved(read, s) /\ VscodeA(s)[p] = p /\ p.quantity # None /\ Vscode!Decided(read, s).credits[p] = p
  <2>1. p \in VscodeObserved(read, p.session) /\ VscodeA(p.session)[p] = p
    BY VscodeCounted
  <2>2. p \in DOMAIN credits /\ credits[p] = p
    BY DEF Vscode!CountedCredits
  <2>3. p.quantity # None /\ Vscode!Decided(read, p.session).credits[p] = p
    BY <2>2, VscodeHere
  <2> QED BY <1>11, <2>1, <2>3
<1>13. \E d \in R : Vscode!Observation(d) = p /\ d.row = q
  <2> DEFINE d == VscodeCandidate(read, g, q)
  <2>1. d \in R
    BY <1>7, <1>8 DEF VscodeCanon
  <2>2. d.row = q /\ VscodeObserves(d)
    BY <1>0, <1>7, <1>8, VscodeRowIs DEF VscodeCanon, VscodeTells
  <2> HIDE DEF d
  <2> QED BY <2>1, <2>2 DEF VscodeObserves
<1>14. o # None /\ p # None
  BY <1>3, <1>4, <1>13, <1>0, VscodeFiniteRows, VscodeCandidateIs DEF VscodeObserves
<1> DEFINE undecided == \E d \in R : d.row.kind = "session_control" /\ VscodeA(s)[Vscode!Observation(d)] = None
<1>15. \A x : x \in VscodeObserved(read, s) /\ x.quantity # None =>
          Vscode!Decided(read, s).credits[x] =
            IF undecided THEN None
            ELSE IF K = {} THEN VscodeA(s)[x]
            ELSE IF x = Vscode!Observation(m) THEN x
            ELSE IF VscodeA(s)[x] # None /\ Vscode!Covers(R, m, x) THEN Vscode!Observation(m)
            ELSE VscodeA(s)[x]
  BY <1>0, VscodeCreditsAre
<1>16. m \in K /\ m \in R
  BY <1>0, <1>6, VscodeGreatest DEF VscodeKnown
<1> HIDE DEF p, K, R, m, undecided
<1>17. Vscode!Covers(R, m, o)
  BY DEF Vscode!Covers
<1>18. o = Vscode!Observation(m)
  BY <1>1, <1>2, <1>6, <1>14, <1>15, <1>17
<1>19. ~Vscode!Covers(R, m, p)
  BY <1>6, <1>12, <1>14, <1>15, <1>18 DEF p
<1>20. p.kind # "session_control" /\ \A d \in R : Vscode!Observation(d) = p => ~(d.row.ordinal <= m.row.ordinal)
  BY <1>19 DEF Vscode!Covers
<1>21. m.row = r
  BY <1>0, <1>7, <1>8, <1>16, <1>18, VscodeCanonRow DEF R
<1> QED BY <1>11, <1>13, <1>20, <1>21

LEMMA VscodeCreditsKept == ASSUME Vscode!VscodeConstants, VscodeInv PROVE Vscode!CreditsKept
<1>0. VscodeReadIs
  BY VscodeReadIsOf
<1> SUFFICES ASSUME NEW o \in DOMAIN credits, credits[o] # None, credits[o] # o, credits[o].kind = "session_control",
                    o.kind # "session_control", \A t \in Vscode!Tellers(o.session) : \E r \in Vscode!FileRows[t.file] : Vscode!Facts(r) = o
             PROVE  /\ \A t \in Vscode!Ordering(o.session) :
                         \E r, q \in Vscode!FileRows[t.file] : Vscode!Facts(r) = o /\ Vscode!Facts(q) = credits[o] /\ r.ordinal <= q.ordinal
                    /\ \A t \in Vscode!Tellers(o.session) : \A q \in Vscode!FileRows[t.file] :
                         q.kind = "session_control" => q.amount # None /\ q.amount <= credits[o].amount
  BY DEF Vscode!CreditsKept
<1> DEFINE s == o.session
           x == credits[o]
           R == VscodeR(s)
           K == VscodeKnown(s)
           m == VscodeControl(s)
           v == VscodeA(s)[o]
           undecided == \E d \in R : d.row.kind = "session_control" /\ VscodeA(s)[Vscode!Observation(d)] = None
<1>1. o \in VscodeObserved(read, s) /\ o.quantity # None /\ x = Vscode!Decided(read, s).credits[o]
  BY VscodeHere
<1>2. x = IF undecided THEN None
          ELSE IF K = {} THEN v
          ELSE IF o = Vscode!Observation(m) THEN o
          ELSE IF v # None /\ Vscode!Covers(R, m, o) THEN Vscode!Observation(m)
          ELSE v
  BY <1>0, <1>1, VscodeCreditsAre
<1>3. x # None /\ x # o /\ x.kind = "session_control"
  OBVIOUS
<1>4. \A t \in Vscode!Tellers(s) : \E r \in Vscode!FileRows[t.file] : Vscode!Facts(r) = o
  OBVIOUS
<1> SUFFICES /\ \A t \in Vscode!Ordering(s) :
                  \E r, q \in Vscode!FileRows[t.file] : Vscode!Facts(r) = o /\ Vscode!Facts(q) = x /\ r.ordinal <= q.ordinal
             /\ \A t \in Vscode!Tellers(s) : \A q \in Vscode!FileRows[t.file] :
                  q.kind = "session_control" => q.amount # None /\ q.amount <= x.amount
  OBVIOUS
<1> HIDE DEF s, x
<1>5. ~undecided /\ v # None
  <2> HIDE DEF undecided, K, m, v, R
  <2> QED BY <1>2, <1>3
<1>6. R # {} /\ \A c \in R : Vscode!Observation(c) = o => v = o
  BY <1>0, <1>1, <1>5, VscodeStands
<1>7. PICK g : VscodeCanon(s, g)
  BY <1>0, <1>6, VscodeSettled
<1>8. \A h : VscodeTells(s, h) => VscodeAgreed(s, h)
  BY <1>0, <1>6, VscodeSettled
<1>9. \A t : t \in Vscode!Tellers(s) <=> \E h : VscodeTells(s, h) /\ t = [there |-> h.available, file |-> h.file]
  BY VscodeTellersAre
<1>10. \E t \in Vscode!Tellers(s) : t.file = g.file
  <2> DEFINE t == [there |-> g.available, file |-> g.file]
  <2>1. t \in Vscode!Tellers(s) /\ t.file = g.file
    BY <1>7, <1>9 DEF VscodeCanon
  <2> HIDE DEF t
  <2> QED BY <2>1
<1>11. PICK r \in Vscode!FileRows[g.file] : Vscode!Facts(r) = o
  BY <1>4, <1>10
<1>12. \E c \in R : Vscode!Observation(c) = o /\ c.row = r
  <2> DEFINE c == VscodeCandidate(read, g, r)
  <2>1. c \in R
    BY <1>7 DEF VscodeCanon
  <2>2. c.row = r /\ VscodeObserves(c)
    BY <1>0, <1>7, VscodeRowIs DEF VscodeCanon, VscodeTells
  <2> HIDE DEF c
  <2> QED BY <1>11, <2>1, <2>2 DEF VscodeObserves
<1>13. v = o
  BY <1>6, <1>12
<1>14. K # {} /\ o # Vscode!Observation(m) /\ Vscode!Covers(R, m, o) /\ x = Vscode!Observation(m)
  <2> HIDE DEF undecided, K, m, v, R
  <2> QED BY <1>2, <1>3, <1>5, <1>13
<1>15. m \in K /\ m \in R /\ m.row.amount \in Nat /\ m.row.kind = "session_control"
       /\ \A d \in K : d.row.amount \in Nat /\ d.row.amount <= m.row.amount
  BY <1>0, <1>14, VscodeGreatest DEF VscodeKnown
<1>16. VscodeObserves(m)
  BY <1>0, <1>15, VscodeFiniteRows, VscodeCandidateIs
<1>17. x.amount = m.row.amount
  BY <1>14, <1>16 DEF VscodeObserves, VscodeFields
<1>18. ASSUME NEW t \in Vscode!Ordering(s)
       PROVE  \E i, q \in Vscode!FileRows[t.file] : Vscode!Facts(i) = o /\ Vscode!Facts(q) = x /\ i.ordinal <= q.ordinal
  <2>1. t.file = g.file
    BY <1>0, <1>7, VscodeOrdering
  <2>2. PICK c \in R : Vscode!Observation(c) = o /\ c.row.ordinal <= m.row.ordinal
    BY <1>14 DEF Vscode!Covers
  <2>3. c.row \in Vscode!FileRows[g.file] /\ m.row \in Vscode!FileRows[g.file]
    BY <1>7, <1>15 DEF VscodeCanon, VscodeOf
  <2>4. Vscode!Facts(c.row) = o /\ Vscode!Facts(m.row) = x
    BY <1>14, <2>2 DEF Vscode!Observation
  <2> QED BY <2>1, <2>2, <2>3, <2>4
<1>19. ASSUME NEW t \in Vscode!Tellers(s), NEW q \in Vscode!FileRows[t.file], q.kind = "session_control"
       PROVE  q.amount # None /\ q.amount <= x.amount
  <2>1. PICK h : VscodeTells(s, h) /\ t.file = h.file
    BY <1>9
  <2>2. PICK c \in R : Vscode!Observation(c) = Vscode!Facts(q)
    BY <1>8, <2>1 DEF VscodeAgreed
  <2>3. c \in VscodeC(s) /\ VscodeObserves(c)
    BY <1>0, <2>2, VscodeFiniteRows, VscodeCandidateIs
  <2>4. h.file \in VscodeFiles
    BY <1>0, <2>1 DEF VscodeTells, VscodeReadIs, VscodeReadings
  <2>5. Vscode!Facts(q).kind = q.kind /\ Vscode!Facts(q).amount = q.amount
    BY <2>1, <2>4, VscodeRowOf DEF VscodeFields
  <2>6. c.row.kind = q.kind /\ c.row.amount = q.amount
    BY <2>2, <2>3, <2>5 DEF VscodeObserves, VscodeFields
  <2>7. VscodeA(s)[Vscode!Observation(c)] # None
    BY <1>5, <1>19, <2>2, <2>6
  <2>8. Vscode!Observation(c) \in VscodeObserved(read, s)
    BY <2>3, Zenon DEF VscodeObserved, VscodeC
  <2>9. VscodeA(s)[Vscode!Observation(c)] = Vscode!Observation(c) /\ VscodeUsable(s, c)
    BY <1>0, <2>2, <2>7, <2>8, VscodeStands
  <2>10. c.row.quantity = "known"
    BY <1>19, <2>3, <2>6, <2>9 DEF VscodeObserves, VscodeUsable
  <2>11. c \in K
    BY <1>19, <2>2, <2>6, <2>9, <2>10 DEF VscodeKnown
  <2>12. q.amount \in Nat /\ q.amount <= x.amount
    BY <1>15, <1>17, <2>6, <2>11
  <2> QED BY <2>12 DEF Vscode!VscodeConstants
<1> QED BY <1>18, <1>19

(* Every property of the accounts of VS Code chats follows from the invariant. *)
LEMMA VscodeSafe ==
  ASSUME Vscode!VscodeConstants, VscodeInv
  PROVE  Vscode!TypeOK /\ Vscode!Incremental /\ Vscode!OnlyWhatIsTold /\ Vscode!CountedOnce /\ Vscode!CreditsOnce /\ Vscode!CreditsKept
BY VscodeTypes, VscodeOnlyTold, VscodeOnce, VscodeCreditsOnce, VscodeCreditsKept DEF VscodeInv

(***************************************************************************)
(* The suite: whatever the harness, what holds of its accounts.            *)
(***************************************************************************)
SuiteInv ==
  /\ harness = "pi" => PiInv
  /\ harness = "codex" => CodexInv
  /\ harness = "claude" => ClaudeTypesInv
  /\ harness = "cli" => CliInv
  /\ harness = "vscode" => VscodeInv

LEMMA SuiteConstants ==
  Pi!PiConstants /\ Codex!CodexConstants /\ Claude!ClaudeConstants /\ Cli!CliConstants /\ Vscode!VscodeConstants
BY Constants

LEMMA SuiteInit == ASSUME Init PROVE SuiteInv
<1>1. CASE harness = "pi" /\ Pi!Init
  BY <1>1, PiInit, SuiteConstants DEF SuiteInv
<1>2. CASE harness = "codex" /\ Codex!LedgerInit
  BY <1>2, CodexInit, SuiteConstants DEF SuiteInv
<1>3. CASE harness = "claude" /\ Claude!Init
  BY <1>3, ClaudeTypesInit, SuiteConstants DEF SuiteInv
<1>4. CASE harness = "cli" /\ Cli!Init
  BY <1>4, CliInit, SuiteConstants DEF SuiteInv
<1>5. CASE harness = "vscode" /\ Vscode!Init
  BY <1>5, VscodeInit, SuiteConstants DEF SuiteInv
<1> QED BY <1>1, <1>2, <1>3, <1>4, <1>5 DEF Init

(* A harness's own steps keep what its decisions are; nothing else touches them. *)
LEMMA SuiteStep == ASSUME SuiteInv, [Next]_vars PROVE SuiteInv'
<1>1. CASE UNCHANGED vars
  <2> USE <1>1 DEF vars
  <2>0. harness' = harness
    OBVIOUS
  <2>1. harness = "pi" => PiInv'
    <3>1. UNCHANGED Pi!vars
      BY DEF Pi!vars
    <3> QED BY <3>1, PiStep, SuiteConstants DEF SuiteInv
  <2>2. harness = "codex" => CodexInv'
    <3>1. UNCHANGED Codex!ledgerVars
      BY DEF Codex!ledgerVars
    <3> QED BY <3>1, CodexStep, SuiteConstants DEF SuiteInv
  <2>3. harness = "claude" => ClaudeTypesInv'
    <3>1. UNCHANGED Claude!vars
      BY DEF Claude!vars
    <3> QED BY <3>1, ClaudeTypesStep, SuiteConstants DEF SuiteInv
  <2>4. harness = "cli" => CliInv'
    <3>1. UNCHANGED Cli!vars
      BY DEF Cli!vars
    <3> QED BY <3>1, CliStep, SuiteConstants DEF SuiteInv
  <2>5. harness = "vscode" => VscodeInv'
    <3>1. UNCHANGED Vscode!vars
      BY DEF Vscode!vars
    <3> QED BY <3>1, VscodeStep, SuiteConstants DEF SuiteInv
  <2> QED BY <2>0, <2>1, <2>2, <2>3, <2>4, <2>5 DEF SuiteInv
<1>2. CASE harness = "pi" /\ Pi!Next /\ harness' = harness
  BY <1>2, PiStep, SuiteConstants DEF SuiteInv
<1>3. CASE harness = "codex" /\ Codex!Next /\ harness' = harness
  BY <1>3, CodexStep, SuiteConstants DEF SuiteInv
<1>4. CASE harness = "claude" /\ Claude!Next /\ harness' = harness
  BY <1>4, ClaudeTypesStep, SuiteConstants DEF SuiteInv
<1>5. CASE harness = "cli" /\ Cli!Next /\ harness' = harness
  BY <1>5, CliStep, SuiteConstants DEF SuiteInv
<1>6. CASE harness = "vscode" /\ Vscode!Next /\ harness' = harness
  BY <1>6, VscodeStep, SuiteConstants DEF SuiteInv
<1>7. Next => \/ harness = "pi" /\ Pi!Next /\ harness' = harness
              \/ harness = "codex" /\ Codex!Next /\ harness' = harness
              \/ harness = "claude" /\ Claude!Next /\ harness' = harness
              \/ harness = "cli" /\ Cli!Next /\ harness' = harness
              \/ harness = "vscode" /\ Vscode!Next /\ harness' = harness
  BY DEF Next
<1> QED BY <1>1, <1>2, <1>3, <1>4, <1>5, <1>6, <1>7

LEMMA SuiteAlways == Spec => []SuiteInv
<1>1. Init => SuiteInv
  BY SuiteInit
<1>2. SuiteInv /\ [Next]_vars => SuiteInv'
  BY SuiteStep
<1> QED BY <1>1, <1>2, PTL DEF Spec

(* Every variable of a harness has its type: decided is what was read, for some
   of what was read. *)
THEOREM SuiteTypes == Spec => []TypeOK
<1>1. SuiteInv => TypeOK
  BY SuiteConstants, PiSafe, CodexSafe, ClaudeTypesHold, CliSafe, VscodeSafe DEF SuiteInv, TypeOK
<1> QED BY <1>1, SuiteAlways, PTL

(* Storage._reconcile decides only what its dependency closures reach from the
   files of a transaction, and leaves, for every harness, the decisions and
   warnings that deciding everything would make: for any files in any order and
   batches, for rewritten and vanished ones. *)
THEOREM SuiteDecidedAsAll == Spec => []Incremental
<1>1. ClaudeTypesInv => Claude!Incremental
  BY DEF ClaudeTypesInv, ClaudeAccountsInv
<1>2. SuiteInv => Incremental
  BY <1>1, SuiteConstants, PiSafe, CodexSafe, CliSafe, VscodeSafe DEF SuiteInv, Incremental
<1> QED BY <1>2, SuiteAlways, PTL

(* One use counts once: forks and copies of Pi, the dialects and repeated totals
   of Codex, the lines of a Claude call, tokens and credits of VS Code. *)
THEOREM SuiteCountsOnce == Spec => []CountedOnce
<1>1. ClaudeTypesInv => Claude!CountedOnce
  BY SuiteConstants, ClaudeOnceCounted DEF ClaudeTypesInv
<1>2. SuiteInv => CountedOnce
  BY <1>1, SuiteConstants, PiSafe, CodexSafe, VscodeSafe DEF SuiteInv, CountedOnce
<1> QED BY <1>2, SuiteAlways, PTL

(* What an exclusion names counts and says the same: no decision loses a use. *)
THEOREM SuiteLosesNothing == Spec => []NothingLost
<1>1. ClaudeTypesInv => Claude!NothingLost
  BY SuiteConstants, ClaudeLosesNothing DEF ClaudeTypesInv
<1>2. SuiteInv => NothingLost
  BY <1>1, SuiteConstants, PiSafe, CodexSafe, VscodeSafe DEF SuiteInv, NothingLost
<1> QED BY <1>2, SuiteAlways, PTL

(* A use is taken for a copy only where the histories prove it, and what counts
   is in the files as they are now. *)
THEOREM SuiteProvesCopies == Spec => []CopiesProven
<1>1. SuiteInv => CopiesProven
  BY SuiteConstants, PiSafe, CodexSafe, CliSafe, VscodeSafe DEF SuiteInv, CopiesProven
<1> QED BY <1>1, SuiteAlways, PTL

(* The last word of a growing use counts: final outputs and the current reader's
   readings (Claude Code), the largest counters of a session (Copilot CLI). *)
THEOREM SuiteLastWord == Spec => []LastWordCounts
<1>1. ClaudeTypesInv => Claude!FinalWins /\ Claude!UpgradeHeals
  BY SuiteConstants, ClaudeLastWord, ClaudeHeals DEF ClaudeTypesInv
<1>2. SuiteInv => LastWordCounts
  BY <1>1, SuiteConstants, CliSafe DEF SuiteInv, LastWordCounts
<1> QED BY <1>2, SuiteAlways, PTL

(* Contradictory evidence never counts, in whatever order it came. *)
THEOREM SuiteUndisputed == Spec => []UndisputedOnly
<1>1. SuiteInv => UndisputedOnly
  BY SuiteConstants, PiSafe, CodexSafe, CliSafe DEF SuiteInv, UndisputedOnly
<1> QED BY <1>1, SuiteAlways, PTL
=============================================================================
