-------------------------- MODULE CodexAccounting --------------------------
(* Which recorded uses of Codex threads count: the tables Storage keeps of the
   files it read, the sessions a changed file can affect, and the decisions
   reconcile_codex makes about them.

   A generation is one reading of a file: its locator, the thread and parent
   of its header, its cwd, and its rows (see CodexReader).  The decisions on
   one measure are modelled; reasons are left out. *)
EXTENDS CodexReader

CONSTANTS Measure,   \* the counter whose decisions are modelled
          Files,     \* the files an import may find, when nobody writes them
          MaxBatch,  \* files committed per transaction (32 in the code)
          MaxRead    \* bound: generations imported

VARIABLES read,          \* the retained generations
          decision,      \* table decision: None, the observation itself, or the one it is excluded for
          modelDisputes  \* the observations with a codex_model_conflict diagnostic

ledgerVars == <<read, decision, modelDisputes>>

-----------------------------------------------------------------------------
(* The tables, as functions of the set L of retained generations. *)

(* _insert_observation: equal rows of one session are one observation. *)
Observation(row) == [owner |-> row.owner, entry |-> row.entry, at |-> row.at,
                     model |-> row.model, last |-> row.last]
Rows(L) == UNION {{g.rows[i] : i \in DOMAIN g.rows} : g \in L}
Observations(L) == {Observation(r) : r \in Rows(L)}
Evidence(L, o) == {r \in Rows(L) : Observation(r) = o}

(* A header, or a response record that names its thread, makes the session. *)
KnownThreads(L) == {g.thread : g \in L} \cup {r.owner : r \in Rows(L)}
Parents(L, t) == {g.parent : g \in {h \in L : h.thread = t}} \ {None}

(* Slip: the directories are not compared. *)
ConflictingParents(L, t) == Cardinality(Parents(L, t)) > 1

(* More than one parent, or a header that contradicts the first. *)
Conflicting(L, t) == \/ Cardinality(Parents(L, t)) > 1
                     \/ \E g, h \in L : g.thread = t /\ h.thread = t /\ g.cwd # h.cwd
Parent(L, t) == IF Cardinality(Parents(L, t)) = 1 THEN CHOOSE p \in Parents(L, t) : TRUE ELSE None
MissingParent(L, t) == Parent(L, t) # None /\ Parent(L, t) \notin KnownThreads(L)

(* From the thread upwards; None past the last.  A line that does not end after
   as many threads as there are generations to name a parent runs in a circle. *)
Lineage(L, t) ==
  LET line[k \in 0 .. MaxRead + 1] ==
        IF k = 0 THEN t ELSE IF line[k - 1] = None THEN None ELSE Parent(L, line[k - 1])
  IN line
Circular(L, t) == LET line == Lineage(L, t) IN \A k \in DOMAIN line : line[k] # None
Ancestors(L, t) == LET line == Lineage(L, t) IN {line[k] : k \in DOMAIN line \ {0}} \ {None, t}

-----------------------------------------------------------------------------
(* The candidates of the threads in scope: the row that says most of each
   observation.  Rows that say as much come from copies and agree. *)
Says(r) == (IF r.mirror # None THEN 2 ELSE 0) + (IF r.usable THEN 1 ELSE 0)
Candidate(L, o) == CHOOSE r \in Evidence(L, o) : \A q \in Evidence(L, o) : Says(q) <= Says(r)
Candidates(L, scope) == {Candidate(L, o) : o \in {p \in Observations(L) : p.owner \in scope}}

(* Slip: a copy stamped anew has another value. *)
ValueStamped(r) == <<Count(r.last, Measure), r.at>>
Value(r) == Count(r.last, Measure)
(* Slip: the numbers are not compared. *)
AgreeAlways(C) == TRUE
Agree(C) == \A c, d \in C : Value(c) = Value(d)
Before(c, d) == IF c.at = None THEN d.at = None ELSE d.at = None \/ c.at <= d.at
Canonical(C) == CHOOSE c \in C : \A d \in C : Before(c, d)

OfResponse(C, id) == {c \in C : c.kind = "response" /\ c.response # None /\ c.response = id}
OfCount(C, thread, total) == {c \in C : /\ c.response = None /\ c.total # None
                                        /\ c.owner = thread /\ c.total = total}
(* Slip: a count is looked for beside its response only. *)
NoTwins(C, c) == {}
ModernTwins(C, c) == {d \in C : /\ d.kind = "response" /\ d.response # None
                                /\ d.total # None /\ d.last # None
                                /\ d.owner = c.owner /\ d.total = c.total /\ d.last = c.last}

(* The part of a file that repeats an ancestor's counts ends at its first row
   that is not one; an observation seen after such an end is no repetition. *)
AncestorCounts(L, C, t) == {<<c.total, c.last>> : c \in {d \in C : /\ d.kind = "legacy" /\ d.total # None
                                                                /\ d.owner \in Ancestors(L, t)}}
Inherits(L, C, r) == r.kind = "legacy" /\ <<r.total, r.last>> \in AncestorCounts(L, C, r.owner)
(* Slip: a file that goes on repeats nothing. *)
InheritedWhole(L, C, g, i) == \A j \in DOMAIN g.rows : Inherits(L, C, g.rows[j])
InheritedTo(L, C, g, i) == \A j \in 1 .. i : Inherits(L, C, g.rows[j])
(* Slip: what follows the repeated part is taken for repeated too. *)
ReplayedAnywhere(L, C, o) == \E g \in L : \E i \in DOMAIN g.rows :
                               Observation(g.rows[i]) = o /\ Inherits(L, C, g.rows[i])
Replayed(L, C, o) ==
  \A g \in L : \A i \in DOMAIN g.rows :
    Observation(g.rows[i]) = o => InheritedTo(L, C, g, i)

-----------------------------------------------------------------------------
(* reconcile_codex: select, over the candidates C.  Every call is about another
   candidate or ends in a cycle, which is unresolved; so is what runs out of
   steps. *)

(* The ancestor whose count a row repeats: the search fails at a thread without
   its parent and in a circle (where it comes back to the thread itself, too). *)
Searched(L, t, k) == LET line == Lineage(L, t) IN
  \A j \in 0 .. k - 1 : line[j] # None /\ ~MissingParent(L, line[j]) /\ line[j] \notin {line[i] : i \in 0 .. j - 1}
Matches(C, t, c) == {d \in OfCount(C, t, c.total) : d.last = c.last}
MatchingAncestors(L, C, c) ==
  IF ~Replayed(L, C, Observation(c)) THEN {}
  ELSE LET line == Lineage(L, c.owner) IN
       {k \in DOMAIN line \ {0} : /\ line[k] \in Ancestors(L, c.owner) /\ Searched(L, c.owner, k)
                                /\ Matches(C, line[k], c) # {}}
Nearest(K) == CHOOSE k \in K : \A j \in K : k <= j
SearchFails(L, t) == Circular(L, t) \/ \E a \in {t} \cup Ancestors(L, t) : MissingParent(L, a)

(* The candidate a row stands back for: itself, another, or None when the
   evidence contradicts itself. *)
InFavourOf(L, C, c) ==
  LET group == IF c.kind = "response" THEN OfResponse(C, c.response) ELSE OfCount(C, c.owner, c.total)
      mirrored == OfResponse(C, c.mirror)
      twins == IF c.kind = "legacy" /\ c.last # None THEN ModernTwins(C, c) ELSE {}
      ancestors == MatchingAncestors(L, C, c)
      originals == Matches(C, Lineage(L, c.owner)[Nearest(ancestors)], c)
      counted == IF ancestors # {} THEN IF Agree(originals \cup {c}) THEN Canonical(originals) ELSE None
                 ELSE IF SearchFails(L, c.owner) THEN None ELSE c
  IN IF Conflicting(L, c.owner) THEN None
     ELSE IF c.mirror # None
       THEN IF mirrored # {} /\ Agree(mirrored \cup {c}) THEN Canonical(mirrored) ELSE None
     ELSE IF twins # {}
       THEN IF Cardinality({d.response : d \in twins}) = 1 /\ Agree(twins \cup {c}) THEN Canonical(twins) ELSE None
     ELSE IF ~c.usable \/ ~Agree(group) \/ Cardinality({d.owner : d \in group}) # 1 THEN None
     ELSE IF Canonical(group) # c THEN Canonical(group)
     ELSE IF c.kind = "response" THEN c ELSE counted

Decide(L, scope) ==
  LET C == Candidates(L, scope)
      favour == [c \in C |-> InFavourOf(L, C, c)]
      select[k \in 0 .. Cardinality(C)] == [c \in C |->
        IF k = 0 \/ favour[c] = None THEN None
        ELSE IF favour[c] = c THEN c ELSE select[k - 1][favour[c]]]
      selected == select[Cardinality(C)]
  IN [o \in {Observation(c) : c \in C} |->
        LET c == selected[CHOOSE d \in C : Observation(d) = o]
        IN IF c = None THEN None ELSE Observation(c)]

(* Responses reported with two models: their counts agree, their price does not. *)
Disputes(L, scope) ==
  LET rows == {r \in Rows(L) : r.owner \in scope /\ r.kind = "response" /\ r.response # None}
  IN {Observation(r) : r \in {q \in rows : \E p \in rows : p.response = q.response /\ p.model # q.model}}

-----------------------------------------------------------------------------
(* import_sources: _import_source for each file, then _reconcile. *)

(* _affected_sessions: what is connected to a changed file through headers,
   rows, response names and parents, whether those exist or not. *)
Thread(t) == <<"thread", t>>
(* Slip: the names of responses connect nothing. *)
LinksWithoutNames(L) ==
  {{<<"locator", g.locator>>, Thread(g.thread)} : g \in L}
  \cup {{Thread(g.thread), Thread(g.parent)} : g \in {h \in L : h.parent # None}}
  \cup UNION {{{<<"locator", g.locator>>, Thread(g.rows[i].owner)} : i \in DOMAIN g.rows} : g \in L}
Links(L) ==
  {{<<"locator", g.locator>>, Thread(g.thread)} : g \in L}
  \cup {{Thread(g.thread), Thread(g.parent)} : g \in {h \in L : h.parent # None}}
  \cup (UNION {{{<<"locator", g.locator>>, Thread(g.rows[i].owner)} : i \in DOMAIN g.rows} : g \in L})
  \cup {{Thread(r.owner), <<"response", r.response>>} : r \in {q \in Rows(L) : q.response # None}}
  \cup {{Thread(r.owner), <<"response", r.mirror>>} : r \in {q \in Rows(L) : q.mirror # None}}
Closure(links, start) ==
  LET reached[k \in 0 .. Cardinality(links)] ==
        IF k = 0 THEN start
        ELSE LET near == reached[k - 1] IN near \cup UNION {l \in links : l \cap near # {}}
  IN reached[Cardinality(links)]
Affected(L, locators) ==
  LET near == Closure(Links(L), {<<"locator", l>> : l \in locators})
  IN {t \in KnownThreads(L) : Thread(t) \in near}

Batches(G) == {b \in SUBSET G : /\ b # {} /\ Cardinality(b) <= MaxBatch
                                /\ \A g, h \in b : g.locator = h.locator => g = h}

(* Slip: every decision is deleted before the affected ones are made again. *)
ImportForgetting(b) ==
  LET L == read \cup b
      scope == Affected(L, {g.locator : g \in b})
  IN /\ Cardinality(L) <= MaxRead
     /\ read' = L
     /\ decision' = Decide(L, scope)
     /\ modelDisputes' = {o \in modelDisputes : o.owner \notin scope} \cup Disputes(L, scope)

(* The rows outside the scope keep what was decided about them. *)
Import(b) ==
  LET L == read \cup b
      scope == Affected(L, {g.locator : g \in b})
      decided == Decide(L, scope)
  IN /\ Cardinality(L) <= MaxRead
     /\ read' = L
     /\ decision' = [o \in Observations(L) |-> IF o.owner \in scope THEN decided[o] ELSE decision[o]]
     /\ modelDisputes' = {o \in modelDisputes : o.owner \notin scope} \cup Disputes(L, scope)

LedgerInit == read = {} /\ decision = [o \in {} |-> None] /\ modelDisputes = {}

(* A file keeps its place; its contents are read as they are found. *)
Generation(file) == [locator |-> file.locator, thread |-> file.thread, parent |-> file.parent,
                     cwd |-> file.cwd, rows |-> ReadRows(file)]
CodexConstants ==
  /\ Measure \in Fields /\ MaxBatch \in Nat \ {0} /\ MaxRead \in Nat /\ IsFiniteSet(Files)
  /\ \A f \in Files : Len(f.lines) \in Nat /\ \A n \in 1 .. Len(f.lines) :
       f.lines[n].type \in {"response", "count"} => f.lines[n].at \in Nat \cup {None}
  /\ LET L == {Generation(f) : f \in Files} IN None \notin Rows(L) \cup Observations(L)
Next == \E b \in Batches({Generation(f) : f \in Files} \ read) : Import(b)
Spec == LedgerInit /\ [][Next]_ledgerVars

-----------------------------------------------------------------------------
(* Properties. *)

(* Every variable has its type. *)
TypeOK == /\ \A g \in read : DOMAIN g = {"locator", "thread", "parent", "cwd", "rows"}
          /\ Cardinality(read) <= MaxRead
          /\ DOMAIN decision = Observations(read)
          /\ \A o \in DOMAIN decision : decision[o] \in DOMAIN decision \cup {None}
          /\ modelDisputes \subseteq Observations(read)

(* Deciding only where the closure reaches decides as deciding everywhere: a
   file that shares a thread, an ancestor or a response with others, whatever
   the order, leaves no stale decision or price warning behind. *)
Incremental == LET all == KnownThreads(read) IN
                 decision = Decide(read, all) /\ modelDisputes = Disputes(read, all)

Counted == {o \in DOMAIN decision : decision[o] = o}
RowsOf(o) == Evidence(read, o)

(* One use counts once: no two observations count that report one response,
   one running total of one thread, or a call in both dialects. *)
CountedOnce ==
  \A o, p \in Counted : o # p =>
    \A r \in RowsOf(o), q \in RowsOf(p) :
      /\ r.response # None => r.response \notin {q.response, q.mirror}
      /\ r.kind = "legacy" /\ r.owner = q.owner /\ (\A x \in RowsOf(p) : x.total = r.total) =>
           q.kind = "response" /\ q.last # r.last

(* No use is lost by being excluded: it stands for one that counts, with the
   same number. *)
NothingLost ==
  \A o \in DOMAIN decision \ Counted : decision[o] # None =>
    decision[o] \in Counted /\ Count(decision[o].last, Measure) = Count(o.last, Measure)

(* Nothing counts on contradictory evidence: not in a thread whose files
   disagree on its parent or its directory, nor for a response that two threads
   claim or two records number differently. *)
UndisputedOnly ==
  \A o \in Counted :
    /\ \A g, h \in read : g.thread = o.owner /\ h.thread = o.owner =>
                            g.cwd = h.cwd /\ (g.parent = h.parent \/ None \in {g.parent, h.parent})
    /\ \A r \in RowsOf(o), q \in Rows(read) :
         r.response # None /\ q.response = r.response => q.owner = r.owner /\ Value(q) = Value(r)

(* Only a descendant's use is ever taken for another thread's: for one of an
   ancestor, or for a response that stands beside a count of the thread or of
   an ancestor.  The latter apart, a count of this running total then stands
   in its thread where nothing stands above it, in any file that holds it, but
   counts that ancestors made too. *)
CopiesAreInherited ==
  \A o \in DOMAIN decision \ Counted : decision[o] # None /\ decision[o].owner # o.owner =>
    \A r \in RowsOf(o) :
      LET above == Ancestors(read, o.owner)
          beside(t) == {q \in Rows(read) : q.owner = t /\ q.mirror # None /\ q.total = r.total}
          inherited(q) == /\ q.kind = "legacy"
                          /\ \E p \in Rows(read) : /\ p.kind = "legacy" /\ p.owner \in Ancestors(read, q.owner)
                                                   /\ p.total = q.total /\ p.last = q.last
      IN /\ \/ decision[o].owner \in above
            \/ \E t \in {o.owner} \cup above : \E q \in beside(t), a \in RowsOf(decision[o]) : q.mirror = a.response
         /\ \/ beside(o.owner) # {}
            \/ \E p \in Rows(read) :
                 /\ p.owner = o.owner /\ p.total = r.total
                 /\ \A g \in read : \A i \in DOMAIN g.rows : Observation(g.rows[i]) = Observation(p) =>
                      \A j \in 1 .. i : inherited(g.rows[j])
=============================================================================
