---------------------------- MODULE PiAccounting ----------------------------
(* Which recorded uses of Pi sessions count.  A forked or resumed session
   begins with a copy of its parent's entries, so one use may be recorded in
   many files; files arrive in any order, disagree, and name parents that are
   missing, ambiguous or their own descendants.  After each committed batch of
   files Storage decides again, but only for the sessions its dependency
   closure reaches.

   The decisions on one measure are modelled; the others differ in the values.
   A use is selected (it counts), excluded in favour of another use, or
   unresolved.  Reasons are left out. *)
EXTENDS Integers, Sequences, FiniteSets

CONSTANTS Sources,   \* the contents session files can have, see SourceType
          Sessions, Locators, Natives, Uses,
          None,
          MaxBatch,  \* payloads committed per transaction (32 in the code)
          MaxSources \* bound: generations imported

(* A use has a value of the measure and a kind ("assistant" stands for every
   kind that may count); the number stands for the digest that names the
   observation. *)
UseKinds == {"assistant", "tool_result", "pending"}
UseType == [id : Nat, value : Nat, kind : UseKinds]
EntryType == [parent : Natives \cup {None}, use : Uses \cup {None}]
Headers == [parent : Locators \cup {None}, start : Nat]
SourceType == [locator : Locators, session : Sessions, header : Headers,
               entries : UNION {[N -> EntryType] : N \in SUBSET Natives}, damaged : BOOLEAN]

PiConstants == /\ IsFiniteSet(Sessions) /\ IsFiniteSet(Locators) /\ IsFiniteSet(Natives)
               /\ Sessions \cap Locators = {} /\ Sources \subseteq SourceType
               /\ None \notin Sessions \cup Locators \cup Natives /\ None \notin Uses /\ None \notin Headers
               /\ None \notin [session : Sessions, native : Natives, use : Uses]
               /\ Uses \subseteq UseType
               /\ \A u, v \in Uses : u.id = v.id => u = v
               /\ MaxBatch \in Nat \ {0} /\ MaxSources \in Nat

VARIABLES ledger,     \* the tables the accounting reads, see Tables
          decision    \* table decision: None, the use itself, or the one it is excluded for

vars == <<ledger, decision>>

(* sources: the retained generations, whatever their order; header: the header
   each session was first imported with; conflicted: the sessions with a
   header_conflict diagnostic. *)
Tables == [sources : SUBSET Sources, header : [Sessions -> Headers \cup {None}],
           conflicted : SUBSET Sessions]

Init == /\ ledger = [sources |-> {}, header |-> [s \in Sessions |-> None], conflicted |-> {}]
        /\ decision = [o \in {} |-> None]

-----------------------------------------------------------------------------
(* The tables L as _reconcile reads them. *)

KnownSessions(L) == {s \in Sessions : L.header[s] # None}
GenerationsOf(L, s) == {g \in L.sources : g.session = s}
SessionsAt(L, l) == {g.session : g \in {h \in L.sources : h.locator = l}}

(* One session was ever read at the locator; else it names nobody. *)
Locates(L, l) == l # None /\ Cardinality(SessionsAt(L, l)) = 1
Parent(L, s) == IF L.header[s] # None /\ Locates(L, L.header[s].parent)
                THEN CHOOSE p \in SessionsAt(L, L.header[s].parent) : TRUE
                ELSE None
MissingParent(L, s) == /\ L.header[s] # None
                       /\ L.header[s].parent # None
                       /\ ~Locates(L, L.header[s].parent)

(* entry_edge and observation, over all generations of a session.  Which of two
   parents an entry gets is of no account: its session is in conflict then. *)
Entries(L, s, n) == {g.entries[n] : g \in {h \in GenerationsOf(L, s) : n \in DOMAIN h.entries}}
ParentsOf(L, s, n) == {e.parent : e \in Entries(L, s, n)}
EntryParent(L, s, n) == CHOOSE p \in ParentsOf(L, s, n) : TRUE
UsesOf(L, s, n) == {e.use : e \in Entries(L, s, n)} \ {None}
Observations(L) == UNION {{[session |-> s, native |-> n, use |-> u] : u \in UsesOf(L, s, n)} :
                            s \in Sessions, n \in Natives}

(* header_conflict, a reader's diagnostic, or two parents for one entry. *)
Conflicting(L, s) == \/ s \in L.conflicted
                     \/ \E g \in GenerationsOf(L, s) : g.damaged
                     \/ \E n \in Natives : Cardinality(ParentsOf(L, s, n)) > 1

-----------------------------------------------------------------------------
(* reconcile, over the candidates of the sessions in scope. *)

Same(u, v) == u.value = v.value /\ u.kind = v.kind
ConflictingEntry(L, s, n) == \E u, v \in UsesOf(L, s, n) : ~Same(u, v)
Representative(L, s, n) == CHOOSE u \in UsesOf(L, s, n) : \A v \in UsesOf(L, s, n) : u.id <= v.id
Named(L, s, n) == [session |-> s, native |-> n, use |-> Representative(L, s, n)]

(* matching_path: from the entry to the root, both sessions have the same
   entries, with the same parents and the same uses.  No path is longer than
   there are entries, so one that is runs in a circle. *)
SameEntry(L, a, s, n) ==
  /\ Entries(L, a, n) # {} /\ Entries(L, s, n) # {}
  /\ EntryParent(L, a, n) = EntryParent(L, s, n)
  /\ ~ConflictingEntry(L, a, n) /\ ~ConflictingEntry(L, s, n)
  /\ UsesOf(L, a, n) = {} <=> UsesOf(L, s, n) = {}
  /\ UsesOf(L, a, n) # {} => Same(Representative(L, a, n), Representative(L, s, n))
MatchingPath(L, a, s, n) ==
  LET matching[k \in 0 .. Cardinality(Natives)] ==
        {m \in Natives \cup {None} :
           \/ m = None
           \/ k > 0 /\ SameEntry(L, a, s, m) /\ EntryParent(L, s, m) \in matching[k - 1]}
  IN n \in matching[Cardinality(Natives)]

(* The ancestors of a session, nearest first; None past the last. *)
Lineage(L, s) ==
  LET ancestor[k \in 0 .. Cardinality(Sessions)] ==
        IF k = 0 THEN s
        ELSE LET child == ancestor[k - 1] IN IF child = None THEN None ELSE Parent(L, child)
  IN ancestor

(* Slip: only the parent is searched for a copy. *)
StopsNear(L, scope, line, n, k) == \/ line[k] = None
                                   \/ line[k] \in {line[j] : j \in 0 .. k - 1}
                                   \/ k = 1 /\ line[k] \in scope /\ UsesOf(L, line[k], n) # {}
                                   \/ MissingParent(L, line[k])

(* The search for a copied entry ends at the first ancestor that has a
   candidate, lacks its own parent, was met before or does not exist. *)
Candidates(L, scope, s, n) == IF s \in scope THEN UsesOf(L, s, n) ELSE {}
Met(line, k) == line[k] \in {line[j] : j \in 0 .. k - 1}
Stops(L, scope, line, n, k) == \/ line[k] = None
                               \/ Met(line, k)
                               \/ Candidates(L, scope, line[k], n) # {}
                               \/ MissingParent(L, line[k])
StopsAt(L, scope, line, n) ==
  CHOOSE k \in DOMAIN line \ {0} : /\ Stops(L, scope, line, n, k)
                                  /\ \A j \in 1 .. k - 1 : ~Stops(L, scope, line, n, j)

(* Slip: the same entry with the same use is enough. *)
CopiedFromUse(L, scope, line, k, c) == /\ ~Met(line, k)
                                       /\ Candidates(L, scope, line[k], c.native) # {}
                                       /\ Same(Representative(L, line[k], c.native), c.use)

(* The ancestor an entry is proven to be copied from. *)
CopiedFrom(L, scope, line, k, c) == /\ ~Met(line, k)
                                    /\ Candidates(L, scope, line[k], c.native) # {}
                                    /\ Same(Representative(L, line[k], c.native), c.use)
                                    /\ MatchingPath(L, line[k], c.session, c.native)

(* select.  Every call is about another candidate or ends in a lineage cycle,
   which is unresolved; so is what runs out of steps. *)
Disputed(L, c) == \/ Conflicting(L, c.session) \/ ConflictingEntry(L, c.session, c.native)
                  \/ c.use.kind # "assistant"
                  \/ MissingParent(L, c.session)
(* Slip: a variant is excluded for the representative, excluded or not. *)
SelectVariant(L, scope, o) ==
  LET select[k \in 0 .. Cardinality(Sessions) + 1] == [c \in Observations(L) |->
        LET representative == Named(L, c.session, c.native)
            line == Lineage(L, c.session)
            stop == StopsAt(L, scope, line, c.native)
        IN IF k = 0 \/ Disputed(L, c) THEN None
           ELSE IF c # representative
                THEN IF select[k - 1][representative] = None THEN None ELSE representative
           ELSE IF line[stop] = None THEN c
           ELSE IF CopiedFrom(L, scope, line, stop, c)
                THEN select[k - 1][Named(L, line[stop], c.native)]
           ELSE None]
  IN select[Cardinality(Sessions) + 1][o]

Select(L, scope, o) ==
  LET select[k \in 0 .. Cardinality(Sessions) + 1] == [c \in Observations(L) |->
        LET representative == Named(L, c.session, c.native)
            line == Lineage(L, c.session)
            stop == StopsAt(L, scope, line, c.native)
        IN IF k = 0 \/ Disputed(L, c) THEN None
           ELSE IF c # representative THEN select[k - 1][representative]
           ELSE IF line[stop] = None THEN c
           ELSE IF CopiedFrom(L, scope, line, stop, c)
                THEN select[k - 1][Named(L, line[stop], c.native)]
           ELSE None]
  IN select[Cardinality(Sessions) + 1][o]

-----------------------------------------------------------------------------
(* import_sources, for a batch of Pi files: _import_source, then _reconcile. *)

(* Slip: the parents named by headers are forgotten. *)
NeighboursRead(L, S) ==
  {g.session : g \in {h \in L.sources : h.locator \in S}}
  \cup {g.locator : g \in {h \in L.sources : h.session \in S}}

(* _affected_sessions: whatever is connected to a changed file through files
   read and parents named, whether those exist or not. *)
Neighbours(L, S) ==
  {g.session : g \in {h \in L.sources : h.locator \in S}}
  \cup {g.locator : g \in {h \in L.sources : h.session \in S}}
  \cup {s \in KnownSessions(L) : L.header[s].parent \in S}
  \cup ({L.header[s].parent : s \in KnownSessions(L) \cap S} \ {None})
Affected(L, changed) ==
  LET reached[k \in 0 .. Cardinality(Sessions \cup Locators)] ==
        IF k = 0 THEN changed
        ELSE LET near == reached[k - 1] IN near \cup Neighbours(L, near)
  IN reached[Cardinality(Sessions \cup Locators)] \cap KnownSessions(L)

(* Slip: a generation may contradict the header. *)
InsertedQuietly(L, b) ==
  [sources |-> L.sources \cup {b[i] : i \in DOMAIN b},
   header |-> [s \in Sessions |->
                 IF L.header[s] # None \/ \A i \in DOMAIN b : b[i].session # s THEN L.header[s]
                 ELSE b[CHOOSE i \in DOMAIN b : b[i].session = s].header],
   conflicted |-> L.conflicted]

(* A session keeps its first header; a generation with another one is a
   conflict.  Content already retained is not imported again here: what it
   would insert is there. *)
Batches == {b \in UNION {[1 .. n -> Sources \ ledger.sources] : n \in 1 .. MaxBatch} :
              \A i, j \in DOMAIN b : b[i].locator = b[j].locator => i = j}
FirstHeader(L, b, s) ==
  IF L.header[s] # None \/ \A i \in DOMAIN b : b[i].session # s THEN L.header[s]
  ELSE b[CHOOSE i \in DOMAIN b : /\ b[i].session = s
                                 /\ \A j \in 1 .. i - 1 : b[j].session # s].header
Inserted(L, b) ==
  LET header == [s \in Sessions |-> FirstHeader(L, b, s)]
  IN [sources |-> L.sources \cup {b[i] : i \in DOMAIN b},
      header |-> header,
      conflicted |-> L.conflicted \cup
        {b[i].session : i \in {j \in DOMAIN b : b[j].header # header[b[j].session]}}]

(* Slip: every decision is deleted before the affected ones are made again. *)
ImportForgetting(b) ==
  LET scope == Affected(ledger', {b[i].locator : i \in DOMAIN b}) IN
    /\ Cardinality(ledger.sources) + Len(b) <= MaxSources
    /\ ledger' = Inserted(ledger, b)
    /\ decision' = [o \in {c \in Observations(ledger') : c.session \in scope} |->
                      Select(ledger', scope, o)]

Import(b) ==
  LET scope == Affected(ledger', {b[i].locator : i \in DOMAIN b}) IN
    /\ Cardinality(ledger.sources) + Len(b) <= MaxSources
    /\ ledger' = Inserted(ledger, b)
    /\ decision' = [o \in Observations(ledger') |->
                      IF o.session \in scope THEN Select(ledger', scope, o) ELSE decision[o]]

Next == \E b \in Batches : Import(b)

Spec == Init /\ [][Next]_vars

-----------------------------------------------------------------------------
(* Properties. *)

(* Every variable has its type. *)
TypeOK == /\ ledger \in Tables
          /\ ledger.conflicted \subseteq KnownSessions(ledger)
          /\ DOMAIN decision = Observations(ledger)
          /\ \A o \in DOMAIN decision : decision[o] \in DOMAIN decision \cup {None}

(* Deciding only where the closure reaches decides as deciding everywhere:
   no decision that a changed file could alter is left as it was. *)
Incremental == \A o \in DOMAIN decision : decision[o] = Select(ledger, KnownSessions(ledger), o)

(* One recorded use counts once: of the uses a session and its ancestors record
   for one entry at most one is selected, whichever file came first. *)
Ancestors(s) == {Lineage(ledger, s)[k] : k \in 1 .. Cardinality(Sessions)} \ {None}
Counted == {o \in DOMAIN decision : decision[o] = o}
CountedOnce ==
  \A o, p \in Counted : o # p /\ o.native = p.native
                          => o.session # p.session /\ o.session \notin Ancestors(p.session)

(* No use is lost by being excluded: it stands for one that is selected, of the
   same entry and value, in its own session or an ancestor. *)
NothingLost ==
  \A o \in DOMAIN decision \ Counted : decision[o] # None =>
    LET c == decision[o] IN
      /\ c \in Counted
      /\ c.native = o.native /\ Same(c.use, o.use)
      /\ c.session \in {o.session} \cup Ancestors(o.session)

(* Two sessions' uses are one only if their histories are: a use excluded for
   another session's has, entry by entry up to the root, the same parents and
   the same uses there. *)
Upwards(s, n) ==
  LET above[k \in 0 .. Cardinality(Natives)] ==
        IF k = 0 THEN n
        ELSE LET m == above[k - 1]
             IN IF m = None \/ Entries(ledger, s, m) = {} THEN None ELSE EntryParent(ledger, s, m)
  IN above
Recorded(s, n) == {<<e.parent, IF e.use = None THEN None ELSE <<e.use.value, e.use.kind>> >> :
                     e \in Entries(ledger, s, n)}
CopiesProven ==
  \A o \in DOMAIN decision \ Counted :
    decision[o] # None /\ decision[o].session # o.session =>
      LET c == decision[o] IN
        /\ Upwards(o.session, o.native) = Upwards(c.session, c.native)
        /\ \A k \in 0 .. Cardinality(Natives) :
             LET n == Upwards(o.session, o.native)[k]
             IN n # None => Recorded(o.session, n) \ {<<EntryParent(ledger, o.session, n), None>>}
                            = Recorded(c.session, n) \ {<<EntryParent(ledger, c.session, n), None>>}

(* Nothing counts on contradictory evidence: where the generations of a session
   disagree on its header or on an entry, in whatever order they came, the
   session's uses or the entry's stay unresolved and stand for no copies. *)
Contradicted(o) ==
  \/ \E g, h \in GenerationsOf(ledger, o.session) :
       \/ g.damaged \/ g.header # h.header
       \/ \E n \in DOMAIN g.entries \cap DOMAIN h.entries : g.entries[n].parent # h.entries[n].parent
  \/ ConflictingEntry(ledger, o.session, o.native)
UndisputedOnly ==
  \A o \in DOMAIN decision : decision[o] # None => ~Contradicted(o) /\ ~Contradicted(decision[o])
=============================================================================
