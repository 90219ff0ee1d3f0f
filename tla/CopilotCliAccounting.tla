------------------------ MODULE CopilotCliAccounting ------------------------
(* Which recorded counters of Copilot CLI sessions count.  Every control event
   repeats the counters of its session, so for each model the last one counts,
   and none if the retained files do not prove which is the last.  The counter
   stands for any measure of a model, the amount for any of the session. *)
EXTENDS CopilotCliReader

CONSTANTS Files,     \* the files an import may find
          MaxBatch,  \* files committed per transaction (32 in the code)
          MaxRead    \* bound: generations imported

VARIABLES read,     \* the retained generations: a file, its number and whether it is still there
          tokens,   \* decisions on a model's counter: None, the row itself, or the one it is excluded for
          amounts   \* decisions on the session's amount

vars == <<read, tokens, amounts>>

-----------------------------------------------------------------------------
(* The tables, as functions of the set L of generations.  E is all evidence,
   A the part of it that is decided about. *)

FileRows == [f \in Files |-> ReadRows(f)]
Sourced(g) == {[source |-> <<g.file.locator, g.number>>, row |-> r] : r \in FileRows[g.file]}
Evidence(L) == UNION {Sourced(g) : g \in L}
Facts(r) == [session |-> r.session, scope |-> r.scope, type |-> r.type, event |-> r.event, parent |-> r.parent,
             model |-> r.model, value |-> r.value, invalid |-> r.invalid, models |-> r.models, broken |-> r.broken]
Sessions(L) == {g.file.session : g \in {h \in L : Accepted(h.file)}}

(* Files are finite, their counters numbers; no row is None. *)
CliConstants ==
  /\ MaxBatch \in Nat \ {0} /\ MaxRead \in Nat
  /\ IsFiniteSet(Files) /\ None \notin Nat
  /\ \A f \in Files :
       /\ IsFiniteSet(DOMAIN f.events) /\ DOMAIN f.events \subseteq Nat \ {0} /\ (f.workspace => 1 \in DOMAIN f.events)
       /\ \A i \in DOMAIN f.events :
            /\ f.events[i].amount \in Nat \cup {None, Invalid}
            /\ IsFiniteSet(DOMAIN f.events[i].usage) /\ DOMAIN f.events[i].usage # None
            /\ \A m \in DOMAIN f.events[i].usage : m # None /\ f.events[i].usage[m] \in Nat \cup {Invalid}
       /\ \A r \in ReadRows(f) : Facts(r) # None

Newest(L, g) == \A h \in L : h.file.locator = g.file.locator => h.number <= g.number
(* Slip: an earlier reading of a replaced file goes on counting. *)
AnyReading(L, scope) == {e \in Evidence(L) : e.row.session \in scope}

(* The rows of the newest reading of each file, of those still there if a
   session has any. *)
ActiveRows(L, scope) ==
  LET rows == UNION {{[there |-> g.available, e |-> e] : e \in Sourced(g)} : g \in {h \in L : Newest(L, h)}}
      live == {r.e.row.session : r \in {q \in rows : q.there}}
  IN {r.e : r \in {q \in rows : q.e.row.session \in scope /\ (q.there \/ q.e.row.session \notin live)}}

(* What a file says of an event. *)
Signature(A, e) ==
  IF e.row.event = None THEN {Facts(e.row)}
  ELSE {Facts(f.row) : f \in {g \in A : g.source = e.source /\ g.row.event = e.row.event}}
(* Slip: that two sessions have an event in common is not noticed. *)
DisputedWithin(E, A, e) ==
  e.row.event # None /\ \E f \in A : f.row.session = e.row.session /\ f.row.event = e.row.event
                                     /\ Signature(A, f) # Signature(A, e)
(* An event of two sessions, or one of which two files do not say the same. *)
Disputed(E, A, e) ==
  e.row.event # None /\ \/ \E f \in E : f.row.event = e.row.event /\ f.row.session # e.row.session
                        \/ \E f \in A : /\ f.row.session = e.row.session /\ f.row.event = e.row.event
                                        /\ (f.row.parent # e.row.parent \/ Signature(A, f) # Signature(A, e))

Candidate(E, A, e, allowed) ==
  [e |-> e, node |-> <<IF e.row.event = None THEN Facts(e.row) ELSE e.row.event, Signature(A, e)>>,
   value |-> e.row.value, usable |-> ~e.row.invalid /\ ~Disputed(E, A, e), unknown |-> allowed]

-----------------------------------------------------------------------------
(* reconcile_copilot_cli, for the candidates G of one counter. *)

Nodes(G) == {c.node : c \in G}
At(G, n) == CHOOSE c \in G : c.node = n
(* One follows another if it does so in some file. *)
Edge(G, m, n) == m # n /\ \E a, b \in G : /\ a.node = m /\ b.node = n
                                          /\ a.e.source = b.e.source /\ a.e.row.line < b.e.row.line
Lasts(G) == {n \in Nodes(G) : \A m \in Nodes(G) : ~Edge(G, n, m)}
Acyclic(G) == \A S \in SUBSET Nodes(G) \ {{}} : \E n \in S : \A m \in S : ~Edge(G, m, n)
OneSignature(G) == \A m, n \in Nodes(G) :
  m[1] = n[1] /\ At(G, m).e.row.event # None => m = n
(* Slip: counters may go back. *)
NeverFalls(G) == TRUE
Monotone(G) == \A m, n \in Nodes(G) :
  Edge(G, m, n) /\ At(G, m).value # None /\ At(G, n).value # None => At(G, m).value <= At(G, n).value
(* Slip: of several last ones, any. *)
ProvenOfAny(G) == OneSignature(G) /\ Lasts(G) # {} /\ (\A c \in G : c.usable) /\ Acyclic(G)
Proven(G) == /\ OneSignature(G) /\ Cardinality(Lasts(G)) = 1 /\ (\A c \in G : c.usable) /\ Acyclic(G)
             /\ \A n \in Lasts(G) : At(G, n).value # None \/ At(G, n).unknown
             /\ Monotone(G)
Latest(G) == IF Proven(G) THEN Facts(At(G, CHOOSE n \in Lasts(G) : TRUE).e.row) ELSE None

Rows(C) == {Facts(c.e.row) : c \in C}
Decide(C) ==
  [o \in Rows(C) |-> Latest({c \in C : c.e.row.session = o.session /\ c.e.row.model = o.model})]

-----------------------------------------------------------------------------
(* _reconcile_copilot_cli *)

Scope(A, s) == {e \in A : e.row.scope = s}
In(E) == {e.row.session : e \in E}
(* A workspace file stands in for a session without a start. *)
MetadataRows(A) == {e \in Scope(A, "metadata") :
                      e.row.event # None \/ \A f \in Scope(A, "metadata") :
                                              f.row.session = e.row.session => f.row.event = None}

TokenDecisions(E, A) ==
  LET models == Scope(A, "model") IN
  Decide({Candidate(E, A, e, FALSE) : e \in models}
         \cup {Candidate(E, A, e, TRUE) : e \in {f \in MetadataRows(A) : f.row.session \notin In(models)}})

(* A shutdown that reports no amount says nothing of it. *)
AmountRows(A) == {e \in Scope(A, "session") : e.row.value # None \/ e.row.invalid}
AmountDecisions(E, A) ==
  Decide({Candidate(E, A, e, FALSE) : e \in AmountRows(A)}
         \cup {Candidate(E, A, e, e.row.session \notin In(Scope(A, "session") \cup Scope(A, "model"))) :
                 e \in {f \in MetadataRows(A) : f.row.session \notin In(AmountRows(A))}})

(* The last shutdown also tells which models there are. *)
Presence(E, A, s) ==
  {[Candidate(E, A, e, FALSE) EXCEPT !.value = 0, !.usable = ~Disputed(E, A, e)] :
     e \in {f \in Scope(A, "session") : f.row.session = s /\ f.row.models # None}}
(* Slip: a model that is no longer reported keeps its last counter. *)
KeepsRemoved(E, A, o) ==
  LET shutdowns == Presence(E, A, o.session) IN shutdowns = {} \/ Latest(shutdowns) # None
Present(E, A, o) ==
  LET shutdowns == Presence(E, A, o.session) IN
  \/ shutdowns = {}
  \/ Latest(shutdowns) # None /\ (o.model # None => o.model \in Latest(shutdowns).models)
BrokenControl(A, s) == \E e \in Scope(A, "session") : e.row.session = s /\ e.row.broken

Quarantined(E, A, decided) ==
  [o \in DOMAIN decided |-> IF Present(E, A, o) /\ ~BrokenControl(A, o.session) THEN decided[o] ELSE None]

AllTokens(L, scope) == LET A == ActiveRows(L, scope)
                           E == Evidence(L) IN Quarantined(E, A, TokenDecisions(E, A))
AllAmounts(L, scope) == LET A == ActiveRows(L, scope)
                            E == Evidence(L) IN Quarantined(E, A, AmountDecisions(E, A))

-----------------------------------------------------------------------------
(* import_sources and mark_missing, each with its _reconcile. *)

(* _affected_sessions: files, sessions and the events they share. *)
Session(s) == <<"session", s>>
(* Slip: events connect nothing. *)
LinksWithoutEvents(L) ==
  {{<<"locator", g.file.locator>>, Session(g.file.session)} : g \in {h \in L : Accepted(h.file)}}
Links(L) ==
  {{<<"locator", g.file.locator>>, Session(g.file.session)} : g \in {h \in L : Accepted(h.file)}}
  \cup {{Session(e.row.session), <<"event", e.row.event>>} : e \in {f \in Evidence(L) : f.row.event # None}}
  \cup {{Session(e.row.session), <<"event", e.row.parent>>} : e \in {f \in Evidence(L) : f.row.parent # None}}
Affected(L, locators) ==
  LET links == Links(L)
      reached[k \in 0 .. Cardinality(links)] ==
        IF k = 0 THEN {<<"locator", l>> : l \in locators}
        ELSE LET near == reached[k - 1] IN near \cup UNION {l \in links : l \cap near # {}}
  IN {s \in Sessions(L) : Session(s) \in reached[Cardinality(links)]}

Kept(decided, scope) == {o \in DOMAIN decided : o.session \notin scope}
Merged(decided, scope, anew) ==
  [o \in Kept(decided, scope) \cup DOMAIN anew |-> IF o \in DOMAIN anew THEN anew[o] ELSE decided[o]]
Reconcile(L, locators) ==
  LET scope == Affected(L, locators) IN
  /\ tokens' = Merged(tokens, scope, AllTokens(L, scope))
  /\ amounts' = Merged(amounts, scope, AllAmounts(L, scope))

Init == read = {} /\ tokens = [o \in {} |-> None] /\ amounts = [o \in {} |-> None]

Last(locator) == {g \in read : g.file.locator = locator /\ Newest(read, g)}
(* A file that is there as it was last read is not read again. *)
Changed(f) == \A g \in Last(f.locator) : g.file # f \/ ~g.available
Batches == {b \in SUBSET {f \in Files : Changed(f)} :
              b # {} /\ Cardinality(b) <= MaxBatch /\ \A f, g \in b : f.locator = g.locator => f = g}
(* Slip: a file that comes back starts anew. *)
GenerationAnew(f) == [file |-> f, available |-> TRUE, number |-> Cardinality(Last(f.locator))]
Generation(f) == [file |-> f, available |-> TRUE,
                  number |-> Cardinality({g \in read : g.file.locator = f.locator})]

Import(b) == LET L == read \cup {Generation(f) : f \in b} IN
             /\ Cardinality(L) <= MaxRead
             /\ read' = L /\ Reconcile(L, {f.locator : f \in b})

(* Slip: nothing is decided anew when files are gone. *)
MissUndecided(gone) ==
  /\ \E g \in read : g.file.locator \in gone /\ g.available
  /\ read' = {IF g.file.locator \in gone THEN [g EXCEPT !.available = FALSE] ELSE g : g \in read}
  /\ UNCHANGED <<tokens, amounts>>
MarkMissing(gone) ==
  LET L == {IF g.file.locator \in gone THEN [g EXCEPT !.available = FALSE] ELSE g : g \in read} IN
  /\ L # read
  /\ read' = L /\ Reconcile(L, gone)

Next == \/ \E b \in Batches : Import(b)
        \/ \E gone \in SUBSET {g.file.locator : g \in read} : MarkMissing(gone)
Spec == Init /\ [][Next]_vars

-----------------------------------------------------------------------------
(* Properties. *)

(* Every variable has its type; the readings of a file are numbered. *)
TypeOK ==
  /\ Cardinality(read) <= MaxRead /\ \A g \in read : g.file \in Files /\ g.available \in BOOLEAN
  /\ \A g \in read : g.number \in 0 .. Cardinality({h \in read \ {g} : h.file.locator = g.file.locator})
  /\ \A g, h \in read : g.file.locator = h.file.locator /\ g.number = h.number => g = h
  /\ \A decided \in {tokens, amounts} :
       /\ DOMAIN decided \subseteq {Facts(e.row) : e \in Evidence(read)}
       /\ \A o \in DOMAIN decided : decided[o] \in DOMAIN decided \cup {None}

(* The decisions are those that reading everything anew would make: no session
   keeps a decision that a file elsewhere, or its disappearance, made stale. *)
Incremental == /\ tokens = AllTokens(read, Sessions(read))
               /\ amounts = AllAmounts(read, Sessions(read))

Counted == {o \in DOMAIN tokens : tokens[o] = o} \cup {o \in DOMAIN amounts : amounts[o] = o}
(* The files that have a say on a session: as last read, and, if any of them
   is still there, still there. *)
Newer(g) == {h \in read : h.file.locator = g.file.locator /\ h.number > g.number}
Tellers(s) ==
  LET last == {g \in read : g.file.session = s /\ Accepted(g.file) /\ Newer(g) = {}}
      there == {g \in last : g.available}
  IN IF there = {} THEN last ELSE there
Told(g, o) == {r \in FileRows[g.file] : r.scope = o.scope /\ r.model = o.model /\ (o.scope = "session" => r.value # None \/ r.invalid)}
LastTold(g, o) == {r \in Told(g, o) : \A q \in Told(g, o) : q.line <= r.line}

(* Whatever counts is in a file as it is now: a rejected, shortened or
   replaced file takes its counters with it, one that is gone leaves them only
   when nothing else tells of its session. *)
OnlyWhatIsThere == \A o \in Counted : \E g \in Tellers(o.session) : \E r \in FileRows[g.file] : Facts(r) = o

(* A counter that counts is the largest any file tells, and none of them is
   malformed: it never goes back. *)
LargestCounts ==
  \A o \in Counted : o.value # None =>
    \A g \in Tellers(o.session) : \A r \in Told(g, o) : r.value # None /\ r.value <= o.value

(* No counter counts while copies of a session continue it differently: what a
   file tells last is what counts, or another file continues it. *)
NoRivals ==
  \A o \in Counted : o.scope # "metadata" => \A g \in Tellers(o.session) : \A r \in LastTold(g, o) :
    \/ Facts(r) = o
    \/ \E h \in Tellers(o.session) : \E q, p \in Told(h, o) : Facts(q) = Facts(r) /\ q.line < p.line

(* A model counts only while the last shutdown after it still reports it. *)
ForgottenModels ==
  \A o \in Counted : \A g \in Tellers(o.session) : o.model # None /\ o \in {Facts(r) : r \in Told(g, o)} =>
    \A z \in FileRows[g.file] :
      z.models # None /\ (\A y \in FileRows[g.file] : y.models # None => y.line <= z.line) => o.model \in z.models

(* An event that two sessions claim, or that two files tell differently, counts
   in none of them. *)
Undisputed ==
  \A o \in Counted : o.event # None =>
    /\ \A e \in Evidence(read) : e.row.event = o.event => e.row.session = o.session
    /\ \A g, h \in Tellers(o.session) :
         LET Of(f) == {Facts(r) : r \in {q \in FileRows[f.file] : q.event = o.event}}
         IN Of(g) # {} /\ Of(h) # {} => Of(g) = Of(h)
=============================================================================
