---------------------- MODULE CopilotVscodeAccounting ----------------------
(* Which recorded uses of VS Code chat sessions count.  A session may be in
   several files, each of which is written anew as it goes on: a request counts
   as the current files tell it, if they agree.  Its credits count by the
   control of the session up to it, and by themselves after it. *)
EXTENDS CopilotVscodeReader

CONSTANTS Files,     \* the files an import may find
          MaxBatch,  \* files committed per transaction (32 in the code)
          MaxRead    \* bound: generations imported

(* Files are finite, their places in order those of their locators; nothing
   else, no row, number or reason, is None. *)
VscodeConstants ==
  /\ MaxBatch \in Nat \ {0} /\ MaxRead \in Nat
  /\ IsFiniteSet(Files) /\ None \notin Nat \cup {"known", "unknown", "number"}
  /\ \A f \in Files :
       /\ f.flat \in BOOLEAN /\ f.place \in Nat /\ Len(f.requests) \in Nat /\ DOMAIN f.requests = 1 .. Len(f.requests)
       /\ \A n \in DOMAIN f.requests :
            /\ f.requests[n].line \in Nat /\ f.requests[n].control \in Nat \cup {None, Invalid}
            /\ IsFiniteSet(DOMAIN f.requests[n].models)
       /\ \A r \in ReadRows(f) : Facts(r) # None
  /\ \A f, g \in Files : f.flat = g.flat /\ f.place = g.place => f.locator = g.locator

VARIABLES read,    \* the retained generations: a file, its number and whether it is still there
          tokens,  \* decisions on tokens: None, the row itself, or the one it is excluded for
          credits  \* decisions on credits

vars == <<read, tokens, credits>>

-----------------------------------------------------------------------------
(* The tables, as functions of the set L of generations. *)

FileRows == [f \in Files |-> ReadRows(f)]
Newest(L, g) == \A h \in L : h.file.locator = g.file.locator => h.number <= g.number
Source(g) == <<g.file.locator, g.number>>
Sourced(L, g) == {[source |-> Source(g), current |-> Newest(L, g), there |-> g.available,
                   rank |-> <<IF g.file.flat THEN 1 ELSE 0, g.file.place, row.line>>, row |-> row] :
                    row \in FileRows[g.file]}
Sessions(L) == {g.file.session : g \in {h \in L : h.file.valid}}
(* _reconcile_copilot_vscode: all rows of a session and its current files. *)
Candidates(L, s) == UNION {Sourced(L, g) : g \in {h \in L : h.file.session = s}}
Sources(L, s) == {[source |-> Source(g), there |-> g.available, rank |-> <<IF g.file.flat THEN 1 ELSE 0, g.file.place>>] :
                    g \in {h \in L : h.file.session = s /\ h.file.valid /\ Newest(L, h)}}

-----------------------------------------------------------------------------
(* reconcile_copilot_vscode, for the candidates C of one session and its
   current sources S. *)

Preferred(X) == LET there == {x \in X : x.there} IN IF there = {} THEN X ELSE there
ActiveRows(C) == LET current == Preferred({c \in C : c.current}) IN IF current = {} THEN C ELSE current

Before(s, t) == \E k \in DOMAIN s : s[k] < t[k] /\ \A j \in 1 .. k - 1 : s[j] = t[j]
First(X) == CHOOSE x \in X : \A y \in X : ~Before(y.rank, x.rank)

(* logical_key: what is one use in several files. *)
Key(c) == <<IF c.row.request = None THEN <<c.source, c.row.ordinal>> ELSE <<c.row.request>>,
            c.row.response, c.row.kind, c.row.model>>
Observation(c) == Facts(c.row)
Signature(A, source) == {<<Key(c), Observation(c)>> : c \in {b \in A : b.source = source}}
(* Slip: that files disagree is not noticed. *)
NoConflict(A, S) == TRUE
(* Files that are there agree, or nothing is decided. *)
Agree(A, S) ==
  LET sources == {c.source : c \in A} \cup {s.source : s \in Preferred(S)}
  IN \A s, t \in sources : Signature(A, s) = Signature(A, t)
Settled(C, S) ==
  /\ S # {} \/ \E c \in C : c.current
  /\ Agree(ActiveRows(C), S)
Canonical(C, S) ==
  LET A == ActiveRows(C)
      source == IF S = {} THEN First(A).source ELSE First(Preferred(S)).source
  IN {c \in A : c.source = source}

(* The decision on each use as the canonical file tells it: what is no longer
   in it is replaced by whatever is. *)
Usable(G) == /\ \A c \in G : c.row.reason = None /\ c.row.request # None
             /\ \A c, d \in G : Observation(c) = Observation(d)
Alternate(C, R) ==
  [o \in {Observation(c) : c \in C} |->
     LET G == {c \in R : Key(c) \in {Key(d) : d \in {e \in C : Observation(e) = o}}} IN
     IF R = {} THEN None
     ELSE IF G = {} THEN Observation(First(R))
     ELSE IF Usable(G) THEN Observation(First(G)) ELSE None]

Selected(C, decided, kinds) == {c \in C : c.row.kind \in kinds /\ decided[Observation(c)] = Observation(c)}
SameRequest(C, c) == {d \in C : d.row.request = c.row.request /\ d.row.response = c.row.response}
(* Slip: summaries count beside the models they sum up. *)
SummariesToo(C, decided) == decided
(* The models of a request count instead of its summary, either instead of a
   control, which counts for its credits only. *)
Covered(C, decided) ==
  LET Models(c) == Selected(SameRequest(C, c), decided, {"model_totals"})
      Summaries(c) == Selected(SameRequest(C, c), decided, {"turn_summary", "unavailable"})
      Target(c) == IF Models(c) = {} THEN Summaries(c) ELSE Models(c)
      Hidden(c) == \/ c \in Summaries(c) /\ Models(c) # {}
                   \/ c \in Selected(C, decided, {"session_control"}) /\ Target(c) # {}
      hidden == {c \in C : Hidden(c)}
  IN [o \in DOMAIN decided |->
        IF \E c \in hidden : Observation(c) = o
        THEN Observation(First(Target(CHOOSE c \in hidden : Observation(c) = o)))
        ELSE decided[o]]

Controls(R) == {c \in R : c.row.kind = "session_control"}
(* Slip: the last control, however small. *)
LastControl(X) == CHOOSE c \in X : \A d \in X : d.row.ordinal <= c.row.ordinal
(* The greatest control, of equal ones the last. *)
Greatest(X) ==
  LET most == {c \in X : \A d \in X : d.row.amount <= c.row.amount}
  IN First({c \in most : \A d \in most : d.row.ordinal <= c.row.ordinal})
(* Slip: a control excludes the other controls only. *)
CoversControls(R, control, o) == o.kind = "session_control"
(* What a control stands for: other controls and the requests up to it. *)
Covers(R, control, o) ==
  o.kind = "session_control" \/ \E c \in R : Observation(c) = o /\ c.row.ordinal <= control.row.ordinal
Credits(C, R, decided) ==
  LET owed == {o \in DOMAIN decided : o.quantity # None}
      known == {c \in Controls(R) : decided[Observation(c)] = Observation(c) /\ c.row.quantity = "known"}
      control == Greatest(known)
  IN [o \in owed |->
        IF \E c \in Controls(R) : decided[Observation(c)] = None THEN None
        ELSE IF known = {} THEN decided[o]
        ELSE IF o = Observation(control) THEN o
        ELSE IF decided[o] # None /\ Covers(R, control, o) THEN Observation(control)
        ELSE decided[o]]

Decided(L, s) ==
  LET C == Candidates(L, s)
      S == Sources(L, s)
      R == IF Settled(C, S) THEN Canonical(C, S) ELSE {}
      alternate == Alternate(C, R)
  IN [tokens |-> Covered(C, alternate), credits |-> Credits(C, R, alternate)]

Joined(T) == [o \in UNION {DOMAIN t : t \in T} |-> (CHOOSE t \in T : o \in DOMAIN t)[o]]
AllTokens(L, scope) == Joined({Decided(L, s).tokens : s \in scope})
AllCredits(L, scope) == Joined({Decided(L, s).credits : s \in scope})

-----------------------------------------------------------------------------
(* import_sources and mark_missing, each with its _reconcile. *)

(* _affected_sessions: files connect sessions. *)
(* Slip: only the session a file now has. *)
OnlyOwn(L, locators) == {g.file.session : g \in {h \in L : h.file.valid /\ h.file.locator \in locators /\ Newest(L, h)}}
Affected(L, locators) ==
  LET links == {<<g.file.locator, g.file.session>> : g \in {h \in L : h.file.valid}}
      reached[k \in 0 .. Cardinality(L)] ==
        IF k = 0 THEN {l[2] : l \in {m \in links : m[1] \in locators}}
        ELSE LET near == reached[k - 1]
                 around == {l[1] : l \in {m \in links : m[2] \in near}}
             IN near \cup {l[2] : l \in {m \in links : m[1] \in around}}
  IN reached[Cardinality(L)]

Merged(decided, scope, anew) ==
  [o \in {p \in DOMAIN decided : p.session \notin scope} \cup DOMAIN anew |->
     IF o \in DOMAIN anew THEN anew[o] ELSE decided[o]]
Reconcile(L, locators) ==
  LET scope == Affected(L, locators) IN
  /\ tokens' = Merged(tokens, scope, AllTokens(L, scope))
  /\ credits' = Merged(credits, scope, AllCredits(L, scope))

Init == read = {} /\ tokens = [o \in {} |-> None] /\ credits = [o \in {} |-> None]

(* A file that is there as it was last read is not read again. *)
Changed(f) == \A g \in read : g.file.locator = f.locator /\ Newest(read, g) => g.file # f \/ ~g.available
Batches == {b \in SUBSET {f \in Files : Changed(f)} :
              b # {} /\ Cardinality(b) <= MaxBatch /\ \A f, g \in b : f.locator = g.locator => f = g}
(* Slip: a file that comes back starts anew. *)
GenerationAnew(f) == [file |-> f, available |-> TRUE, number |-> 0]
Generation(f) == [file |-> f, available |-> TRUE,
                  number |-> Cardinality({g \in read : g.file.locator = f.locator})]

Import(b) == LET L == read \cup {Generation(f) : f \in b} IN
             /\ Cardinality(L) <= MaxRead
             /\ read' = L /\ Reconcile(L, {f.locator : f \in b})
MarkMissing(gone) ==
  LET L == {IF g.file.locator \in gone THEN [g EXCEPT !.available = FALSE] ELSE g : g \in read} IN
  /\ L # read
  /\ read' = L /\ Reconcile(L, gone)

Next == \/ \E b \in Batches : Import(b)
        \/ \E gone \in SUBSET {g.file.locator : g \in read} : MarkMissing(gone)
Spec == Init /\ [][Next]_vars

-----------------------------------------------------------------------------
(* Properties. *)

(* Every variable has its type; the readings of a file are numbered. *)
TypeOK ==
  /\ Cardinality(read) <= MaxRead /\ \A g \in read : g.file \in Files /\ g.available \in BOOLEAN
  /\ \A g \in read : \A n \in 0 .. g.number : \E h \in read : h.file.locator = g.file.locator /\ h.number = n
  /\ \A g, h \in read : Source(g) = Source(h) => g = h
  /\ DOMAIN tokens = {Facts(r) : r \in UNION {FileRows[g.file] : g \in read}}
  /\ DOMAIN credits = {o \in DOMAIN tokens : o.quantity # None}
  /\ \A o \in DOMAIN tokens : tokens[o] \in DOMAIN tokens \cup {None}
  /\ \A o \in DOMAIN credits : credits[o] \in DOMAIN tokens \cup {None}

(* The decisions are those that reading everything anew would make. *)
Incremental == /\ tokens = AllTokens(read, Sessions(read))
               /\ credits = AllCredits(read, Sessions(read))

CountedTokens == {o \in DOMAIN tokens : tokens[o] = o}
CountedCredits == {o \in DOMAIN credits : credits[o] = o}
(* The files that tell of a session now: as last read and, if any is still
   there, still there. *)
Tellers(s) == Preferred({[there |-> g.available, file |-> g.file] :
                           g \in {h \in read : h.file.session = s /\ h.file.valid /\ Newest(read, h)}})

(* Whatever counts is told, in the same words, by every file of its session
   that is there: no request that was removed or rewritten, no use of a file
   that was replaced or rejected, nothing two copies disagree on. *)
OnlyWhatIsTold ==
  \A o \in CountedTokens \cup CountedCredits :
    /\ Tellers(o.session) # {}
    /\ \A t \in Tellers(o.session) : \E r \in FileRows[t.file] : Facts(r) = o

(* The tokens of a request count once: by its models, or by one summary, and
   never beside a control.  A request without tokens tells of none. *)
CountedOnce ==
  \A o, p \in {q \in CountedTokens : q.kind # "unavailable"} :
    o.session = p.session /\ o.request = p.request /\ o.response = p.response /\ o # p =>
      o.kind = "model_totals" /\ p.kind = "model_totals" /\ o.model # p.model

(* Files that agree may order their requests differently: the order is that of
   the first of them, a log before any flat file. *)
Place(f) == <<IF f.flat THEN 1 ELSE 0, f.place>>
Ordering(s) == {t \in Tellers(s) : \A u \in Tellers(s) : ~Before(Place(u.file), Place(t.file))}

(* One control of a session counts, the greatest, and with it only the credits
   of later requests: none is counted twice. *)
CreditsOnce ==
  \A o \in CountedCredits : o.kind = "session_control" /\ o.quantity = "known" =>
    \A t \in Ordering(o.session) :
      \A r \in {q \in FileRows[t.file] : Facts(q) = o} : \A q \in FileRows[t.file] :
        Facts(q) \in CountedCredits => Facts(q) = o \/ (q.kind # "session_control" /\ q.ordinal > r.ordinal)

(* No credits are lost: those a control replaces were spent before it, and no
   known control tells of more than the one that counts. *)
CreditsKept ==
  \A o \in DOMAIN credits : credits[o] # None /\ credits[o] # o /\ credits[o].kind = "session_control" /\ o.kind # "session_control"
    /\ (\A t \in Tellers(o.session) : \E r \in FileRows[t.file] : Facts(r) = o) =>
      /\ \A t \in Ordering(o.session) :
           \E r, q \in FileRows[t.file] : Facts(r) = o /\ Facts(q) = credits[o] /\ r.ordinal <= q.ordinal
      /\ \A t \in Tellers(o.session) : \A q \in FileRows[t.file] :
           q.kind = "session_control" => q.amount # None /\ q.amount <= credits[o].amount
=============================================================================
