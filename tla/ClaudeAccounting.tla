-------------------------- MODULE ClaudeAccounting --------------------------
(* Which recorded uses of Claude Code sessions count.  The lines of one call
   share a message, a request or an entry, with copies in other files and with
   readings of the same file by an earlier version of the reader.  All rows so
   connected are one call: one of them counts, or, when they contradict each
   other, none.  The decisions on all measures are the same. *)
EXTENDS ClaudeReader

CONSTANTS Files,     \* the files an import may find
          MaxBatch,  \* files committed per transaction (32 in the code)
          MaxRead    \* bound: generations imported

VARIABLES read,      \* the retained generations: a file and the profile it was read with
          decision,  \* table decision: None, the observation itself, or the one it is excluded for
          varying    \* the observations with a claude_output_variation diagnostic

vars == <<read, decision, varying>>

-----------------------------------------------------------------------------
(* The tables, as functions of the set L of generations. *)

Rows(L) == UNION {ReadRows(g.profile, g.file) : g \in L}
Observation(r) == [session |-> r.session, entry |-> r.entry, signature |-> r.signature, at |-> r.at,
                   output |-> r.output, finality |-> r.finality, token |-> r.token]
Observations(L) == {Observation(r) : r \in Rows(L)}
Sessions(L) == {g.file.session : g \in {h \in L : Accepted(h.file)}}

Readings == [file : Files, profile : Profiles]
ClaudeConstants ==
  /\ MaxBatch \in Nat \ {0} /\ MaxRead \in Nat \ {0, 1} /\ IsFiniteSet(Files)
  /\ \A f \in Files : /\ f.place \in Nat /\ IsFiniteSet(DOMAIN f.lines) /\ DOMAIN f.lines \subseteq Nat
                      /\ \A i \in DOMAIN f.lines : f.lines[i].at \in Nat \cup {None}
  /\ None \notin Observations(Readings)

(* Slip: the replaced reading still has its say. *)
NeverSuperseded(L, r) == FALSE

(* A reading of the same bytes by the current reader, if it accepted them. *)
Superseded(L, r) ==
  ~r.current /\ \E g \in L : g.profile = "current" /\ g.file = r.file /\ Accepted(g.file)

(* Slip: a request without its message connects nothing. *)
JoinedByMessage(r, q) == \/ Observation(r) = Observation(q) \/ r.entry = q.entry
                         \/ r.message # None /\ r.message = q.message

(* _components: rows of one observation, message, request or entry. *)
Joined(r, q) == \/ Observation(r) = Observation(q) \/ r.entry = q.entry
                \/ r.message # None /\ r.message = q.message
                \/ r.request # None /\ r.request = q.request
Component(C, r) ==
  LET joined[k \in 0 .. Cardinality(C)] ==
        IF k = 0 THEN {r}
        ELSE LET near == joined[k - 1] IN {q \in C : \E p \in near : Joined(p, q)}
  IN joined[Cardinality(C)]
Components(C) == {Component(C, r) : r \in C}

-----------------------------------------------------------------------------
(* reconcile_claude, for the rows G of one call, of which A are active. *)

Active(L, G) == LET A == {r \in G : ~Superseded(L, r)} IN IF A = {} THEN G ELSE A

Some(S) == S \ {None}
Paired(G) == {r \in G : r.message # None /\ r.request # None}
Tells(G, entry) == {r \in G : r.entry = entry}

(* A message has one request and a request one message; so has an entry. *)
IdentityConflict(G) ==
  \/ \E r, q \in Paired(G) : (r.message = q.message) # (r.request = q.request)
  \/ \E r \in G : \/ Cardinality(Some({q.message : q \in Tells(G, r.entry)})) > 1
                  \/ Cardinality(Some({q.request : q \in Tells(G, r.entry)})) > 1

IdentifiedEntries(A) == {r.entry : r \in {q \in A : Identified(q)}}
Identityless(A) == {Observation(r) : r \in {q \in A : ~Identified(q) /\ q.entry \notin IdentifiedEntries(A)}}
(* A row that cannot be used, unless it only repeats an entry without its names. *)
Unusable(A) == \E r \in A :
  /\ Observation(r) \notin Identityless(A) /\ ~Usable(r)
  /\ ~(~Identified(r) /\ r.entry \in IdentifiedEntries(A) /\ r.finality # "invalid")

OfFinality(A, f) == {r \in A : r.finality = f}
Tokens(A) == Some({r.token : r \in A})
(* A final output may refine what an older version, or one unknown, started. *)
Refines(A) ==
  /\ Cardinality(Tokens(OfFinality(A, "final"))) = 1
  /\ Cardinality(Tokens(OfFinality(A, "placeholder"))) <= 1
  /\ \A r \in A : \/ r.finality = "final" /\ r.token # None
                  \/ r.finality = "placeholder"
                  \/ r.finality = "unqualified" /\ r.token = None
(* Slip: the writers are compared, what they wrote is not. *)
WritersDiffer(A) == OfFinality(A, "invalid") # {} \/ (Cardinality(Tokens(A)) > 1 /\ ~Refines(A))
OutputConflict(A) ==
  LET final == OfFinality(A, "final") IN
  \/ Cardinality({r.output : r \in final}) > 1
  \/ final # {} /\ OfFinality(A, "final_missing") # {}
  \/ OfFinality(A, "invalid") # {}
  \/ \E r, q \in A : r.current /\ q.current /\ r.entry = q.entry /\ r.finality = "final" /\ q.finality # "final"
  \/ Cardinality(Tokens(A)) > 1 /\ ~Refines(A)
  \/ (\E r \in final : r.token = None) /\ (\E r \in final : r.token # None)

Contradicts(G, A) == \/ IdentityConflict(G) \/ OutputConflict(A) \/ Unusable(A)
                     \/ Cardinality({r.signature : r \in A}) > 1

(* rank: current readings first, then by time, place and line. *)
Rank(r) == <<IF r.current THEN 0 ELSE 1, IF r.at = None THEN 1 ELSE 0, IF r.at = None THEN 0 ELSE r.at,
             r.file.place, r.line>>
Before(s, t) == \E k \in DOMAIN s : s[k] < t[k] /\ \A j \in 1 .. k - 1 : s[j] = t[j]
First(R) == CHOOSE r \in R : \A q \in R : ~Before(Rank(q), Rank(r))
(* Slip: the first row counts, final or not. *)
CanonicalFirst(L, G) == First({r \in G : Identified(r) /\ ~Superseded(L, r)})
(* The call's row: the first of the rows that name it, final ones before. *)
Canonical(L, G) ==
  LET named == {r \in G : Identified(r) /\ ~Superseded(L, r)}
      firsts == {First({q \in named : Observation(q) = Observation(r)}) : r \in named}
      final == OfFinality(firsts, "final")
  IN First(IF final = {} THEN firsts ELSE final)

DecideCall(L, G, o) ==
  LET A == Active(L, G)
      named == {r \in G : Identified(r) /\ ~Superseded(L, r)}
  IN IF Contradicts(G, A) \/ named = {} \/ o \in Identityless(A) THEN None
     ELSE Observation(Canonical(L, G))

Decide(L, scope) ==
  LET C == {r \in Rows(L) : r.session \in scope} IN
  [o \in {Observation(r) : r \in C} |->
     DecideCall(L, Component(C, CHOOSE r \in C : Observation(r) = o), o)]

(* claude_output_variations *)
Varying(L, scope) ==
  UNION {{Observation(r) : r \in A} :
           A \in {B \in {Active(L, G) : G \in Components({r \in Rows(L) : r.session \in scope})} :
                    Cardinality({r.output : r \in B}) > 1}}

-----------------------------------------------------------------------------
(* import_sources: _import_source for each file, then _reconcile. *)

(* _affected_sessions *)
Session(s) == <<"session", s>>
(* Slip: entries that two files share do not connect them. *)
LinksByName(L) ==
  {{<<"locator", g.file.locator>>, Session(g.file.session)} : g \in {h \in L : Accepted(h.file)}}
  \cup {{Session(r.session), <<"message", r.message>>} : r \in {q \in Rows(L) : q.message # None}}
Links(L) ==
  {{<<"locator", g.file.locator>>, Session(g.file.session)} : g \in {h \in L : Accepted(h.file)}}
  \cup {{<<"locator", g.file.parent>>, Session(g.file.session)} : g \in {h \in L : Accepted(h.file) /\ h.file.parent # None}}
  \cup {{Session(r.session), <<"message", r.message>>} : r \in {q \in Rows(L) : q.message # None}}
  \cup {{Session(r.session), <<"request", r.request>>} : r \in {q \in Rows(L) : q.request # None}}
  \cup {{Session(r.session), <<"entry", r.entry>>} : r \in Rows(L)}
Affected(L, locators) ==
  LET links == Links(L)
      reached[k \in 0 .. Cardinality(links)] ==
        IF k = 0 THEN {<<"locator", l>> : l \in locators}
        ELSE LET near == reached[k - 1] IN near \cup UNION {l \in links : l \cap near # {}}
  IN {s \in Sessions(L) : Session(s) \in reached[Cardinality(links)]}

(* What an earlier version left: its readings, decided by the same rules. *)
Init == \E old \in SUBSET Files :
  /\ Cardinality(old) <= 2 /\ \A f, g \in old : f.locator = g.locator => f = g
  /\ read = {[file |-> f, profile |-> "previous"] : f \in old}
  /\ decision = Decide(read, Sessions(read))
  /\ varying = Varying(read, Sessions(read))

Batches == {b \in SUBSET {[file |-> f, profile |-> "current"] : f \in Files} :
              /\ b # {} /\ b \cap read = {} /\ Cardinality(b) <= MaxBatch
              /\ \A g, h \in b : g.file.locator = h.file.locator => g = h}

(* Slip: the decisions of all sessions are deleted before those of the affected
   ones are made. *)
ImportForgetting(b) ==
  LET L == read \cup b
      scope == Affected(L, {g.file.locator : g \in b})
  IN /\ Cardinality(L) <= MaxRead
     /\ read' = L
     /\ decision' = Decide(L, scope)
     /\ varying' = {o \in varying : o.session \notin scope} \cup Varying(L, scope)

Import(b) ==
  LET L == read \cup b
      scope == Affected(L, {g.file.locator : g \in b})
      decided == Decide(L, scope)
  IN /\ Cardinality(L) <= MaxRead
     /\ read' = L
     /\ decision' = [o \in Observations(L) |-> IF o.session \in scope THEN decided[o] ELSE decision[o]]
     /\ varying' = {o \in varying : o.session \notin scope} \cup Varying(L, scope)

Next == \E b \in Batches : Import(b)
Spec == Init /\ [][Next]_vars

-----------------------------------------------------------------------------
(* Properties. *)

(* Every variable has its type. *)
TypeOK == /\ read \subseteq Readings
          /\ Cardinality(read) <= MaxRead
          /\ DOMAIN decision = Observations(read)
          /\ \A o \in DOMAIN decision : decision[o] \in DOMAIN decision \cup {None}
          /\ varying \subseteq Observations(read)

(* Deciding only the sessions a changed file is connected to decides as
   deciding all of them: no copy elsewhere keeps a stale decision or a stale
   warning, whatever the order of the files. *)
Incremental == /\ decision = Decide(read, Sessions(read))
               /\ varying = Varying(read, Sessions(read))

Counted == {o \in DOMAIN decision : decision[o] = o}
RowsOf(o) == {r \in Rows(read) : Observation(r) = o}

(* A call counts once: no two observations count that share a message, a
   request or an entry, in whatever files and readings they are. *)
CountedOnce ==
  \A o, p \in Counted : o # p => \A r \in RowsOf(o), q \in RowsOf(p) :
    r.entry # q.entry /\ (r.message = q.message => r.message = None) /\ (r.request = q.request => r.request = None)

(* No call is lost by being excluded: what it stands for counts, and, unless
   newer readings of its files replaced it, has the same input numbers and, where
   one of its lines names the call, the same final output. *)
NothingLost ==
  \A o \in DOMAIN decision \ Counted : decision[o] # None =>
    /\ decision[o] \in Counted
    /\ LET telling == {r \in RowsOf(o) : ~Superseded(read, r)} IN
       \/ telling = {}
       \/ /\ decision[o].signature = o.signature
          /\ o.finality = "final" /\ (\E r \in telling : Identified(r)) =>
               decision[o].finality = "final" /\ decision[o].output = o.output

(* What a stream started with is never counted while a line of the call that is
   not replaced tells the final output, nor is one final output counted while
   another says otherwise. *)
FinalWins ==
  \A o \in Counted : \A r \in RowsOf(o), q \in Rows(read) :
    Joined(r, q) /\ Identified(q) /\ q.finality = "final" /\ ~Superseded(read, q) =>
      o.finality = "final" /\ o.output = q.output

(* Reading every file again with the current reader settles the accounts as if
   the previous one had never read them. *)
Reread == \A g \in read : [g EXCEPT !.profile = "current"] \in read
UpgradeHeals ==
  Reread => LET now == {g \in read : g.profile = "current"}
                fresh == Decide(now, Sessions(now))
            IN \A o \in DOMAIN fresh : decision[o] = fresh[o]
=============================================================================
