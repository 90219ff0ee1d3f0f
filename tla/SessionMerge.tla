---------------------------- MODULE SessionMerge ----------------------------
(* How the readings of a session make one session: its directory, its times,
   its parent and its name, and the project it is assigned to.  Readings come
   in any order, from copies and from a file as it grows, and may disagree; the
   tables remember that they did as diagnostics.

   A file is a record: locator, session, harness, accepted, body (its lines, of
   which a file that grew has more) and what the reader found: cwd, broken (the
   directories in it contradict each other), started, seen, parent, name and
   others (threads or agents it tells of).  What it does not tell is None. *)
EXTENDS Integers, Sequences, FiniteSets, SequencesExt, FiniteSetsExt

CONSTANTS None, Files,
          MaxRead  \* bound: files read

MergeConstants == MaxRead \in Nat

VARIABLES read,        \* per locator, the files read
          session,     \* table session
          diagnostics, \* table diagnostic: sessions and codes
          attribution  \* table session_attribution

vars == <<read, session, diagnostics, attribution>>

Harnesses == {"pi", "codex", "claude", "copilot-vscode", "copilot-cli"}
Locators == {f.locator : f \in Files}
Directories == {f.cwd : f \in Files} \ {None}

Least(a, b) == IF a = None THEN b ELSE IF b = None THEN a ELSE IF a < b THEN a ELSE b
Greatest(a, b) == IF a = None THEN b ELSE IF b = None THEN a ELSE IF a < b THEN b ELSE a

(* The diagnostic that tells that the directory of a session is disputed. *)
CwdCode(harness) == CASE harness = "claude" -> "cwd_attribution_unavailable"
                      [] harness = "copilot-vscode" -> "workspace_attribution_conflict"
                      [] harness = "copilot-cli" -> "workspace_changed_cumulative_scope"
                      [] OTHER -> "header_conflict"

Id(f) == <<f.session>>
ReadOf(id) == {f \in UNION {Range(read[l]) : l \in Locators} : f.accepted /\ Id(f) = id}
Noted(id, code) == <<id, code>> \in diagnostics

Row(f) == [harness |-> f.harness, cwd |-> f.cwd, started |-> f.started, seen |-> f.seen,
           parent |-> f.parent, name |-> f.name]
(* What a Codex history or a Copilot CLI session tells of others. *)
Other(f, id) == IF f.harness = "codex"
                THEN [Row(f) EXCEPT !.cwd = None, !.started = None, !.seen = None, !.parent = None, !.name = None]
                ELSE [Row(f) EXCEPT !.parent = f.locator, !.name = None]
OtherIds(f) == {IF f.harness = "codex" THEN <<o>> ELSE <<f.session, o>> : o \in f.others}

-----------------------------------------------------------------------------
(* _import_source, for a file that is accepted. *)

(* A thread of which no history was read yet is as good as new. *)
Known(f) == Id(f) \in DOMAIN session /\ (f.harness = "codex" => ReadOf(Id(f)) # {})

SameHeader(f, prior) == /\ prior.cwd = f.cwd /\ prior.parent = f.parent
                        /\ f.harness = "codex" \/ prior.started = f.started

(* Slip: what earlier readings disagreed on is forgotten. *)
DisputedNow(f, prior) == f.broken \/ (prior.cwd # None /\ f.cwd # None /\ prior.cwd # f.cwd)
(* Two directories, or contradictions within a file, now or ever. *)
Disputed(f, prior) == \/ f.broken \/ Noted(Id(f), CwdCode(f.harness))
                      \/ prior.cwd # None /\ f.cwd # None /\ prior.cwd # f.cwd
MergedCwd(f, prior) ==
  IF f.harness \in {"pi", "codex"} THEN prior.cwd
  ELSE IF Disputed(f, prior) THEN None
  ELSE IF prior.cwd = None THEN f.cwd ELSE prior.cwd

(* Slip: a reading tells of the end of a session, whatever it was read after. *)
LatestRead(f, prior) == f.seen
MergedSeen(f, prior) ==
  IF f.harness \in {"claude", "copilot-cli"} \/ SameHeader(f, prior) THEN Greatest(prior.seen, f.seen) ELSE prior.seen
MergedStarted(f, prior) == IF f.harness = "pi" THEN prior.started ELSE Least(prior.started, f.started)
MergedParent(f, prior) == IF f.harness = "claude" /\ prior.parent # f.parent THEN None ELSE prior.parent

Extends(f) == /\ read[f.locator] # <<>> /\ Last(read[f.locator]).accepted
              /\ IsPrefix(Last(read[f.locator]).body, f.body)
(* Slip: only two names dispute a name, not a copy without one. *)
NamesDiffer(f) == /\ Known(f) /\ session[Id(f)].name # f.name /\ ~Extends(f)
                  /\ session[Id(f)].name # None /\ f.name # None
NameConflict(f) == Known(f) /\ session[Id(f)].name # f.name /\ ~Extends(f)
(* Slip: a name that was disputed is shown as soon as readings agree. *)
NameOfReading(f) == IF NameConflict(f) THEN None ELSE f.name
MergedName(f) == IF NameConflict(f) \/ Noted(Id(f), "name_conflict") THEN None ELSE f.name

Merged(f) ==
  IF ~Known(f) THEN [Row(f) EXCEPT !.name = MergedName(f)]
  ELSE LET prior == session[Id(f)] IN
       [prior EXCEPT !.cwd = MergedCwd(f, prior), !.seen = MergedSeen(f, prior), !.started = MergedStarted(f, prior),
                     !.parent = MergedParent(f, prior), !.name = MergedName(f)]

(* Slip: a header that differs is not noted if the directory is the same. *)
NotesOfCwd(f) ==
  {<<Id(f), "name_conflict">> : n \in {m \in {f} : NameConflict(m)}}
  \cup {<<Id(f), CwdCode(f.harness)>> :
          n \in {m \in {f} : m.broken \/ (Known(m) /\ session[Id(m)].cwd # None /\ m.cwd # session[Id(m)].cwd)}}
Notes(f) ==
  LET disputes == IF ~Known(f) THEN f.broken
                  ELSE LET prior == session[Id(f)] IN
                       CASE f.harness \in {"pi", "codex"} -> ~SameHeader(f, prior)
                         [] f.harness = "copilot-cli" -> Disputed(f, prior)
                         [] OTHER -> f.broken \/ (prior.cwd # None /\ f.cwd # None /\ prior.cwd # f.cwd)
  IN {<<Id(f), CwdCode(f.harness)>> : n \in {m \in {f} : disputes}}
     \cup {<<Id(f), "name_conflict">> : n \in {m \in {f} : NameConflict(m)}}

NotResolved == [project |-> None, reason |-> "not_resolved"]
Changing == [project |-> None, reason |-> "workspace_changed_cumulative_scope"]

(* The sessions after a file was read; that of a Copilot CLI session whose
   directory is disputed loses it together with the sessions of its agents. *)
Scattered(f) == f.harness = "copilot-cli" /\ (IF Known(f) THEN Disputed(f, session[Id(f)]) ELSE f.broken)
(* Slip: the agents that this reading tells of for the first time are missed. *)
FamilyBefore(f, ids) == {id \in DOMAIN session \cup {Id(f)} : id[1] = f.session}
Family(f, ids) == {id \in ids : id[1] = f.session}
SessionsAfter(f) ==
  LET ids == DOMAIN session \cup {Id(f)} \cup OtherIds(f)
      row(id) == IF id = Id(f) THEN Merged(f) ELSE IF id \in DOMAIN session THEN session[id] ELSE Other(f, id)
  IN [id \in ids |-> IF Scattered(f) /\ id \in Family(f, ids) THEN [row(id) EXCEPT !.cwd = None] ELSE row(id)]

(* Slip: a thread that a history only tells of is given no attribution. *)
ImportUnattributed(f) ==
  LET after == SessionsAfter(f) IN
  /\ session' = after
  /\ diagnostics' = diagnostics \cup Notes(f)
  /\ attribution' = [id \in DOMAIN attribution \cup {Id(f)} |->
                       IF id \in DOMAIN attribution THEN attribution[id] ELSE NotResolved]
ImportAccepted(f) ==
  LET after == SessionsAfter(f) IN
  /\ session' = after
  /\ diagnostics' = diagnostics \cup Notes(f)
  /\ attribution' = [id \in DOMAIN after |->
                       IF Scattered(f) /\ id \in Family(f, DOMAIN after) THEN Changing
                       ELSE IF id \in DOMAIN attribution THEN attribution[id] ELSE NotResolved]

Import(f) ==
  /\ MapThenSumSet(LAMBDA l : Len(read[l]), Locators) < MaxRead
  /\ read[f.locator] # <<>> => Last(read[f.locator]) # f
  /\ read' = [read EXCEPT ![f.locator] = Append(@, f)]
  /\ IF f.accepted THEN ImportAccepted(f) ELSE UNCHANGED <<session, diagnostics, attribution>>

-----------------------------------------------------------------------------
(* _assign_projects and resolve_project: git may find the project of a
   directory, the directory or git may be unavailable, or the answer unclear.
   The project of a directory is written as the directory. *)
Answers == {"found", "unavailable", "unclear"}
(* Slip: the project a session had is kept although its directory was given up. *)
ResolvedStale(id, git) ==
  IF attribution[id].project # None THEN attribution[id]
  ELSE [project |-> IF session[id].cwd # None /\ git[session[id].cwd] = "found" THEN session[id].cwd ELSE None,
        reason |-> "recorded_directory"]
Resolved(id, git) ==
  LET cwd == session[id].cwd
      old == attribution[id]
  IN IF session[id].harness = "copilot-cli" /\ cwd = None /\ old = Changing THEN old
     ELSE IF cwd = None THEN [project |-> None, reason |-> "missing_or_relative_cwd"]
     ELSE CASE git[cwd] = "found" -> [project |-> cwd, reason |-> "recorded_directory"]
            [] git[cwd] = "unavailable" /\ old.project # None -> old
            [] OTHER -> [project |-> None, reason |-> "directory_unavailable"]

AssignProjects == \E git \in [Directories -> Answers] :
  /\ attribution' = [id \in DOMAIN session |-> Resolved(id, git)]
  /\ UNCHANGED <<read, session, diagnostics>>

Init == /\ read = [l \in Locators |-> <<>>]
        /\ session = [id \in {} |-> None] /\ diagnostics = {} /\ attribution = [id \in {} |-> None]
Next == (\E f \in Files : Import(f)) \/ AssignProjects
Spec == Init /\ [][Next]_vars

-----------------------------------------------------------------------------
(* Properties. *)

(* Every variable has its type; every session has an attribution. *)
TypeOK ==
  /\ read \in [Locators -> Seq(Files)]
  /\ DOMAIN attribution = DOMAIN session
  /\ \A id \in DOMAIN session :
       /\ session[id].harness \in Harnesses
       /\ session[id].cwd \in Directories \cup {None}
       /\ session[id].started \in {f.started : f \in Files} \cup {None}
       /\ attribution[id].project \in Directories \cup {None}
  /\ \A n \in diagnostics : n[1] \in DOMAIN session

Told(id) == {f.cwd : f \in ReadOf(id)} \ {None}
Merges(harness) == harness \notin {"pi", "codex"}
(* The directory of a Claude or Copilot session is the one every reading of it
   agrees on, and none once any two disagree: it depends neither on the order
   in which copies are read nor on what is read last. *)
OrderFree ==
  \A id \in DOMAIN session : Merges(session[id].harness) /\ ReadOf(id) # {} =>
    session[id].cwd = IF Cardinality(Told(id)) = 1 /\ \A f \in ReadOf(id) : ~f.broken
                      THEN CHOOSE d \in Told(id) : TRUE ELSE None

(* A session starts when its first reading starts and, where readings cannot
   tell of another session, ends when the last one ends. *)
Spans ==
  \A id \in DOMAIN session : ReadOf(id) # {} =>
    LET started == {f.started : f \in ReadOf(id)} \ {None}
        seen == {f.seen : f \in ReadOf(id)} \ {None}
    IN /\ session[id].harness # "pi" /\ started # {} => session[id].started = Min(started)
       /\ session[id].harness \in {"claude", "copilot-cli"} /\ seen # {} => session[id].seen = Max(seen)

(* Readings of a Pi or Codex session that tell different headers are noticed:
   such a session is in conflict, in whatever order they were read. *)
HeadersNoted ==
  \A id \in DOMAIN session : session[id].harness \in {"pi", "codex"} =>
    \A f, g \in ReadOf(id) :
      f.cwd # g.cwd \/ f.parent # g.parent \/ (f.harness = "pi" /\ f.started # g.started) =>
        Noted(id, "header_conflict")

(* A disputed name is never shown again. *)
NamesStay == \A id \in DOMAIN session : Noted(id, "name_conflict") => session'[id].name = None
(* A name that is shown is told by the reading that came last, and unless a
   file went on to tell another all that was read of the session agrees on it. *)
NameTold ==
  \A id \in DOMAIN session : session[id].name # None =>
    /\ \E l \in Locators : read[l] # <<>> /\ Last(read[l]) \in ReadOf(id) /\ Last(read[l]).name = session[id].name
    /\ (\A l \in Locators : Len(read[l]) <= 1) => \A f, g \in ReadOf(id) : f.name = g.name

(* The sessions of the agents of a Copilot CLI session are nowhere it is not. *)
AgentsFollow ==
  \A id \in DOMAIN session : Len(id) = 2 /\ <<id[1]>> \in DOMAIN session =>
    session[id].cwd \in {None, session[<<id[1]>>].cwd}

(* A project is that of the session's directory as it is now: when git cannot
   tell, the project that is kept is not that of a directory given up. *)
ProjectOfDirectory ==
  AssignProjects => \A id \in DOMAIN session : attribution'[id].project \in {None, session[id].cwd}
=============================================================================
