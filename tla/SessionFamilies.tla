-------------------------- MODULE SessionFamilies --------------------------
(* Which session a delegated session belongs to.  The tables keep every link
   that was ever read: what a history tells of sessions it delegated to, the
   file a session names as its parent, the thread a Codex thread was started
   by.  Owners are found anew from all of them whenever a report is built.

   To what SessionMerge says of a file this adds real (its path with links
   resolved), refs (its links: entry, kind, value, and the path of the owner
   or None) and thread (the Codex thread that started it, or None). *)
EXTENDS SessionMerge

CONSTANT Suffix  \* what follows the # in each name, None without one

Sources == {f \in UNION {Range(read[l]) : l \in Locators} : f.accepted}
Sole(ids) == IF Cardinality(ids) = 1 THEN CHOOSE id \in ids : TRUE ELSE None
(* All that is met on the way up from id. *)
Way(up, id) ==
  LET at[n \in 0..Cardinality(DOMAIN session)] ==
        IF n = 0 THEN id ELSE LET last == at[n - 1] IN IF last \in DOMAIN up THEN up[last] ELSE None
  IN {at[n] : n \in DOMAIN at \ {0}} \ {None}

(* A path that held two sessions stands for neither. *)
At(path) == Sole({Id(f) : f \in {g \in Sources : g.locator = path}})
AtReal(path) == Sole({Id(f) : f \in {g \in Sources : g.real = path}})
Parent == [id \in DOMAIN session |-> IF session[id].parent = None THEN None ELSE At(session[id].parent)]
Ancestors(id) == Way(Parent, id)

Alike(a, b) == session[a].harness = session[b].harness
Named(owner, name) == {id \in DOMAIN session : Alike(id, owner) /\ session[id].name = name}
(* Only agents whose own header names the owner as the parent. *)
Agents(owner, suffix) ==
  {id \in DOMAIN session : /\ Alike(id, owner) /\ Parent[id] = owner
                           /\ session[id].name # None /\ Suffix[session[id].name] = suffix}

(* The links, with the session that owns what they tell of and those they may
   mean by it. *)
Meant(owner, ref) ==
  IF owner = None THEN {}
  ELSE CASE ref.kind = "child_path" -> {At(ref.value)} \ {None}
         [] ref.kind = "child_path_hash" -> {AtReal(ref.value)} \ {None}
         [] ref.kind = "child_name" -> Named(owner, ref.value)
         [] ref.kind = "agent_id" -> Agents(owner, ref.value)
Links == UNION {{LET owner == IF r.owner = None THEN Id(f) ELSE At(r.owner)
                 IN [owner |-> owner, record |-> r, children |-> Meant(owner, r)] : r \in f.refs} : f \in Sources}
Evidence == {x \in Links : LET c == Sole(x.children) IN c # None /\ c # x.owner /\ Alike(c, x.owner)}
Child(x) == Sole(x.children)

(* Of the sessions that hold a record, those that copied it from none of the
   others.  Slip: whoever holds the record has delegated. *)
AllOwners(possible) == possible
Originals(possible) == {o \in possible : \A other \in possible \ {o} : other \notin Ancestors(o)}
ByRecord(id) ==
  LET held == {x \in Evidence : Child(x) = id}
      record(x) == [entry |-> x.record.entry, kind |-> x.record.kind, value |-> x.record.value]
  IN UNION {Originals({y.owner : y \in {z \in held : record(z) = record(x)}}) : x \in held}

(* Slip: the session that is in the file now. *)
ReadLast(path) == {Id(f) : f \in {g \in Sources : read[path] # <<>> /\ Last(read[path]) = g /\ g.harness = "copilot-cli"}}
ReadAt(path) == {Id(f) : f \in {g \in Sources : g.locator = path /\ g.harness = "copilot-cli"}}
ByParent(id) ==
  LET path == session[id].parent IN
  IF path = None THEN {}
  ELSE CASE session[id].harness = "claude" -> {At(path)} \ {None}
         [] session[id].harness = "copilot-cli" -> {Sole(ReadAt(path))} \ {None}
         [] OTHER -> {}
Threads(id) == {<<f.thread>> : f \in {g \in Sources : Id(g) = id /\ g.thread # None}}
ByThread(id) == Threads(id) \cap DOMAIN session
Candidates(id) == ByRecord(id) \cup ByParent(id) \cup ByThread(id)

(* Slip: when two sessions claim one, either is taken. *)
OwnersAny == [id \in {i \in DOMAIN session : Candidates(i) # {}} |-> CHOOSE o \in Candidates(id) : TRUE]
Owners == [id \in {i \in DOMAIN session : Cardinality(Candidates(i)) = 1} |-> Sole(Candidates(id))]

(* The session at the top, for the sessions whose way up ends.
   Slip: the session one step up. *)
OneUp(up) == up
Roots(up) ==
  LET tops == [id \in DOMAIN up |-> Way(up, id) \ DOMAIN up]
  IN [id \in {i \in DOMAIN up : tops[i] # {}} |-> Sole(tops[id])]

(* What the report says of links it could not follow. *)
Ambiguous ==
  \/ \E id \in DOMAIN session : Cardinality(Candidates(id)) > 1
  \/ \E x \in Evidence : Candidates(Child(x)) = {}
  \/ \E x \in Links : Cardinality(x.children) > 1
  \/ \E id \in DOMAIN session : /\ session[id].harness = "copilot-cli" /\ session[id].parent # None
                                /\ Cardinality(ReadAt(session[id].parent)) > 1
Cyclic == (\E x \in Links : x.owner \in x.children /\ Child(x) # None) \/ DOMAIN Roots(Owners) # DOMAIN Owners
MissingOwner ==
  \/ \E x \in Links : x.owner = None
  \/ \E id \in DOMAIN session : \/ ~ Threads(id) \subseteq DOMAIN session
                                \/ /\ session[id].harness \in {"claude", "copilot-cli"} /\ session[id].parent # None
                                   /\ ByParent(id) = {}
(* Slip: only a file that is missing is worth a word. *)
MissingFile == \E x \in Links : x.owner # None /\ x.record.kind = "child_path" /\ x.children = {}
MissingHistory == \E x \in Links : x.owner # None /\ x.record.kind # "agent_id" /\ x.children = {}
CrossHarness == \E x \in Links : x.owner # None /\ Child(x) # None /\ ~Alike(Child(x), x.owner)

Reading == \E f \in Files : Import(f)
Readings == Init /\ [][Reading]_vars

-----------------------------------------------------------------------------
(* Properties. *)

Top(id) == LET roots == Roots(Owners) IN IF id \in DOMAIN roots THEN roots[id] ELSE id

(* A session that forked another and copied its records does not take over the
   sessions that the other delegated to, whichever of them is read first: once
   both are read the child is owned by the one that told it first, unless
   something else claims it. *)
ForksOwnNothing ==
  \A x, y \in Evidence :
    ( /\ Child(x) = Child(y) /\ x.record = y.record /\ x.owner \in Ancestors(y.owner) /\ y.owner \notin Ancestors(x.owner)
      /\ \A z \in Evidence : Child(z) = Child(x) => z.record = x.record /\ z.owner \in {x.owner, y.owner}
      /\ ByParent(Child(x)) \cup ByThread(Child(x)) = {} )
    => Child(x) \in DOMAIN Owners /\ Owners[Child(x)] = x.owner

(* A delegation is never dropped without a word: the session it tells of is in
   one family with a session that holds the record, or the report says that an
   owner is in doubt, missing or met again on its way up.  Only agents without
   a history of their own are not mentioned. *)
Explained ==
  \A x \in Links :
    \/ x.record.kind = "agent_id" /\ x.owner # None /\ x.children = {}
    \/ \E y \in Evidence : Child(y) = Child(x) /\ y.record.entry = x.record.entry /\ Top(Child(y)) = Top(y.owner)
    \/ Ambiguous \/ Cyclic \/ MissingOwner \/ MissingHistory \/ CrossHarness

(* The agents of a Copilot CLI session are in no other session's family, and in
   its own if all that was read from the file that told of them is that session. *)
AgentsAtHome ==
  \A id \in DOMAIN session : Len(id) = 2 =>
    LET home == Top(<<id[1]>>)  path == session[id].parent IN
    /\ Top(id) \in {id, home}
    /\ {Id(f) : f \in {g \in Sources : g.locator = path}} = {<<id[1]>>} => Top(id) = home

(* The families are trees: nobody at the top of one has an owner, and whoever is
   owned is in the family of the owner, or nowhere when the way up is a circle. *)
Trees ==
  LET up == Owners  roots == Roots(up) IN
  \A id \in DOMAIN roots : /\ roots[id] \notin DOMAIN up
                           /\ up[id] = roots[id] \/ (up[id] \in DOMAIN roots /\ roots[up[id]] = roots[id])

(* What is read later moves a session from one owner to another only to the
   session its owner was forked from; otherwise doubt leaves it without. *)
Resettled ==
  \A id \in DOMAIN Owners : id \in DOMAIN Owners' =>
    \A o \in {Owners[id]} : Owners'[id] = o \/ Owners'[id] \in Ancestors(o)'
=============================================================================
