--------------------------- MODULE StoredTranscript --------------------------
(* The transcript of a Codex rollout in the paginated format: every response
   item ("raw") may be recorded a second time as a completed item ("typed"),
   under the same identity, an older one, or near it without any.  Pairs become
   one entry that keeps what either says.

   Abstraction: contents are sets of texts; roles, phases, identities, names and
   arguments of tools are values; notices, models and titles are left out. *)
EXTENDS TranscriptTools

CONSTANTS Records,     \* what a line may hold
          Unavailable, \* the texts that hold the word "unavailable"
          ItemIds, MessageIds, \* identities "item-..." and "msg_..."
          MaxLines     \* bound

VARIABLES file,  \* the records so far, each with its turn as scope
          scope, \* the turn being read
          step,  \* read, then one step for each reconciliation, done or refused
          todo,  \* typed users, then typed tools, not compared yet
          used,  \* raw users and raw calls that have their typed one
          texts, \* what each entry says
          role,  \* as whom
          out,   \* the outputs that tools show
          shown  \* entries of the page
page == <<texts, role, out, shown>>
vars == <<file, scope, step, todo, used, page>>

(* Kinds of records.  Results and typed outputs have the call's identity. *)
Raw == {"message", "thought", "call", "result"}
Typed == {"user", "agent", "reason", "output", "tool"}
Lines(kinds) == Kinds(file, kinds)

Stamped(r) == [r EXCEPT !.scope = IF r.turn = None THEN scope ELSE r.turn]
(* A tool that recorded an output has a status. *)
Own(r, line) == IF r.kind = "tool" /\ r.status # None THEN Output(line) ELSE NoOutput
Read(r) ==
  /\ step = "read" /\ Len(file) < MaxLines
  /\ file' = Append(file, Stamped(r))
  /\ scope' = IF r.kind = "turn" THEN r.turn ELSE scope
  /\ texts' = Append(texts, IF r.kind = "tool" THEN {} ELSE r.texts)
  /\ role' = Append(role, IF r.inherited THEN "context" ELSE r.role)
  /\ out' = Append(out, Own(r, Len(file) + 1))
  /\ shown' = Append(shown, r.kind # "turn")
  /\ UNCHANGED <<step, todo, used>>
(* A rollback, the header of another session, or nothing said at all. *)
Refuse == step = "read" /\ step' = "refused" /\ UNCHANGED <<file, scope, todo, used, page>>
ReadAll == /\ step = "read" /\ Lines(Raw \cup Typed) # {} /\ step' = "identities"
           /\ UNCHANGED <<file, scope, todo, used, page>>

-----------------------------------------------------------------------------
(* _reconcile_identities.  A result without a call has an identity too (nid). *)
Sort(i) ==
  CASE file[i].kind = "agent" \/ (file[i].kind = "message" /\ file[i].role = "assistant") -> "assistant"
    [] file[i].kind \in {"thought", "reason"} -> "reasoning"
    [] file[i].kind = "output" \/ (file[i].kind = "result" /\ file[i].id = None) -> "output"
    [] OTHER -> None
Identity(i) == IF file[i].kind = "result" THEN file[i].nid ELSE file[i].id
Group(i) == {j \in DOMAIN file : Sort(j) = Sort(i) /\ file[j].scope = file[i].scope /\ Identity(j) = Identity(i)}
RawOf(i) == {j \in Group(i) : file[j].kind \in Raw}
TypedOf(i) == Group(i) \ RawOf(i)
Identified == {i \in DOMAIN file : Sort(i) # None /\ Identity(i) # None}
Participants == {i \in Identified : RawOf(i) # {} /\ TypedOf(i) # {}}
Twins == {i \in Identified : Cardinality(RawOf(i)) = 1 /\ Cardinality(TypedOf(i)) = 1}

(* What is unavailable is left out when anything else was recorded.  Slip: the
   typed item replaces the raw one; it is the one to be hidden. *)
TypedTexts(i) == UNION {texts[j] : j \in TypedOf(i)}
BothTexts(i) == UNION {texts[j] : j \in Group(i)}
Available(all) == IF all \subseteq Unavailable THEN {CHOOSE t \in all : TRUE} ELSE all \ Unavailable
Merged(i) == IF Sort(i) = "reasoning" THEN Available(BothTexts(i)) ELSE BothTexts(i)

(* An older writer gave the item an identity of its own, on the line before. *)
Copied(i) ==
  /\ Sort(i) = "assistant" /\ file[i].kind = "message" /\ i \notin Participants /\ file[i].id \in MessageIds
  /\ i > 1 /\ file[i - 1].kind = "agent" /\ i - 1 \notin Participants /\ file[i - 1].id \in ItemIds
  /\ file[i - 1].scope = file[i].scope
  /\ file[i - 1].phase # None /\ file[i - 1].phase = file[i].phase /\ texts[i - 1] = texts[i]
TypedHidden(i) == i \in Twins /\ file[i].kind \in Typed
RawHidden(i) == i \in Twins /\ file[i].kind \in Raw
Identities ==
  /\ step = "identities" /\ step' = "users" /\ todo' = Lines({"user"})
  /\ texts' = [i \in DOMAIN texts |-> IF i \in Twins /\ file[i].kind \in Typed THEN Merged(i) ELSE texts[i]]
  /\ shown' = [i \in DOMAIN shown |-> shown[i] /\ ~RawHidden(i) /\ ~Copied(i)]
  /\ UNCHANGED <<file, scope, used, role, out>>

-----------------------------------------------------------------------------
(* _reconcile_users: what the user typed, near the message the model was given.
   Slips: the window ends a line early; messages keep their role. *)
RawUsers == {i \in Lines({"message"}) : file[i].role = "user"}
Alike(u, i) == file[i].scope = file[u].scope /\ file[i].texts = file[u].texts
SameCloser(u) == {i \in RawUsers \ used : Alike(u, i) /\ Near(u, i) /\ i # u + Window}
Same(u) == {i \in RawUsers \ used : Alike(u, i) /\ Near(u, i)}
User(u) ==
  /\ step = "users" /\ u = Min(todo) /\ todo' = todo \ {u}
  /\ IF Cardinality(Same(u)) = 1
     THEN shown' = [i \in DOMAIN shown |-> shown[i] /\ i \notin Same(u)] /\ used' = used \cup Same(u)
     ELSE UNCHANGED <<shown, used>>
  /\ UNCHANGED <<file, scope, step, texts, role, out>>
KeepRoles == role
Roles == [i \in DOMAIN role |-> IF i \in RawUsers /\ shown[i] THEN "context" ELSE role[i]]
UsersDone == /\ step = "users" /\ todo = {} /\ step' = "outputs" /\ role' = Roles
             /\ UNCHANGED <<file, scope, todo, used, texts, out, shown>>

(* _reconcile_function_outputs. *)
Results == Lines({"result"})
Outputs ==
  /\ step = "outputs" /\ step' = "tools"
  /\ shown' = [i \in DOMAIN shown |-> shown[i] /\ ~(file[i].kind = "output" /\ LET same == SameId(file, i, Results) IN
                 Cardinality(same) = 1 /\ texts[i] = file[Max(same)].texts)]
  /\ UNCHANGED <<file, scope, todo, used, texts, role, out>>

-----------------------------------------------------------------------------
(* _reconcile_tools: identities that occur twice conflict, one call and at most
   one result of the identity belong to the tool, then calls near it that do the
   same.  What a tool itself recorded stays beside a conflict.  Slips: it is
   dropped; a call may belong to any number of tools; the window ends a line
   early. *)
Calls == Lines({"call"})
Duplicate(i) == file[i].kind = "tool" /\ Cardinality(SameId(file, i, Lines({"tool"}))) > 1
Whole(c) == Cardinality(SameId(file, c, Calls)) = 1 /\ Cardinality(SameId(file, c, Results)) <= 1
NoEvidence(i) == {}
Evidence(i) == file[i].texts
Clash(i, r) == file[i].status \notin {None, "recorded"} /\ file[r].status \notin {"recorded", file[i].status}

(* What belongs to the tools: pairs of a tool and a call. *)
Associate(pairs) ==
  LET callOf(i) == {p[2] : p \in {q \in pairs : q[1] = i}}
      result(i) == UNION {SameId(file, c, Results) : c \in callOf(i)}
      clashes(i) == \E r \in result(i) : Clash(i, r)
      taken == UNION {result(p[1]) : p \in {q \in pairs : ~clashes(q[1])}}
  IN /\ out' = [i \in DOMAIN out |-> IF callOf(i) = {} THEN out[i]
                  ELSE IF clashes(i) THEN Conflicting ELSE [out[i] EXCEPT !.lines = @ \cup result(i)]]
     /\ texts' = [i \in DOMAIN texts |-> IF clashes(i) THEN texts[i] \cup Evidence(i) ELSE texts[i]]
     /\ shown' = [i \in DOMAIN shown |-> shown[i] /\ i \notin taken /\ \A p \in pairs : p[2] # i]
     /\ used' = used \cup {p[2] : p \in pairs}

Conflicts ==
  /\ step = "tools" /\ step' = "exact"
  /\ out' = [i \in DOMAIN out |-> IF Duplicate(i) THEN Conflicting ELSE out[i]]
  /\ texts' = [i \in DOMAIN texts |-> IF Duplicate(i) THEN Evidence(i) ELSE texts[i]]
  /\ UNCHANGED <<file, scope, todo, used, role, shown>>
Exact ==
  /\ step = "exact" /\ step' = "near"
  /\ LET pairs == {p \in Lines({"tool"}) \X Calls :
           ~Duplicate(p[1]) /\ p[2] \in SameId(file, p[1], Calls) /\ Whole(p[2])}
     IN Associate(pairs) /\ todo' = {i \in Lines({"tool"}) : ~Duplicate(i) /\ \A p \in pairs : p[1] # i}
  /\ UNCHANGED <<file, scope, role>>

(* The call does what the tool did; both of a command, or names and arguments. *)
Compatible(i, c) == file[i].does # None /\ file[i].does = file[c].does
Possible(i) == {c \in Calls : Compatible(i, c) /\ file[c].id # None /\ file[c].scope = file[i].scope /\ Whole(c)}
EndLine(c) == IF SameId(file, c, Results) = {} THEN c ELSE Max(SameId(file, c, Results))
Around(i, c) == c + Window >= i /\ c <= i + 1 /\ i <= EndLine(c) + Window
UsedTwice(i) == {c \in Possible(i) : Around(i, c)}
Closer(i) == {c \in Possible(i) \ used : Around(i, c) /\ c + Window # i}
NearCalls(i) == {c \in Possible(i) \ used : Around(i, c)}
NearTool(i) ==
  /\ step = "near" /\ i = Min(todo) /\ todo' = todo \ {i}
  /\ IF Cardinality(NearCalls(i)) = 1 THEN Associate({<<i, c>> : c \in NearCalls(i)})
     ELSE UNCHANGED <<used, texts, out, shown>>
  /\ UNCHANGED <<file, scope, step, role>>

(* The calls and results that are left are paired as in a legacy rollout. *)
PairRest ==
  /\ step = "near" /\ todo = {} /\ step' = "done"
  /\ LET calls == {c \in Calls : shown[c]}
         results == {r \in Results : shown[r]}
     IN out' = PairedOut(file, out, calls, results) /\ shown' = PairedShown(file, shown, calls, results)
  /\ UNCHANGED <<file, scope, todo, used, texts, role>>

Init == /\ file = <<>> /\ scope = None /\ step = "read" /\ todo = {} /\ used = {}
        /\ texts = <<>> /\ role = <<>> /\ out = <<>> /\ shown = <<>>
Next == \/ \E r \in Records : Read(r)
        \/ Refuse \/ ReadAll \/ Identities
        \/ (todo # {} /\ User(Min(todo))) \/ UsersDone \/ Outputs
        \/ Conflicts \/ Exact \/ (todo # {} /\ NearTool(Min(todo))) \/ PairRest
Spec == Init /\ [][Next]_vars

-----------------------------------------------------------------------------
(* Properties of a finished page. *)
Done == step = "done"
Says(j) == texts[j] \cup UNION {file[l].texts : l \in out[j].lines}
Recorded(i) == \E j \in DOMAIN file : shown[j] /\ file[j].scope = file[i].scope /\ file[i].texts \subseteq Says(j)

(* Types, and only raw records and typed outputs are ever hidden. *)
TypeOK ==
  /\ Len(texts) = Len(file) /\ Len(role) = Len(file) /\ Len(out) = Len(file) /\ Len(shown) = Len(file)
  /\ \A i \in DOMAIN file : ~shown[i] => file[i].kind \in Raw \cup {"output", "turn"}
  /\ \A i \in DOMAIN file : out[i] # NoOutput => file[i].kind \in {"tool", "call"}

(* "This transcript shows records stored in the local rollout file": what a
   record says is on the page, in an entry of its turn. *)
EverythingShown == Done => \A i \in DOMAIN file : file[i].kind # "turn" => Recorded(i)

(* The output of a call is read once: in one tool, in the call, or alone. *)
OutputsOnce ==
  Done => \A r \in Results : LET inside == {j \in DOMAIN file : shown[j] /\ r \in out[j].lines} IN
            file[r].id # None => IF shown[r] THEN inside = {} ELSE Cardinality(inside) = 1

(* A tool and a call near before it that do the same, and are like no other, are
   one entry, whatever else is between them. *)
Lone(i, others) == \A j \in others : file[j].does # file[i].does /\ (file[j].id # file[i].id \/ file[i].id = None)
ToolsMerged ==
  Done => \A i \in Lines({"tool"}), c \in Calls :
    /\ Compatible(i, c) /\ file[c].id # None /\ file[c].scope = file[i].scope /\ c <= i /\ Near(i, c)
    /\ Cardinality(SameId(file, c, Results)) <= 1 /\ EndLine(c) >= c
    /\ LET others == Lines({"call", "tool"}) \ {c, i} IN Lone(c, others) /\ Lone(i, others)
    => ~shown[c]

(* What the user typed is shown as the user's once, each time it was typed; what
   else was given to the model in the user's name is context. *)
RequestsOnce ==
  Done => /\ \A i \in DOMAIN file : shown[i] /\ role[i] = "user" => file[i].kind = "user"
          /\ \A u \in Lines({"user"}) : shown[u]
          /\ \A u \in Lines({"user"}), i \in RawUsers :
               /\ Alike(u, i) /\ Near(i, u)
               /\ \A j \in (RawUsers \cup Lines({"user"})) \ {u, i} : file[j].texts # file[u].texts
               => ~shown[i]
=============================================================================
