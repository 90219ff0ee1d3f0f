--------------------------- MODULE CodexTranscript ---------------------------
(* The transcript of a Codex rollout in the legacy format: what was said is
   recorded as a response item and again as an event near it.  Events that
   repeat an item are hidden, one for one, then tools get their results.

   Abstraction: contents are sets of texts, a message has one; roles, phases and
   identities are values; notices and what is passed over are left out. *)
EXTENDS TranscriptTools

CONSTANTS Records,  \* what a line may hold: kind, turn, role, phase, id, texts
          MaxLines  \* bound

VARIABLES file,  \* the records so far, each with its turn as scope
          scope, \* the turn being read
          step,  \* read, mirror, done or refused
          todo,  \* events not compared yet
          used,  \* contents of items that have their event
          shown, \* entries of the page
          out    \* outputs of the calls
vars == <<file, scope, step, todo, used, shown, out>>

Events == {"event", "thought_event"}
Items == {"raw", "thought"}
Calls == Kinds(file, {"call"})
Results == Kinds(file, {"result"})

Stamped(r) == [r EXCEPT !.scope = IF r.turn = None THEN scope ELSE r.turn]
Read(r) ==
  /\ step = "read" /\ Len(file) < MaxLines
  /\ file' = Append(file, Stamped(r))
  /\ scope' = IF r.kind = "turn" THEN r.turn ELSE scope
  /\ shown' = Append(shown, r.kind # "turn") /\ out' = Append(out, NoOutput)
  /\ UNCHANGED <<step, todo, used>>
(* A rollback, or the header of another session. *)
Refuse == step = "read" /\ step' = "refused" /\ UNCHANGED <<file, scope, todo, used, shown, out>>
ReadAll == /\ step = "read" /\ step' = "mirror" /\ todo' = Kinds(file, Events)
           /\ UNCHANGED <<file, scope, used, shown, out>>

-----------------------------------------------------------------------------
(* _reconcile_mirrors, event by event.  Slips: items of any turn; an event for
   every item, however many it has; a window that ends a line early. *)
Named(e, i) == file[e].id # None /\ file[e].id = file[i].id
SameSpeaker(e, i) == file[i].scope = file[e].scope /\ file[i].role = file[e].role
AnyTurn(e) == {i \in Kinds(file, Items) : file[i].role = file[e].role /\ (Near(e, i) \/ Named(e, i))}
Closer(e) == {i \in Kinds(file, Items) : SameSpeaker(e, i) /\ ((Near(e, i) /\ i + Window # e) \/ Named(e, i))}
Possible(e) == {i \in Kinds(file, Items) : SameSpeaker(e, i) /\ (Near(e, i) \/ Named(e, i))}

SamePhase(e, i) == None \in {file[e].phase, file[i].phase} \/ file[e].phase = file[i].phase
Repeats(e, i) ==
  /\ SamePhase(e, i)
  /\ IF file[e].kind = "thought_event" THEN file[i].kind = "thought" /\ file[e].texts \subseteq file[i].texts
     ELSE file[i].kind = "raw" /\ file[e].texts = file[i].texts
(* A message item has one event, an item of reasoning one for each of its texts. *)
Claim(e, i) == <<i, IF file[e].kind = "thought_event" THEN file[e].texts ELSE {}>>
Free(e, i) == TRUE
Available(e, i) == Claim(e, i) \notin used
Candidates(e) == {i \in Possible(e) : Available(e, i) /\ Repeats(e, i)}

(* Slip: the item is hidden too. *)
HidesBoth(e) == {e} \cup Candidates(e)
Hides(e) == {e}
Mirror(e) ==
  /\ step = "mirror" /\ e = Min(todo) /\ todo' = todo \ {e}
  /\ IF Cardinality(Candidates(e)) = 1
     THEN shown' = [i \in DOMAIN shown |-> shown[i] /\ i \notin Hides(e)] /\ used' = used \cup {Claim(e, i) : i \in Candidates(e)}
     ELSE UNCHANGED <<shown, used>>
  /\ UNCHANGED <<file, scope, step, out>>

(* A page without entries is refused.  Slip: results stay where they are. *)
ResultsStay == shown
Paired == PairedShown(file, shown, Calls, Results)
PairTools ==
  /\ step = "mirror" /\ todo = {}
  /\ out' = PairedOut(file, out, Calls, Results) /\ shown' = Paired
  /\ step' = IF \E i \in DOMAIN shown : shown[i] THEN "done" ELSE "refused"
  /\ UNCHANGED <<file, scope, todo, used>>

Init == /\ file = <<>> /\ scope = None /\ step = "read" /\ todo = {} /\ used = {}
        /\ shown = <<>> /\ out = <<>>
Next == (\E r \in Records : Read(r)) \/ Refuse \/ ReadAll \/ (todo # {} /\ Mirror(Min(todo))) \/ PairTools
Spec == Init /\ [][Next]_vars

-----------------------------------------------------------------------------
(* Properties of a finished page. *)
Done == step = "done"

(* Types, and only records that others can say again are ever hidden. *)
TypeOK == /\ Len(shown) = Len(file) /\ Len(out) = Len(file) /\ todo \subseteq Kinds(file, Events)
          /\ \A i \in DOMAIN file : ~shown[i] => file[i].kind \in Events \cup {"turn", "result"}
          /\ \A i \in DOMAIN file : out[i] # NoOutput => i \in Calls /\ out[i].lines \subseteq Results

(* What is hidden is shown by another entry of its turn: nothing recorded is
   lost. *)
Shows(j) == file[j].texts \cup UNION {file[l].texts : l \in out[j].lines}
NothingHidden ==
  Done => \A i \in DOMAIN file : ~shown[i] /\ file[i].kind # "turn" => \E j \in DOMAIN file :
    shown[j] /\ file[j].scope = file[i].scope /\ file[i].texts \subseteq Shows(j)

(* An item hides one event, not each that is like it: what was said twice is
   not shown as said once. *)
Alike(e) == {d \in Kinds(file, {file[e].kind}) : SameSpeaker(e, d) /\ file[d].texts = file[e].texts}
OneEventEach ==
  Done => \A e \in Kinds(file, Events) :
    Cardinality({d \in Alike(e) : ~shown[d]}) <=
    Cardinality({i \in Kinds(file, Items) : SameSpeaker(e, i)
                   /\ IF file[e].kind = "event" THEN file[i].kind = "raw" /\ file[i].texts = file[e].texts
                      ELSE file[i].kind = "thought" /\ file[e].texts \subseteq file[i].texts})

(* An event and an item within the window that are like no other record of the
   file are one entry, wherever in the file they are. *)
OnlyPair(e, i) ==
  /\ Near(i, e) /\ SameSpeaker(e, i) /\ Repeats(e, i)
  /\ \A j \in Kinds(file, Items) \ {i} : file[j].texts \cap file[e].texts = {}
  /\ \A d \in Kinds(file, Events) \ {e} : file[d].texts \cap file[i].texts = {}
PairsMerged == Done => \A e \in Kinds(file, Events), i \in Kinds(file, Items) : OnlyPair(e, i) => ~shown[e]

(* Every result is read once, in one call or on its own. *)
OutputsOnce ==
  Done => \A r \in Results : LET inside == {c \in Calls : r \in out[c].lines} IN
            IF shown[r] THEN inside = {} ELSE Cardinality(inside) = 1
=============================================================================
