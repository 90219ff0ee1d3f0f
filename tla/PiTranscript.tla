----------------------------- MODULE PiTranscript ----------------------------
(* The transcript of one branch of a Pi session.  Entries name their parent;
   identities that repeat and parents in a circle are left out, each leaf is a
   branch with the nearest label above it, and the tools of the branch that was
   asked for get their results.

   Abstraction: an entry is a call, a result, a label, a compaction that repeats
   calls and results, or anything else; contents and warnings are left out. *)
EXTENDS Naturals, Sequences, FiniteSets, FiniteSetsExt, SequencesExt

CONSTANTS None,
          Records, \* what a line may hold: id, parent, kind, call, name, target, label, kept
          MaxLines \* bound

VARIABLES file,    \* the records so far
          step,    \* read, cycles, select, path, labels, done, refused or crashed
          left,    \* entries, then leaves, that the step has not come to
          at,      \* the entry a walk towards the root has come to, 0 above the root
          chain,   \* the entries the walk passed
          colour,  \* new, open or closed in the search for cycles
          invalid, \* entries whose parents never end
          picked,  \* the leaf asked for
          cache,   \* labels of the entries that were walked
          out      \* outputs of the calls of the page, <<line, 0>> or <<line, n>> for a repeated one
walk == <<left, at, chain>>
vars == <<file, step, walk, colour, invalid, picked, cache, out>>

Lines == DOMAIN file
Candidates == {i \in Lines : file[i].id # None}
(* A record without an identity is passed over, one that shares it is left out. *)
Nodes == {i \in Candidates : \A j \in Lines \ {i} : file[j].id # file[i].id}
Up(i, nodes) == LET above == {p \in nodes : file[p].id = file[i].parent} IN IF above = {} THEN 0 ELSE Max(above)

Read(r) == /\ step = "read" /\ Len(file) < MaxLines /\ file' = Append(file, r)
           /\ UNCHANGED <<step, walk, colour, invalid, picked, cache, out>>
(* A header of another session, or no entry at all. *)
Refuse == step = "read" /\ step' = "refused" /\ UNCHANGED <<file, walk, colour, invalid, picked, cache, out>>
ReadAll == /\ step = "read" /\ Candidates # {} /\ step' = "cycles"
           /\ left' = Nodes /\ colour' = [i \in Nodes |-> "new"]
           /\ UNCHANGED <<file, at, chain, invalid, picked, cache, out>>

-----------------------------------------------------------------------------
(* _cyclic_ancestry: from each entry to the first that was met before.  Slip:
   only a circle closed by this walk counts, not one found earlier; the walk
   stays open. *)
Start(i) ==
  /\ step = "cycles" /\ at = 0 /\ chain = <<>> /\ i = Min(left) /\ left' = left \ {i}
  /\ at' = IF colour[i] = "new" THEN i ELSE 0
  /\ UNCHANGED <<file, step, chain, colour, invalid, picked, cache, out>>
Follow ==
  /\ step = "cycles" /\ at # 0 /\ colour[at] = "new"
  /\ colour' = [colour EXCEPT ![at] = "open"] /\ chain' = Append(chain, at) /\ at' = Up(at, Nodes)
  /\ UNCHANGED <<file, step, left, invalid, picked, cache, out>>
ClosesCircle == at # 0 /\ colour[at] = "open"
Endless == at # 0 /\ (colour[at] = "open" \/ at \in invalid)
StillOpen == colour
Closed == [i \in DOMAIN colour |-> IF i \in Range(chain) THEN "closed" ELSE colour[i]]
Close ==
  /\ step = "cycles" /\ chain # <<>> /\ (at # 0 => colour[at] # "new")
  /\ invalid' = IF Endless THEN invalid \cup Range(chain) ELSE invalid
  /\ colour' = Closed /\ chain' = <<>> /\ at' = 0
  /\ UNCHANGED <<file, step, left, picked, cache, out>>

(* Slips: invalid entries stay; records that are left out still have parents. *)
KeepInvalid == Nodes
Valid == Nodes \ invalid
ParentsOfAll == {Up(i, Valid) : i \in Candidates}
Parents == {Up(i, Valid) : i \in Valid}
Leaves == Valid \ Parents
CyclesDone ==
  /\ step = "cycles" /\ left = {} /\ chain = <<>> /\ at = 0 /\ step' = IF Leaves = {} THEN "refused" ELSE "select"
  /\ UNCHANGED <<file, walk, colour, invalid, picked, cache, out>>

-----------------------------------------------------------------------------
(* The branch asked for, or the latest.  Slip: the first. *)
First == Min(Leaves)
Latest == Max(Leaves)
Select(branch) ==
  /\ step = "select" /\ picked' = branch /\ at' = branch /\ step' = "path"
  /\ UNCHANGED <<file, left, chain, colour, invalid, cache, out>>
NoSuchBranch == step = "select" /\ step' = "refused" /\ UNCHANGED <<file, walk, colour, invalid, picked, cache, out>>

(* _path; parse_pi_transcript asserts that it comes to an end. *)
Climb ==
  /\ step = "path" /\ at # 0
  /\ IF at \in Range(chain) THEN step' = "crashed" /\ UNCHANGED <<chain, at>>
     ELSE chain' = Append(chain, at) /\ at' = Up(at, Valid) /\ UNCHANGED step
  /\ UNCHANGED <<file, left, colour, invalid, picked, cache, out>>

(* _pair_tools, for the calls and results of a branch, and for those that a
   compaction repeats.  Slip: repeated calls take part in both. *)
Item(e) == IF e[2] = 0 THEN file[e[1]] ELSE file[e[1]].kept[e[2]]
Own(lines) == {<<i, 0>> : i \in lines}
Kept(i) == {<<i, n>> : n \in DOMAIN file[i].kept}
Same(kind, e, S) == {d \in S : Item(d).kind = kind /\ Item(d).call = Item(e).call /\ Item(e).call # None}
Ambiguous(e, S) ==
  \/ Cardinality(Same("call", e, S)) > 1 \/ Cardinality(Same("result", e, S)) > 1
  \/ \E c \in Same("call", e, S), r \in Same("result", e, S) : Item(c).name # Item(r).name
Output(e, S) ==
  IF Item(e).kind # "call" THEN [results |-> {}, conflict |-> FALSE]
  ELSE [results |-> IF Ambiguous(e, S) THEN {} ELSE Same("result", e, S),
        conflict |-> Item(e).call # None /\ Ambiguous(e, S)]
OuterKept(lines) == Own(lines) \cup {e \in UNION {Kept(i) : i \in lines} : Item(e).kind = "call"}
Outer(lines) == Own(lines)
Reached ==
  /\ step = "path" /\ at = 0 /\ step' = "labels" /\ left' = Leaves /\ chain' = <<>>
  /\ LET lines == Range(chain) IN
       out' = [e \in Own(lines) \cup UNION {Kept(i) : i \in lines} |->
                 Output(e, IF e[2] = 0 THEN Outer(lines) ELSE Kept(e[1]))]
  /\ UNCHANGED <<file, at, colour, invalid, picked, cache>>

-----------------------------------------------------------------------------
(* _leaf_label: up to the first entry whose label is known, and down again.
   Slip: the whole walk has the label of its start. *)
Label(i) == LET own == {l \in Valid : file[l].kind = "label" /\ file[l].target = file[i].id}
            IN IF own = {} THEN None ELSE file[Max(own)].label
NextLeaf(i) ==
  /\ step = "labels" /\ at = 0 /\ chain = <<>> /\ i = Min(left) /\ left' = left \ {i} /\ at' = i
  /\ UNCHANGED <<file, step, chain, colour, invalid, picked, cache, out>>
Gather ==
  /\ step = "labels" /\ at # 0 /\ at \notin DOMAIN cache
  /\ chain' = Append(chain, at) /\ at' = Up(at, Valid)
  /\ UNCHANGED <<file, step, left, colour, invalid, picked, cache, out>>
Inherited(k) ==
  LET labelled == {j \in k .. Len(chain) : Label(chain[j]) # None}
  IN IF labelled # {} THEN Label(chain[Min(labelled)]) ELSE IF at = 0 THEN None ELSE cache[at]
SameForAll(k) == Inherited(1)
Known(k) == Inherited(k)
Spread ==
  /\ step = "labels" /\ chain # <<>> /\ (at = 0 \/ at \in DOMAIN cache)
  /\ cache' = [i \in DOMAIN cache \cup Range(chain) |->
                 IF i \in Range(chain) THEN Known(CHOOSE k \in DOMAIN chain : chain[k] = i) ELSE cache[i]]
  /\ chain' = <<>> /\ at' = 0
  /\ UNCHANGED <<file, step, left, colour, invalid, picked, out>>
Finish == /\ step = "labels" /\ left = {} /\ at = 0 /\ chain = <<>> /\ step' = "done"
          /\ UNCHANGED <<file, walk, colour, invalid, picked, cache, out>>

Init == /\ file = <<>> /\ step = "read" /\ left = {} /\ at = 0 /\ chain = <<>> /\ colour = <<>>
        /\ invalid = {} /\ picked = 0 /\ cache = <<>> /\ out = <<>>
Next == \/ \E r \in Records : Read(r)
        \/ Refuse \/ ReadAll
        \/ (left # {} /\ Start(Min(left))) \/ Follow \/ Close \/ CyclesDone
        \/ (step = "select" /\ Select(Latest)) \/ (\E branch \in Leaves : Select(branch)) \/ NoSuchBranch
        \/ Climb \/ Reached
        \/ (left # {} /\ NextLeaf(Min(left))) \/ Gather \/ Spread \/ Finish
Spec == Init /\ [][Next]_vars

-----------------------------------------------------------------------------
(* Properties. *)
Steps == {"read", "cycles", "select", "path", "labels", "done", "refused", "crashed"}
Ancestor(i, nodes) ==
  LET f[n \in 0 .. Len(file)] == IF n = 0 THEN i ELSE IF f[n - 1] = 0 THEN 0 ELSE Up(f[n - 1], nodes) IN f
Ends(i, nodes) == Ancestor(i, nodes)[Len(file)] = 0
Above(i, nodes) == Range(Ancestor(i, nodes)) \ {0}

(* Types; while circles are looked for, the open entries are those of the walk. *)
TypeOK == /\ step \in Steps /\ invalid \subseteq Nodes /\ left \subseteq Nodes /\ Range(chain) \subseteq Nodes
          /\ step = "cycles" => Range(chain) = {i \in Nodes : colour[i] = "open"}
          /\ DOMAIN cache \subseteq Valid /\ at \in Lines \cup {0}

(* One pass finds the entries whose ancestry never ends, and no others, however
   their circles and the ways into them are ordered in the file. *)
CirclesFound ==
  step \in {"select", "path", "labels", "done"} => invalid = {i \in Nodes : ~Ends(i, Nodes)}

(* The assertion of parse_pi_transcript: the way from a leaf comes to an end. *)
WayEnds == step # "crashed"

(* Every entry with a single identity and an end above it is on a branch that
   can be asked for. *)
AllOnBranches ==
  step = "select" => \A i \in Nodes : Ends(i, Nodes) => \E l \in Leaves : i \in Above(l, Valid)

(* When entries come after their parents, the page without a branch shows the
   last entry of the file. *)
InOrder == \A i \in Lines : \A j \in i .. Len(file) : file[i].parent # None => file[j].id # file[i].parent
LatestShown == (step = "done" /\ picked = Latest /\ InOrder) => <<Max(Valid), 0>> \in DOMAIN out

(* A branch has the label of the nearest labelled entry above its leaf, whatever
   was remembered from the branches before it. *)
NearestLabel ==
  step = "done" => \A l \in Leaves :
    LET labelled == {i \in Above(l, Valid) : Label(i) # None}
    IN IF labelled = {} THEN cache[l] = None
       ELSE \E i \in labelled : labelled \subseteq Above(i, Valid) /\ cache[l] = Label(i)

(* A call and a result of its name that share an identity with nothing else of
   the branch belong together, whatever other branches hold and compactions
   repeat; no result is in two calls of the branch, or in one of another name. *)
ToolsPaired ==
  step = "done" =>
    LET own == {e \in DOMAIN out : e[2] = 0}
        Lone(c, r) == \A e \in own \ {c, r} : Item(e).kind \in {"call", "result"} => Item(e).call # Item(c).call
    IN /\ \A c, r \in own : (/\ Item(c).kind = "call" /\ Item(r).kind = "result" /\ Item(c).call # None
                             /\ Item(c).call = Item(r).call /\ Item(c).name = Item(r).name /\ Lone(c, r))
                              => out[c].results = {r} /\ ~out[c].conflict
       /\ \A c, d \in own : c # d => out[c].results \cap out[d].results = {}
       /\ \A c \in own : \A r \in out[c].results : Item(r).name = Item(c).name /\ r \in own
=============================================================================
