----------------------------- MODULE ChatReplay -----------------------------
(* A VS Code chat session is a log of operations on one JSON value.  Replaying
   it keeps two structures: the value, and for every place in it the line that
   wrote it last, by which the requests are told apart from copies of them.

   A place is a sequence of keys: numbers from 0 are indices of a list, negative
   ones stand for names of an object.  A value is a function from its places to
   "object", "list" or a scalar. *)
EXTENDS Integers, Sequences, FiniteSets, SequencesExt

CONSTANTS None, Names, Indices, Values,
          Depth, MaxLines  \* bounds

ReplayConstants == /\ \A n \in Names : n \in Int /\ n < 0
                   /\ Indices \subseteq Nat /\ Depth \in Nat /\ MaxLines \in Nat

VARIABLES tree,   \* the value so far, None before the initial one
          lines,  \* the line of every place
          line,   \* lines read
          refused \* a line was refused, and with it the log
vars == <<tree, lines, line, refused>>

Additions == BoundedSeq(Values, 2)
Places == UNION {[1 .. n -> Names \cup Indices] : n \in 0 .. Depth}
Below(path) == {p \in Places : IsPrefix(path, p)}
Resolves(path) == tree # None /\ path \in DOMAIN tree
Here == IF tree = None THEN {} ELSE DOMAIN tree
Length(path) == Cardinality({p \in DOMAIN tree : Len(p) = Len(path) + 1 /\ IsPrefix(path, p)})
(* A value written at a place; values that would get too deep are not written. *)
At(path, value) == {path \o p : p \in DOMAIN value}
Written(path, value, p) == value[SubSeq(p, Len(path) + 1, Len(p))]
Fits(path, value) == \A p \in DOMAIN value : Len(path) + Len(p) <= Depth

(* _drop_tree.  Slip: only the place itself. *)
OnlyPlace(path) == {path}
Dropped(path) == Below(path)
(* What a push at an index cuts off. *)
Cut(path, index) == {p \in Places : Len(p) > Len(path) /\ IsPrefix(path, p) /\ p[Len(path) + 1] >= index}

(* _record_tree.  Slip: a place that has a line keeps it. *)
FirstLine(p) == IF p \in DOMAIN lines THEN lines[p] ELSE line'
LineOf(p) == line'

Keep(f, places) == [p \in DOMAIN f \ places |-> f[p]]
Read == ~refused /\ line < MaxLines /\ line' = line + 1
Accept(newTree, newLines) == tree' = newTree /\ lines' = newLines /\ UNCHANGED refused

-----------------------------------------------------------------------------
Initial(value) ==
  /\ Read /\ tree = None
  /\ Accept(value, [p \in DOMAIN value |-> line'])

(* Slip: the member is looked for in any value. *)
AnyParent(path) == path # <<>> /\ Resolves(Front(path)) /\ Last(path) \in Names
Member(path) == path # <<>> /\ Resolves(Front(path)) /\ tree[Front(path)] = "object" /\ Last(path) \in Names
Set(path, value) ==
  /\ Read /\ Member(path) /\ Fits(path, value)
  /\ Accept([p \in (DOMAIN tree \ Below(path)) \cup At(path, value) |->
              IF p \in At(path, value) THEN Written(path, value, p) ELSE tree[p]],
            [p \in (DOMAIN lines \ Dropped(path)) \cup At(path, value) |->
              IF p \in At(path, value) THEN LineOf(p) ELSE lines[p]])

Delete(path) ==
  /\ Read /\ Member(path) /\ Resolves(path)
  /\ Accept(Keep(tree, Below(path)), Keep(lines, Dropped(path)))

(* An index truncates the list first; an invalid one refuses the log.  Slip:
   the lines of what is cut off stay. *)
CutNothing(path, index) == {}
CutLines(path, index) == Cut(path, index)
(* The list has the line of what was pushed to it.  Slip: and all its elements. *)
WholeList(path) == Below(path)
Renewed(path) == {path}
Index(path, index) == index # None => index <= Length(path)
Push(path, index, additions) ==
  /\ Read /\ Resolves(path) /\ tree[path] = "list" /\ Index(path, index)
  /\ LET start == IF index = None THEN Length(path) ELSE index
         Place(n) == Append(path, start + n - 1)
         added == UNION {At(Place(n), additions[n]) : n \in DOMAIN additions}
         Number(p) == p[Len(path) + 1] - start + 1
         kept == Keep(tree, Cut(path, start))
         left == Keep(lines, CutLines(path, start))
     IN /\ \A n \in DOMAIN additions : Fits(Place(n), additions[n]) /\ start + n - 1 \in Indices
        /\ Accept([p \in DOMAIN kept \cup added |->
                    IF p \in added THEN Written(Place(Number(p)), additions[Number(p)], p) ELSE kept[p]],
                  [p \in DOMAIN left \cup added |->
                    IF p \in added THEN LineOf(p) ELSE IF p \in Renewed(path) THEN line' ELSE left[p]])

(* Another initial value, an operation before it or one whose path leads to
   nothing it can be done to may follow any line: the file is rejected. *)
Refuse == Read /\ refused' = TRUE /\ UNCHANGED <<tree, lines>>

Init == tree = None /\ lines = <<>> /\ line = 0 /\ refused = FALSE
Next == \/ \E value \in Values : Initial(value)
        \/ \E path \in Places : (\E value \in Values : Set(path, value)) \/ Delete(path)
        \/ \E path \in Here : \E index \in Indices \cup {None} : \E additions \in Additions : Push(path, index, additions)
        \/ Refuse
Spec == Init /\ [][Next]_vars

-----------------------------------------------------------------------------
(* Properties. *)

(* The two structures agree: what is in the value has a line, what was removed
   or cut off has none. *)
TypeOK == /\ tree = None => lines = <<>> /\ (line = 0 \/ refused)
          /\ tree # None => DOMAIN lines = DOMAIN tree /\ \A p \in DOMAIN lines : lines[p] \in 1 .. line

(* The value is one that can be written down: every place is in an object, by a
   name, or in a list, by an index, whose indices have no gap. *)
WellFormed ==
  tree # None => \A p \in DOMAIN tree : p # <<>> =>
    /\ Front(p) \in DOMAIN tree
    /\ \/ tree[Front(p)] = "object" /\ Last(p) \in Names
       \/ tree[Front(p)] = "list" /\ Last(p) \in Indices /\ \A i \in 0 .. Last(p) : Append(Front(p), i) \in DOMAIN tree

(* A place that comes to be or changes has the line that did it. *)
ChangesTold == tree # None /\ tree' # None =>
                 \A p \in DOMAIN tree' : p \notin DOMAIN tree \/ tree'[p] # tree[p] => lines'[p] = line'

(* What an operation does not name keeps its value and its line: the requests
   before the one that is pushed or replaced are not taken for new ones. *)
Stays(places) == \A p \in places : p \in DOMAIN tree' /\ tree'[p] = tree[p] /\ lines'[p] = lines[p]
Elsewhere ==
  /\ \A path \in Places : (\E value \in Values : Set(path, value)) \/ Delete(path) => Stays(DOMAIN tree \ Below(path))
  /\ \A path \in Here, index \in Indices \cup {None}, additions \in Additions :
       Push(path, index, additions) =>
         Stays(DOMAIN tree \ ({path} \cup Cut(path, IF index = None THEN Length(path) ELSE index)))
=============================================================================
