-------------------------- MODULE ClaudeTranscript --------------------------
(* The page of a Claude session shows one chain of entries: from a leaf, which
   is chosen, along the recorded parents to an entry without one.  The file is
   read anew for every page; here it grows by a line and the page with it.

   An entry is "visible" (of the user or the assistant), "internal" (a known
   type that only connects others) or "unknown"; side tells entries of other
   agents and of the program itself.  A visible entry may hold the result of a
   tool: says is "text" or "result". *)
EXTENDS Naturals, Sequences, FiniteSets, SequencesExt, FiniteSetsExt

CONSTANTS None, Ids, Kinds, Sides, Says,
          OfAgent,  \* the page is of an agent's own file
          MaxLines  \* bound

ClaudeTranscriptConstants ==
  /\ MaxLines \in Nat /\ OfAgent \in BOOLEAN /\ Sides \subseteq BOOLEAN
  /\ Kinds \subseteq {"visible", "internal", "unknown"} /\ Says \subseteq {"text", "result"}
  /\ None \notin Ids

VARIABLES lines, \* of the file
          page   \* None, or [leaf, chain, notice, output] with line numbers
vars == <<lines, page>>

Entries == [id : Ids, parent : Ids \cup {None}, kind : Kinds, side : Sides, says : Says]
Nodes(file) == {n \in DOMAIN file : file[n].kind # "unknown"}
Visible(file) == {n \in DOMAIN file : file[n].kind = "visible"}
(* by_id: the last line of an identity. *)
Line(file, id) == LET of == {n \in Nodes(file) : file[n].id = id} IN IF of = {} THEN None ELSE Max(of)

(* The leaf.  Slip: entries of unknown types count as children. *)
AllParents(file) == {file[n].parent : n \in DOMAIN file}
Parents(file) == {file[n].parent : n \in Nodes(file)}
(* Slip: internal entries may end the chain. *)
AnyTerminal(file) == {n \in Nodes(file) : file[n].id \notin Parents(file)}
Terminals(file) == {n \in Visible(file) : file[n].id \notin Parents(file)}
Leaf(file) ==
  LET candidates == IF Terminals(file) = {} THEN Visible(file) ELSE Terminals(file)
      preferred == {n \in candidates : ~file[n].side}
  IN  IF OfAgent THEN Max(Visible(file)) ELSE IF preferred = {} THEN Max(candidates) ELSE Max(preferred)

(* One step up the chain; walk = [chain, at, notice].  Slip: what was seen is
   told by the line, not by the identity. *)
SeenLine(file, chain, n) == n \in ToSet(chain)
Seen(file, chain, n) == file[n].id \in {file[c].id : c \in ToSet(chain)}
Up(file, walk) ==
  IF walk.at = None THEN walk
  ELSE IF Seen(file, walk.chain, walk.at) THEN [walk EXCEPT !.at = None, !.notice = "cycle"]
  ELSE LET parent == file[walk.at].parent
           next == IF parent = None THEN None ELSE Line(file, parent)
       IN  [chain |-> <<walk.at>> \o walk.chain, at |-> next,
            notice |-> IF parent # None /\ next = None THEN "missing" ELSE None]
Walk(file) ==
  FoldLeft(LAMBDA walk, n : Up(file, walk), [chain |-> <<>>, at |-> Leaf(file), notice |-> None],
           [n \in 1 .. Len(file) + 1 |-> n])

(* The output of a call is the last result along the chain.  Slip: of any
   entry. *)
OfResult(file, n) == file[n].kind = "visible" /\ file[n].says = "result"
AllResults(file, chain) == SelectSeq([n \in DOMAIN file |-> n], LAMBDA n : OfResult(file, n))
Results(file, chain) == SelectSeq(chain, LAMBDA n : OfResult(file, n))
Output(file, chain) ==
  LET results == Results(file, chain) IN IF results = <<>> THEN None ELSE Last(results)

Project(file) ==
  IF Visible(file) = {} THEN None
  ELSE LET walk == Walk(file)
       IN  [leaf |-> Leaf(file), chain |-> walk.chain, notice |-> walk.notice, output |-> Output(file, walk.chain)]

Grow(entry) ==
  /\ Len(lines) < MaxLines
  /\ lines' = Append(lines, entry) /\ page' = Project(lines')
Init == lines = <<>> /\ page = None
Next == \E entry \in Entries : Grow(entry)
Spec == Init /\ [][Next]_vars

-----------------------------------------------------------------------------
TypeOK == page = None \/ /\ page.leaf \in Visible(lines) /\ Last(page.chain) = page.leaf
                         /\ page.chain \in Seq(Nodes(lines)) /\ page.notice \in {None, "cycle", "missing"}

ParentLine(n) == IF lines[n].parent = None THEN None ELSE Line(lines, lines[n].parent)
(* The chain is whole: every entry under its parent, none twice, up to one that
   has no parent; where it stops short the page says why, and rightly. *)
ChainWhole ==
  page # None =>
    LET chain == page.chain
        shown == {lines[n].id : n \in ToSet(chain)}
        parent == lines[Head(chain)].parent
    IN  /\ Cardinality(shown) = Len(chain)
        /\ \A n \in 1 .. Len(chain) - 1 : ParentLine(chain[n + 1]) = chain[n]
        /\ page.notice = CASE parent = None -> None
                          [] parent # None /\ parent \in shown -> "cycle"
                          [] OTHER -> "missing"
        /\ page.notice = "missing" => \A n \in Nodes(lines) : lines[n].id # parent

(* A call's output was recorded by a visible entry of the chain the page shows:
   never on a branch that was given up, never by an entry the page hides. *)
OutputOfChain ==
  page # None =>
    LET answers == {n \in ToSet(page.chain) : lines[n].kind = "visible" /\ lines[n].says = "result"}
    IN  /\ (page.output = None) = (answers = {})
        /\ page.output # None => page.output \in answers

(* Entries are written under entries that are already there, each once. *)
Ordinary == \A n \in DOMAIN lines : /\ \A m \in 1 .. n - 1 : lines[m].id # lines[n].id
                                    /\ lines[n].parent # None => \E m \in 1 .. n - 1 : lines[m].id = lines[n].parent
Newest == Max({n \in Visible(lines) : ~lines[n].side})
Spoken == \E n \in Visible(lines) : ~lines[n].side

(* What was said last is what the page ends with, if nothing of a known type was
   written under it since. *)
LatestShown ==
  ~OfAgent /\ Ordinary /\ Spoken /\ (\A n \in Nodes(lines) : lines[n].parent # lines[Newest].id)
    => page.leaf = Newest

(* What was said last is on the page, whatever the program wrote under it. *)
LastWordShown == ~OfAgent /\ Ordinary /\ Spoken => Newest \in ToSet(page.chain)
=============================================================================
