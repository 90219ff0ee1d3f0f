--------------------------- MODULE TranscriptTools ---------------------------
(* What the two readers of Codex transcripts share: every record of the file
   has one entry on the page, at its line, and entries that say the same as
   another are hidden.  Results are shown inside the call they belong to. *)
EXTENDS Naturals, Sequences, FiniteSets, FiniteSetsExt

CONSTANTS None,
          Window \* lines between which records may be copies of each other (4 in the code)

ToolConstants == Window \in Nat

(* The output of a tool: the lines it was recorded at, or conflicting evidence. *)
NoOutput == [lines |-> {}, conflict |-> FALSE]
Conflicting == [lines |-> {}, conflict |-> TRUE]
Output(line) == [lines |-> {line}, conflict |-> FALSE]

Kinds(file, kinds) == {i \in DOMAIN file : file[i].kind \in kinds}
Near(i, j) == j \in (IF i > Window THEN i - Window ELSE 1) .. i + Window
SameId(file, i, S) == {j \in S : file[i].id # None /\ file[j].id = file[i].id /\ file[j].scope = file[i].scope}

(* _pair_tools: one call and one result of one identity in a turn belong
   together; any more of either are a conflict, and the results stand alone.  Slip: the last
   one of either is taken. *)
SomeEach(file, i, calls, results) == SameId(file, i, calls) # {} /\ SameId(file, i, results) # {}
OneEach(file, i, calls, results) ==
  Cardinality(SameId(file, i, calls)) = 1 /\ Cardinality(SameId(file, i, results)) = 1
TooMany(file, i, calls, results) ==
  Cardinality(SameId(file, i, calls)) > 1 \/ Cardinality(SameId(file, i, results)) > 1
PairedOut(file, out, calls, results) ==
  [i \in DOMAIN out |->
    IF i \in calls /\ OneEach(file, i, calls, results) THEN Output(Max(SameId(file, i, results)))
    ELSE IF i \in calls /\ TooMany(file, i, calls, results) THEN Conflicting ELSE out[i]]
PairedShown(file, shown, calls, results) ==
  [i \in DOMAIN shown |-> shown[i] /\ ~(i \in results /\ OneEach(file, i, calls, results))]
=============================================================================
