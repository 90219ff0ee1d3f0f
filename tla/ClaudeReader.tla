---------------------------- MODULE ClaudeReader ----------------------------
(* What read_claude takes from one Claude Code history.  One call is written as
   several lines with the same message and request; the output counter of a
   line is final only if a recent enough version of the program wrote it, else
   it is what the stream started with.  A profile is a version of the reader:
   the previous one kept no token of the writing version.

   A line is a record: session, entry, message, request, model and input
   numbers (one value, signature), version, output, time and directory; a field
   that is absent is None, one that is not what it should be is Invalid. *)
EXTENDS Integers, Sequences, FiniteSets

CONSTANTS None, Invalid,
          FinalVersions,       \* versions that write final outputs
          PlaceholderVersions  \* versions that do not

VersionsDiffer == /\ FinalVersions \cap PlaceholderVersions = {}
                  /\ {None, Invalid} \cap (FinalVersions \cup PlaceholderVersions) = {}
                  /\ None # Invalid

Profiles == {"previous", "current"}

(* _writer_output_kind: a version that cannot be told qualifies nothing. *)
Writes(version) == IF version \in FinalVersions THEN "final"
                   ELSE IF version \in PlaceholderVersions THEN "placeholder" ELSE "unqualified"
Token(profile, version) ==
  IF profile = "previous" \/ Writes(version) = "unqualified" THEN None ELSE version

Finality(line) ==
  CASE line.output = None -> IF Writes(line.version) = "final" THEN "final_missing" ELSE "not_reported"
    [] line.output = Invalid -> "invalid"
    [] OTHER -> Writes(line.version)

(* The name of a file tells the session its lines must be of, and, for an
   agent's file, that the agent's session is another. *)
Names(line) == line.entry # None \/ line.request # None \/ line.message # None \/ line.signature # None
Accepted(file) ==
  LET named == {i \in DOMAIN file.lines : Names(file.lines[i])} IN
  named # {} /\ \A i \in named : file.lines[i].session = file.uuid

(* A line counts if it has an entry, a usage, its model and its input numbers. *)
IsUsage(line) == line.entry # None /\ line.signature \notin {None, Invalid}

Row(profile, file, i) ==
  LET line == file.lines[i] IN
  [file |-> file, line |-> i, current |-> profile = "current", session |-> file.session,
   entry |-> line.entry, message |-> line.message, request |-> line.request,
   signature |-> line.signature, at |-> line.at, output |-> IF line.output = Invalid THEN None ELSE line.output,
   finality |-> Finality(line), token |-> Token(profile, line.version)]
ReadRows(profile, file) ==
  IF ~Accepted(file) THEN {}
  ELSE {Row(profile, file, i) : i \in {j \in DOMAIN file.lines : IsUsage(file.lines[j])}}

Identified(r) == r.message # None \/ r.request # None
Usable(r) == Identified(r) /\ r.finality # "invalid"
=============================================================================
