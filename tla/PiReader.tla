------------------------------ MODULE PiReader ------------------------------
(* A Pi log is read twice, by two loops written apart: read_pi reads everything
   when the file is imported, read_metadata only the links to delegated sessions
   and the title, when a newer version backfills a file that has not changed.
   Both are modelled here over the same lines, one line a step.

   An entry is a record with its id, whether its parent is readable, its time,
   its kind, and what that kind says:
     "name"     name    a text, None for an empty one, Bad for something else
     "prompt"   text    of a user's message, or None
     "calls"    calls   of an assistant's message: a sequence of [id, agent]
     "single"   run, call   a result that names the run of a call in single mode
     "link"     child   a result, record or notice that names the session itself
     "result"   a result without usage
     "measured" a result, compaction or branch summary with usage
     "stray"    usage where none is expected
     "shapeless" a message that is no object
   Any other line is "junk" (no JSON), "scalar" (no object) or a "header". *)
EXTENDS Integers, Sequences, FiniteSets, SequencesExt, FiniteSetsExt

CONSTANTS None, Bad, Ids, Names, Texts, Agents, CallIds, Runs, Children, Times,
          Kinds,     \* of the entries a run considers
          MaxCalls,  \* bound: calls of a message
          MaxLines   \* bound: lines of a log

PiReaderConstants ==
  /\ Times \subseteq Nat /\ MaxCalls \in Nat /\ MaxLines \in Nat
  /\ None \notin Ids \cup Names \cup Texts \cup Agents /\ None \notin Times /\ Bad \notin Names \cup {None}

VARIABLES lines,  \* read so far
          batch,  \* what read_pi has of them; None without a header, or rejected
          meta,   \* what read_metadata has of them; None likewise
          ended   \* the header was refused, or the tail is still being written
vars == <<lines, batch, meta, ended>>

Says(kind) ==
  CASE kind = "name"   -> [name : Names \cup {None, Bad}]
    [] kind = "prompt" -> [text : Texts \cup {None}]
    [] kind = "calls"  -> [calls : BoundedSeq([id : CallIds, agent : Agents \cup {None}], MaxCalls)]
    [] kind = "single" -> [run : Runs, call : CallIds]
    [] kind = "link"   -> [child : Children]
    [] OTHER           -> {[none |-> None]}
Entries == UNION {[kind : {kind}, id : Ids \cup {None}, orphan : BOOLEAN, at : Times \cup {None}, says : Says(kind)]
                  : kind \in Kinds}
Headers == [kind : {"header"}, ok : BOOLEAN, at : Times \cup {None}]
Others == [kind : {"junk", "scalar"}]

Evidence == {"calls", "measured"}
Later(a, b) == IF a = None THEN b ELSE IF b = None THEN a ELSE Max({a, b})

(* Both loops ask this of an entry before they use it.  Slip: an entry without
   an id passes. *)
Rooted(entry) == ~entry.orphan
Valid(entry) == entry.id # None /\ ~entry.orphan

-----------------------------------------------------------------------------
(* Links to delegated sessions *)

(* The agent a call names, None once two entries disagree.  Slip: the first
   stays. *)
FirstAgent(calls, call) ==
  IF call.id \in DOMAIN calls THEN calls ELSE [c \in DOMAIN calls \cup {call.id} |-> IF c = call.id THEN call.agent ELSE calls[c]]
Noted(calls, call) ==
  IF call.id \in DOMAIN calls /\ calls[call.id] # call.agent THEN [calls EXCEPT ![call.id] = None]
  ELSE [c \in DOMAIN calls \cup {call.id} |-> IF c = call.id THEN call.agent ELSE calls[c]]

(* links = [refs, calls, singles]; _delegations looks at the identity itself. *)
Linked(links, entry) ==
  IF ~Valid(entry) THEN links
  ELSE CASE entry.kind = "calls"  -> [links EXCEPT !.calls = FoldLeft(Noted, @, entry.says.calls)]
         [] entry.kind = "single" -> [links EXCEPT !.singles = @ \cup {<<entry.id, entry.says.run, entry.says.call>>}]
         [] entry.kind = "link"   -> [links EXCEPT !.refs = @ \cup {<<entry.id, entry.says.child>>}]
         [] OTHER                 -> links
NoLinks == [refs |-> {}, calls |-> <<>>, singles |-> {}]
(* The child's name is made of the run and the agent. *)
Singles(links) ==
  {<<s[1], <<s[2], links.calls[s[3]]>>>> : s \in {t \in links.singles : t[3] \in DOMAIN links.calls /\ links.calls[t[3]] # None}}
Delegations(links) == links.refs \cup Singles(links)

(* The excerpt is the first text of the user, the name the last given one. *)
Excerpt(excerpt, entry) == IF excerpt = None /\ entry.kind = "prompt" THEN entry.says.text ELSE excerpt
Named(name, entry) == IF entry.kind = "name" /\ entry.says.name # Bad THEN entry.says.name ELSE name
Title(name, excerpt) == IF name # None THEN None ELSE excerpt

-----------------------------------------------------------------------------
(* read_pi *)
Start(header) == [started |-> header.at, observed |-> header.at, name |-> None, excerpt |-> None,
                  entries |-> {}, records |-> {}, diagnosed |-> {}, links |-> NoLinks]
Diagnose(b) == [b EXCEPT !.diagnosed = @ \cup {Len(lines) + 1}]

(* Slip: the time of the last entry. *)
Newest(b, entry) == IF entry.at = None THEN b.observed ELSE entry.at
Observed(b, entry) == Later(b.observed, entry.at)

(* Slip: a name that is no text ends the name before it. *)
Renamed(name, entry) == IF entry.kind = "name" THEN IF entry.says.name = Bad THEN None ELSE entry.says.name ELSE name
NameAfter(name, entry) == Named(name, entry)

(* The entry's own diagnostics.  Slip: unknown usage is ignored. *)
ShapeOnly(b, entry) == \/ entry.id \in b.entries
                       \/ entry.kind = "shapeless"
                       \/ entry.kind = "name" /\ entry.says.name = Bad
Odd(b, entry) == \/ entry.id \in b.entries
                 \/ entry.kind \in {"stray", "shapeless"}
                 \/ entry.kind = "name" /\ entry.says.name = Bad

ReadEntry(b, entry) ==
  IF ~Valid(entry) THEN Diagnose(b)
  ELSE [(IF Odd(b, entry) THEN Diagnose(b) ELSE b) EXCEPT
          !.excerpt = Excerpt(@, entry), !.entries = @ \cup {entry.id}, !.links = Linked(@, entry),
          !.observed = Observed(b, entry), !.name = NameAfter(@, entry),
          !.records = IF entry.kind \in Evidence THEN @ \cup {Len(lines) + 1} ELSE @]

(* read_metadata: names and excerpts have their own look at the identity.  Slip:
   names have none. *)
AnyName(entry) == entry.kind = "name" \/ Valid(entry)
Usable(entry) == Valid(entry)
ScanEntry(m, entry) ==
  LET linked == [m EXCEPT !.links = Linked(@, entry)]
  IN  IF Usable(entry) THEN [linked EXCEPT !.name = Named(@, entry), !.excerpt = Excerpt(@, entry)] ELSE linked

-----------------------------------------------------------------------------
Read(line) == ~ended /\ Len(lines) < MaxLines /\ lines' = Append(lines, line)
Started == batch # None

ReadHeader(line) ==
  /\ Read(line) /\ lines = <<>> /\ line.kind = "header" /\ line.ok
  /\ batch' = Start(line) /\ meta' = [name |-> None, excerpt |-> None, links |-> NoLinks] /\ UNCHANGED ended
Reject(line) ==
  /\ Read(line) /\ lines = <<>> /\ (line.kind = "header" => ~line.ok)
  /\ ended' = TRUE /\ UNCHANGED <<batch, meta>>
SkipLine(line) == \* malformed, no object, or another header
  /\ Read(line) /\ Started /\ line.kind \in {"junk", "scalar", "header"}
  /\ batch' = Diagnose(batch) /\ UNCHANGED <<meta, ended>>
TakeEntry(line) ==
  /\ Read(line) /\ Started /\ line.kind \in Kinds
  /\ batch' = ReadEntry(batch, line) /\ meta' = ScanEntry(meta, line) /\ UNCHANGED ended
PendingTail ==
  /\ ~ended /\ Started /\ ended' = TRUE /\ UNCHANGED <<lines, batch, meta>>

Init == lines = <<>> /\ batch = None /\ meta = None /\ ended = FALSE
Next == \/ \E line \in Headers \cup Others \cup Entries : ReadHeader(line) \/ Reject(line) \/ SkipLine(line) \/ TakeEntry(line)
        \/ PendingTail
Spec == Init /\ [][Next]_vars

-----------------------------------------------------------------------------
Accepted == {n \in DOMAIN lines : lines[n].kind \in Kinds /\ lines[n].id # None /\ ~lines[n].orphan}
OfKind(kind) == {n \in Accepted : lines[n].kind = kind}

TypeOK ==
  /\ ended \in BOOLEAN /\ (meta = None <=> batch = None)
  /\ Started => /\ batch.observed \in Times \cup {None} /\ batch.name \in Names \cup {None}
                /\ batch.entries \subseteq Ids
                /\ batch.records \cup batch.diagnosed \subseteq DOMAIN lines

(* The backfill of a file gives what importing it would have given: the same
   links and the same title. *)
BackfillAgrees ==
  Started => /\ Delegations(meta.links) = Delegations(batch.links)
             /\ Title(meta.name, meta.excerpt) = Title(batch.name, batch.excerpt)

(* The result of a single run is linked to the agent its call named, wherever
   in the log the call is, if every entry that shows the call names that agent;
   otherwise it is linked to none. *)
NamedBy(call) == {lines[n].says.calls[i].agent : <<n, i>> \in
                    {<<k, j>> \in OfKind("calls") \X (1 .. MaxCalls) : j \in DOMAIN lines[k].says.calls /\ lines[k].says.calls[j].id = call}}
SingleRunsTold ==
  Started => Singles(batch.links) =
    {<<lines[n].id, <<lines[n].says.run, agent>>>> : <<n, agent>> \in
       {<<k, a>> \in OfKind("single") \X Agents : NamedBy(lines[k].says.call) = {a}}}

(* The title of a log is its last readable name or else the first text of the
   user, over its accepted entries. *)
LastName ==
  LET named == {n \in OfKind("name") : lines[n].says.name # Bad}
  IN  IF named = {} THEN None ELSE lines[Max(named)].says.name
FirstText ==
  LET texts == {n \in OfKind("prompt") : lines[n].says.text # None}
  IN  IF texts = {} THEN None ELSE lines[Min(texts)].says.text
Titled == Started => batch.name = LastName /\ batch.excerpt = FirstText

(* The lifetime holds the time of every accepted entry, and the start. *)
Lifetime ==
  Started => LET times == {lines[n].at : n \in Accepted \cup {1}} \ {None}
             IN  batch.observed = IF times = {} THEN None ELSE Max(times)

(* No line goes unseen: each has its record or a diagnostic, or it is an entry
   that says nothing of usage. *)
NothingUnseen ==
  Started => \A n \in DOMAIN lines \ {1} :
    \/ n \in batch.records \cup batch.diagnosed
    \/ n \in Accepted /\ lines[n].kind \in {"name", "prompt", "single", "link", "result"}
=============================================================================
