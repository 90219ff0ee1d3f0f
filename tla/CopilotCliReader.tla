-------------------------- MODULE CopilotCliReader --------------------------
(* What read_copilot_cli takes from the events of one Copilot CLI session, or
   from the workspace file that stands in for them.  A control event (a
   shutdown or a checkpoint) reports counters of the whole session so far.

   An event is a record: type, id, parent, epoch and session (of a start or a
   shutdown), agent, valid (the rest of its body has the right shape), amount
   (the AI units of the session) and usage, a function from models to their
   counter.  A field that is absent is None, one that is malformed Invalid.
   The counter stands for any of the measures of a model. *)
EXTENDS Integers, Sequences, FiniteSets

CONSTANTS None, Invalid

Controls == {"shutdown", "checkpoint"}

(* _envelope *)
Enveloped(e) == /\ e.id # None /\ e.type # "broken"
                /\ IF e.type = "start" THEN e.parent = None /\ e.agent = None ELSE e.parent # None

Starts(file) == {i \in DOMAIN file.events : file.events[i].type = "start"}
(* _qualify_events: one start, of this session, before every other event. *)
Started(file) ==
  \E s \in Starts(file) :
    LET start == file.events[s] IN
    /\ Starts(file) = {s} /\ Enveloped(start)
    /\ \A i \in 1 .. s - 1 : ~Enveloped(file.events[i])
    /\ start.session = file.session /\ start.epoch \notin {None, Invalid} /\ start.valid

(* The first event of each id is the one that counts. *)
Firsts(file) ==
  {i \in DOMAIN file.events :
     /\ Enveloped(file.events[i]) /\ file.events[i].agent # Invalid
     /\ \A j \in 1 .. i - 1 :
          file.events[j].id = file.events[i].id => ~Enveloped(file.events[j]) \/ file.events[j].agent = Invalid}
(* Those whose parent does not follow them and is not itself out of the chain;
   a parent that is nowhere leaves a gap. *)
Chained(file) ==
  LET events == file.events
      Precedes(p, i) == p = None \/ \A j \in Firsts(file) : events[j].id = p => j < i
      broken[n \in 0 .. Len(events)] ==
        IF n = 0 THEN {}
        ELSE LET before == broken[n - 1] IN
             IF n \in Firsts(file) /\ (~Precedes(events[n].parent, n) \/ events[n].parent \in before)
             THEN before \cup {events[n].id} ELSE before
  IN {i \in Firsts(file) : events[i].id \notin broken[Len(events)]}

Accepted(file) == IF file.workspace THEN file.events[1].session \in {None, file.session} ELSE Started(file)

Row(file, i, scope) ==
  [session |-> file.session, scope |-> scope, line |-> i, type |-> file.events[i].type,
   event |-> file.events[i].id, parent |-> file.events[i].parent,
   model |-> None, value |-> None, invalid |-> FALSE, models |-> None, broken |-> FALSE]

Metadata(file, i) == Row(file, i, "metadata")

ValidShutdown(file, e) ==
  e.type = "shutdown" /\ e.valid /\ \A s \in Starts(file) : e.epoch = file.events[s].epoch

(* The session's amount; a checkpoint must have one. *)
SessionRow(file, i) ==
  LET e == file.events[i] IN
  [Row(file, i, "session") EXCEPT
     !.value = IF e.amount = Invalid THEN None ELSE e.amount,
     !.invalid = e.amount = Invalid \/ (e.type = "checkpoint" /\ e.amount = None),
     !.models = IF ValidShutdown(file, e) THEN DOMAIN e.usage ELSE None,
     !.broken = e.type = "shutdown" /\ ~ValidShutdown(file, e)]

(* _model_record *)
ModelRow(file, i, m) ==
  LET counter == file.events[i].usage[m] IN
  [Row(file, i, "model") EXCEPT !.model = m, !.value = IF counter = Invalid THEN None ELSE counter,
                                !.invalid = counter = Invalid]

(* read_copilot_cli *)
ReadRows(file) ==
  IF ~Accepted(file) THEN {}
  ELSE IF file.workspace THEN {Metadata(file, 1)}
  ELSE LET controls == {i \in Chained(file) : file.events[i].type \in Controls /\ file.events[i].agent = None}
       IN {Metadata(file, s) : s \in Starts(file)}
          \cup {SessionRow(file, i) : i \in controls}
          \cup UNION {{ModelRow(file, i, m) : m \in DOMAIN file.events[i].usage} :
                        i \in {c \in controls : ValidShutdown(file, file.events[c])}}

(* Agents the session talked to. *)
Agents(file) == {file.events[i].agent : i \in {j \in Chained(file) : file.events[j].type = "message"}} \ {None, "main"}
(* The directories it settled in: more than one is none. *)
Settled(file) == {file.events[i].cwd : i \in {j \in Chained(file) : file.events[j].type \in {"start", "context"}}} \ {None, Invalid}
=============================================================================
