---------------------------- MODULE CodexReader ----------------------------
(* What read_codex takes from one Codex rollout: a header line, then events.
   Two dialects record the use of one call.  A response record names the
   response, the thread that made it and its turn.  A legacy count names
   nothing: it carries the thread's running total and the last call's use, is
   repeated whenever the rate limits change, and may stand beside the response
   record of the same call.

   A line is a record with a type; text, excerpts and the lines the reader
   passes over (copied headers, malformed or other events, counts without info)
   are lines of type "other". *)
EXTENDS Integers, Sequences, SequencesExt, FiniteSets

CONSTANTS None,
          Fields,  \* the counters of a usage vector
          Core,    \* those without which a count proves nothing
          Total    \* the one that is positive alone when the context is filled

FieldsHaveTotal == Core \subseteq Fields /\ Total \in Core

(* _vector: the counters reported; one that is not a count is None. *)
Count(v, f) == IF v # None /\ f \in DOMAIN v THEN v[f] ELSE None

(* Slip: a filled context is a use. *)
ContextCounts(v) == FALSE

(* _context_only: what fill_to_context_window writes. *)
ContextOnly(v) == /\ \A f \in Fields \ {Total} : Count(v, f) = 0
                  /\ Count(v, Total) # None /\ Count(v, Total) > 0

Known(v, f) == Count(v, f) # None

(* _advance gives no reason: the running total grew by exactly this use. *)
Advances(prior, now, last) ==
  /\ now # None /\ last # None
  /\ \A f \in Core : Known(now, f) /\ Known(last, f)
  /\ IF prior = None THEN now = last
     ELSE /\ \A f \in Core : Known(prior, f)
          /\ \A f \in DOMAIN now \cup DOMAIN prior \cup DOMAIN last :
               Known(now, f) /\ Known(prior, f) /\ Known(last, f) /\ now[f] - prior[f] = last[f]

-----------------------------------------------------------------------------
(* The reader's state between two lines.  byTurn, byThread: partial functions
   to models, None once a turn had two; adjacent: the response record that no
   legacy count has followed yet. *)
Put(f, x, y) == [z \in DOMAIN f \cup {x} |-> IF z = x THEN y ELSE f[z]]

Start(file) ==
  [turn |-> None, model |-> [provider |-> file.provider, name |-> None],
   byTurn |-> [x \in {} |-> None],
   byThread |-> [x \in {file.thread} |-> [provider |-> file.provider, name |-> None]],
   previous |-> None, seen |-> {}, adjacent |-> None, rows |-> <<>>]

(* turn_context *)
OnTurn(file, st, e) ==
  LET model == [provider |-> st.model.provider,
                name |-> IF e.model = None THEN st.model.name ELSE e.model]
      clash == e.turn \in DOMAIN st.byTurn /\ st.byTurn[e.turn] # model
  IN [st EXCEPT !.turn = e.turn, !.model = model,
                !.byTurn = IF e.turn = None THEN @
                           ELSE Put(@, e.turn, IF clash THEN None ELSE model),
                !.byThread = Put(@, file.thread, model)]

(* thread_settings_applied, of this thread or another. *)
OnSettings(file, st, e) ==
  LET owner == IF e.thread = None THEN file.thread ELSE e.thread
      model == [provider |-> e.provider, name |-> e.model]
      own == owner = file.thread
  IN [st EXCEPT !.byThread = Put(@, owner, model),
                !.model = IF own THEN model ELSE @,
                !.byTurn = IF own /\ st.turn # None THEN Put(@, st.turn, model) ELSE @]

NoModel == [provider |-> None, name |-> None]
ModelName(m) == IF m = None THEN None ELSE m.name
ThreadModel(st, thread) == IF thread \in DOMAIN st.byThread THEN st.byThread[thread] ELSE NoModel

(* The model of a response is that of its turn, once known (Completed). *)
ResponseModel(st, thread, turn) ==
  IF turn = None THEN ThreadModel(st, thread)
  ELSE [provider |-> ThreadModel(st, thread).provider,
        name |-> IF turn \in DOMAIN st.byTurn THEN ModelName(st.byTurn[turn]) ELSE None]

(* token_usage_record *)
OnResponse(file, st, line, e) ==
  LET thread == IF e.thread = None THEN file.thread ELSE e.thread
      row == [kind |-> "response", line |-> line, at |-> e.at,
              entry |-> IF e.response # None THEN <<"response", e.response>>
                        ELSE <<"unkeyed", thread, e.turn, e.total, e.last>>,
              owner |-> thread, turn |-> e.turn, response |-> e.response, mirror |-> None,
              total |-> e.total, last |-> e.last, model |-> ResponseModel(st, thread, e.turn),
              usable |-> e.response # None /\ e.last # None]
  IN [st EXCEPT !.adjacent = IF e.response = None THEN None
                             ELSE [response |-> e.response, turn |-> e.turn, last |-> e.last],
                !.rows = Append(@, row)]

Mirrors(st, e) == /\ st.adjacent # None /\ st.turn # None
                  /\ st.adjacent.turn = st.turn /\ st.adjacent.last = e.last

Repeated(st, e) == <<e.total, e.last>> \in st.seen \/ (e.total # None /\ e.total = st.previous)

(* Slip: the running total of a filled context is not remembered. *)
OnCountForgetting(file, st, line, e) ==
  IF ContextOnly(e.last) \/ Repeated(st, e) THEN st
  ELSE LET row == [kind |-> "legacy", line |-> line, at |-> e.at,
                   entry |-> <<"legacy", file.thread, e.total, e.last>>,
                   owner |-> file.thread, turn |-> st.turn, response |-> None,
                   mirror |-> IF Mirrors(st, e) THEN st.adjacent.response ELSE None,
                   total |-> e.total, last |-> e.last, model |-> st.model,
                   usable |-> ~Mirrors(st, e) /\ Advances(st.previous, e.total, e.last)]
       IN [st EXCEPT !.seen = @ \cup {<<e.total, e.last>>}, !.previous = e.total,
                     !.adjacent = None, !.rows = Append(@, row)]

(* token_count.  The row belongs to the file's thread, whoever answered. *)
OnCount(file, st, line, e) ==
  IF ContextOnly(e.last) THEN [st EXCEPT !.previous = e.total]
  ELSE IF Repeated(st, e) THEN st
  ELSE LET mirror == Mirrors(st, e)
           row == [kind |-> "legacy", line |-> line, at |-> e.at,
                   entry |-> <<"legacy", file.thread, e.total, e.last>>,
                   owner |-> file.thread, turn |-> st.turn, response |-> None,
                   mirror |-> IF mirror THEN st.adjacent.response ELSE None,
                   total |-> e.total, last |-> e.last, model |-> st.model,
                   usable |-> ~mirror /\ Advances(st.previous, e.total, e.last)]
       IN [st EXCEPT !.seen = @ \cup {<<e.total, e.last>>}, !.previous = e.total,
                     !.adjacent = None, !.rows = Append(@, row)]

OnLine(file, st, line, e) ==
  CASE e.type = "turn" -> OnTurn(file, st, e)
    [] e.type = "settings" -> OnSettings(file, st, e)
    [] e.type = "response" -> OnResponse(file, st, line, e)
    [] e.type = "count" -> OnCount(file, st, line, e)
    [] OTHER -> st

(* A response whose turn was described after it. *)
Completed(st, row) ==
  IF row.kind = "response" /\ row.model.name = None /\ row.turn \in DOMAIN st.byTurn
  THEN [row EXCEPT !.model.name = ModelName(st.byTurn[row.turn])] ELSE row

(* read_codex: the usage rows of a file, in the order of its lines. *)
ReadRows(file) ==
  LET state[n \in 0 .. Len(file.lines)] ==
        IF n = 0 THEN Start(file) ELSE OnLine(file, state[n - 1], n, file.lines[n])
      end == state[Len(file.lines)]
  IN [i \in DOMAIN end.rows |-> Completed(end, end.rows[i])]
=============================================================================
