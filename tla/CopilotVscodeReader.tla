------------------------ MODULE CopilotVscodeReader ------------------------
(* What read_copilot_vscode takes from one VS Code chat session: for every
   request to Copilot the tokens of each model, or a summary of them, the
   credits of the request and, as a control, those of the session so far.

   A request is a record: copilot (its agent is Copilot), id, response, models
   (a sequence of a model and its tokens), summary (its own token counters),
   retained and legacy (the counters of its result, now and formerly), credits,
   control and line (where the log last wrote it).  A field that is absent is
   None, one that is malformed Invalid. *)
EXTENDS Integers, Sequences, FiniteSets

CONSTANTS None, Invalid

Names(r) == {i \in DOMAIN r.models : r.models[i].model # None}
Repeated(r) == {m \in {r.models[i].model : i \in Names(r)} :
                  Cardinality({i \in Names(r) : r.models[i].model = m}) > 1}
BadModel(m) == m.model = None \/ m.tokens = Invalid
BadNumber(r) == \/ Invalid \in {r.summary, r.credits, r.control}
                \/ \E i \in DOMAIN r.models : BadModel(r.models[i])
Identity(r) == IF r.response = Invalid THEN "response" ELSE IF r.id = None THEN "request" ELSE None

(* Counters of the last call stand for a request that has none of its own. *)
Core(r) == r.models # <<>> \/ r.summary # None
Legacy(r) == ~Core(r) /\ r.legacy # None
Retained(r) == IF Legacy(r) THEN r.legacy ELSE r.retained
LastCall(r) == ~Core(r) /\ Retained(r) \notin {None, Invalid}
RetainedReason(r) ==
  IF ~Legacy(r) THEN None
  ELSE IF r.legacy = Invalid THEN "retained"
  ELSE IF r.retained \notin {None, Invalid, r.legacy} THEN "conflicting" ELSE None

Number(v) == IF v = Invalid THEN None ELSE v
Quantity(v) == IF v \in {None, Invalid} THEN "unknown" ELSE "known"

(* A row of the request at an ordinal; what distinguishes copies of it is in
   Facts. *)
Row(file, n, kind, model, place, tokens, quantity, amount, reason) ==
  LET r == file.requests[n] IN
  [session |-> file.session, kind |-> kind, model |-> model,
   request |-> r.id, response |-> IF r.response = Invalid THEN None ELSE r.response,
   entry |-> <<IF r.id = None THEN <<file.locator, n>> ELSE <<r.id>>, place>>,
   tokens |-> tokens, quantity |-> quantity, amount |-> amount, reason |-> reason,
   conflict |-> IF reason = "conflicting" THEN r.retained ELSE None,
   shape |-> IF kind \in {"turn_summary", "unavailable"} THEN <<r.summary # None, LastCall(r), r.models # <<>>>> ELSE None,
   ordinal |-> n, line |-> IF file.flat THEN 1 ELSE r.line]

ModelRow(file, n, i) ==
  LET r == file.requests[n]
      m == r.models[i]
  IN Row(file, n, "model_totals", m.model, IF m.model = None THEN <<None, i>> ELSE <<m.model>>, Number(m.tokens), None, None,
         IF BadModel(m) THEN "number" ELSE IF m.model \in Repeated(r) THEN "repeated" ELSE Identity(r))

SummaryRow(file, n) ==
  LET r == file.requests[n]
      told == r.summary # None \/ r.credits # None \/ r.models # <<>> \/ LastCall(r)
      reason == IF RetainedReason(r) # None THEN RetainedReason(r)
                ELSE IF BadNumber(r) THEN "number" ELSE IF Repeated(r) # {} THEN "repeated" ELSE Identity(r)
      tokens == Number(IF LastCall(r) THEN Retained(r) ELSE r.summary)
  IN Row(file, n, IF told THEN "turn_summary" ELSE "unavailable", None, <<>>, tokens,
         Quantity(r.credits), Number(r.credits), reason)

ControlRow(file, n) ==
  LET r == file.requests[n] IN
  Row(file, n, "session_control", None, <<>>, None, Quantity(r.control), Number(r.control),
      IF r.control = Invalid THEN "number" ELSE Identity(r))

Facts(row) == [f \in DOMAIN row \ {"ordinal", "line"} |-> row[f]]

RequestRows(file, n) ==
  {ModelRow(file, n, i) : i \in DOMAIN file.requests[n].models}
  \cup {SummaryRow(file, n)}
  \cup {ControlRow(file, n) : m \in {k \in {n} : file.requests[k].control # None}}

(* A row that only repeats an earlier one is left out. *)
ReadRows(file) ==
  LET told[n \in 0 .. Len(file.requests)] ==
        IF n = 0 THEN {}
        ELSE LET before == told[n - 1]
                 known == {Facts(q) : q \in before}
             IN IF file.requests[n].copilot
                THEN before \cup {q \in RequestRows(file, n) : Facts(q) \notin known}
                ELSE before
  IN IF file.valid THEN told[Len(file.requests)] ELSE {}
=============================================================================
