----------------------------- MODULE UsageReport -----------------------------
(* The report on the observations of the ledger: build_report adds them up one
   by one, build_aggregate_report, which the page shows, lets the database group
   them first and prices the groups.  The ledger changes under both.  Owners are
   the roots of the session families.  A row is an observation with its
   decisions: [id, session, owner, harness, model, time, value, reported, quantity,
   long, lower, decision, codes]. *)
EXTENDS UsagePricing, Sequences, SequencesExt

CONSTANTS Pool,     \* the rows that may come to be in the ledger
          Owners,   \* numbers, in the order of their identities
          Started,  \* of each owner, None if unknown
          Projects, Every,
          Day,      \* length of a bucket
          Queries,  \* [project, range], the range None for all time
          MaxRows   \* bound: rows in the ledger

ReportConstants == /\ Day \in Nat \ {0} /\ MaxRows \in Nat /\ IsFiniteSet(Pool)
                   /\ \A r \in Pool : r.owner \in Owners

VARIABLES ledger,  \* the rows that are not wholly excluded and those that are
          project, \* of each owner, None if unassigned
          stage,   \* ledger, grouped, priced, shown
          reports  \* of each query as far as they are, [page, direct]
vars == <<ledger, project, stage, reports>>

(* What is decided of a row: its measures, what it cost, and its quantity. *)
Decided == Measures \cup {"recorded_usd", "quantity"}
Evident(r) == \E m \in Decided : r.decision[m] # "excluded"
Selected(r) == \E m \in Decided : r.decision[m] = "selected"
(* Conflicting evidence of the model cannot be priced. *)
Model(r) == IF "codex_model_conflict" \in r.codes THEN [provider |-> None, name |-> None] ELSE r.model

-----------------------------------------------------------------------------
(* The range of a query.  Slip: its end is within it. *)
Closed(r, q) ==
  \/ q.range = None
  \/ r.time.kind = "point" /\ q.range.start <= r.time.at /\ r.time.at <= q.range.end
  \/ r.time.kind = "interval" /\ r.time.start # None /\ q.range.start <= r.time.start /\ r.time.end <= q.range.end
Inside(r, q) ==
  \/ q.range = None
  \/ r.time.kind = "point" /\ q.range.start <= r.time.at /\ r.time.at < q.range.end
  \/ r.time.kind = "interval" /\ r.time.start # None /\ q.range.start <= r.time.start /\ r.time.end <= q.range.end
Overlaps(r, q) ==
  \/ r.time.kind = "undated"
  \/ r.time.kind = "interval" /\ (r.time.start = None \/ (r.time.start < q.range.end /\ q.range.start < r.time.end))

(* The end of all time lies just after the last row.  Slip: at the last row. *)
LastRow(last) == last
AfterLast(last) == last + 1
Points(rows) == {r.time.at : r \in {p \in rows : p.time.kind = "point"}}
(* Days of UTC; the days of other zones are in TimeAxis. *)
Axis(rows, q) ==
  LET points == Points(rows)
      start == IF q.range = None THEN Min(points) ELSE q.range.start
      end == IF q.range = None THEN AfterLast(Max(points)) ELSE q.range.end
      Clipped(d) == IF q.range = None THEN [start |-> d * Day, end |-> (d + 1) * Day]
                    ELSE [start |-> Max({d * Day, start}), end |-> Min({(d + 1) * Day, end})]
  IN IF points = {} THEN {} ELSE {Clipped(d) : d \in {n \in start \div Day .. end \div Day : n * Day < end}}
LastOf(buckets) == CHOOSE b \in buckets : \A c \in buckets : c.start <= b.start
Bucket(axis, r) ==
  LET from == {b \in axis : r.time.kind = "point" /\ b.start <= r.time.at}
  IN IF from # {} /\ r.time.at < LastOf(from).end THEN LastOf(from) ELSE None

-----------------------------------------------------------------------------
(* Row by row: build_report. *)

InScope(r, q) == q.project \in {Every, project[r.owner]}
Tokens(rows, total) ==
  LET Value(r, m) == IF m = "total" THEN total[r] ELSE r.value[m]
      Those(m, states) == {r \in rows : r.decision[m] = "selected" /\ Value(r, m).state \in states}
  IN [m \in Measures |->
       [known |-> MapThenSumSet(LAMBDA r : Value(r, m).n, Those(m, {"known"})),
        unknown |-> Cardinality(Those(m, {"unknown", "invalid_count"}) \cup {r \in rows : r.decision[m] = "unresolved"}),
        na |-> Cardinality(Those(m, {"not_applicable"})),
        lower |-> IF m = "output" THEN Cardinality({r \in Those(m, {"known"}) : r.lower}) ELSE 0]]

(* The codes a row gives rise to; overlapping rows have no timing besides. *)
Codes(r) ==
  LET selected == {IF m = "total" THEN Total(r) ELSE r.value[m] : m \in {n \in Measures : r.decision[n] = "selected"}}
                  \cup {v \in {r.quantity} : r.decision["quantity"] = "selected"}
      lower == \/ r.decision["quantity"] = "selected" /\ r.quantity.lower
               \/ r.lower /\ r.decision["output"] = "selected" /\ r.value["output"].state = "known"
      Told(states) == \E v \in selected : v.state \in states
  IN r.codes
     \cup {code \in {"unresolved_evidence"} : \E m \in Decided : r.decision[m] = "unresolved"}
     \cup {code \in {"_known_usage"} : Told({"known"})} \cup {code \in {"not_applicable"} : Told({"not_applicable"})}
     \cup {code \in {"usage_partial"} : Told({"unknown", "invalid_count"})}
     \cup {code \in {"lower_bound"} : lower}
     \cup {code \in {"interval_only"} : r.time.kind = "interval"} \cup {code \in {"timing_unavailable"} : r.time.kind = "undated"}
     \cup {code \in {"unknown_model_identity"} : None \in {Model(r).provider, Model(r).name}}
     \cup {code \in {"unassigned"} : project[r.owner] = None}
(* coverage_rows: usage is partial only beside some that is known. *)
Coverage(facts) ==
  LET known == \E f \in facts : f[1] = "_known_usage"
      Renamed(code) == IF code = "usage_partial" /\ ~known THEN "usage_unavailable" ELSE code
  IN {<<Renamed(f[1]), f[2]>> : f \in {g \in facts : g[1] # "_known_usage"}}
Facts(rows) == UNION {{<<code, r.id>> : code \in Codes(r)} : r \in rows}
Overlapping(harnesses) == IF {"copilot-vscode", "copilot-cli"} \subseteq harnesses
                          THEN {<<"copilot_cross_source_join_unavailable", None>>} ELSE {}
Used == {"_known_usage", "usage_partial", "unresolved_evidence"}

Priceable(q) ==
  LET scoped == {r \in ledger : InScope(r, q) /\ Evident(r)}
      rows == {r \in scoped : Inside(r, q)}
  IN [rows |-> rows, unavailable |-> {r \in scoped \ rows : Overlaps(r, q)}, axis |-> Axis(rows, q),
      price |-> [r \in rows |-> Price(r, Model(r))], total |-> [r \in rows |-> Total(r)]]
Report(d) ==
  LET Sums(of) == [tokens |-> Tokens(of, d.total), money |-> Bill([r \in of |-> d.price[r]]),
                   missing |-> Cardinality({r \in of : Unpriced(d.price[r])})]
      Of(o) == {r \in d.rows : r.owner = o}
      Buckets(of) == [b \in d.axis |-> Sums({r \in of : Bucket(d.axis, r) = b})]
  IN [sums |-> Sums(d.rows), buckets |-> Buckets(d.rows),
      unbucketed |-> Tokens({r \in d.rows : r.time.kind # "point"}, d.total),
      projects |-> [p \in {project[r.owner] : r \in d.rows} |->
                     LET of == {r \in d.rows : project[r.owner] = p} IN
                     [sums |-> Sums(of), sessions |-> Cardinality({r.owner : r \in {s \in of : Selected(s)}})]],
      models |-> [k \in {<<r.harness, Model(r)>> : r \in d.rows} |-> Sums({r \in d.rows : <<r.harness, Model(r)>> = k})],
      sessions |-> [o \in {r.owner : r \in d.rows} |->
                     [sums |-> Sums(Of(o)), buckets |-> Buckets(Of(o)), coverage |-> Coverage(Facts(Of(o))),
                      models |-> {Model(r) : r \in Of(o)}, subagents |-> Cardinality({r.session : r \in Of(o)} \ {o})]],
      coverage |-> Coverage(Facts(d.rows \cup d.unavailable)) \cup {<<"timing_unavailable", r.id>> : r \in d.unavailable}
                   \cup Overlapping({r.harness : r \in {s \in d.rows \cup d.unavailable : Codes(s) \cap Used # {}}})]

-----------------------------------------------------------------------------
(* By groups: build_aggregate_report. *)

(* NULL, where it is not known. *)
NormalizedTotal(r) ==
  LET sum == Subtotal(r)  reported == r.reported.state = "known"
      agrees == r.reported.n >= sum /\ (AllKnown(r) => r.reported.n = sum)
  IN CASE (\E c \in Categories : r.value[c] = Invalid) \/ sum >= Limit -> Unknown
       [] reported -> IF agrees THEN r.reported ELSE Unknown
       [] OTHER -> IF AllKnown(r) /\ r.reported # Invalid THEN Known(sum) ELSE Unknown

ContextReason(r) ==
  CASE Boundaries(Model(r)) = {} -> None
    [] r.time.kind # "point" -> "aggregate_context"
    [] OTHER -> IF PromptKnown(r) THEN None ELSE "unknown_context_size"
ContextThreshold(r) ==
  LET below == {t \in Boundaries(Model(r)) : t < PromptSize(r)}
  IN IF r.time.kind = "point" /\ PromptKnown(r) /\ below # {} THEN Max(below) ELSE None

(* The categories without tokens are told apart: they need no price.  Slip: not so. *)
Ignored(r) == {}
Zeros(r) == {c \in Categories : r.value[c] = Known(0)}
State(v) == IF v.state = "invalid_count" THEN "unknown" ELSE v.state
AxisBucket(axis, r) ==
  LET of == {b \in axis : r.time.kind = "point" /\ b.start <= r.time.at /\ b.end > r.time.at}
  IN IF of = {} THEN None ELSE LastOf(of)
Dimensions(r, axis) ==
  [owner |-> r.owner, project |-> project[r.owner], harness |-> r.harness, model |-> Model(r),
   bucket |-> AxisBucket(axis, r), context |-> ContextReason(r), threshold |-> ContextThreshold(r), long |-> r.long,
   states |-> [c \in Categories |-> State(r.value[c])], decisions |-> [c \in Categories |-> r.decision[c]],
   zeros |-> Zeros(r)]

(* The rows of the table base, and which of them are included in the sums. *)
InBase(r, q) ==
  \/ q.range = None \/ r.time.kind = "undated"
  \/ r.time.kind = "point" /\ r.time.at >= q.range.start /\ r.time.at < q.range.end
  \/ r.time.kind = "interval" /\ (r.time.start = None \/ (r.time.start < q.range.end /\ r.time.end > q.range.start))
Included(r, q) ==
  \/ q.range = None \/ r.time.kind = "point"
  \/ r.time.kind = "interval" /\ r.time.start # None /\ r.time.start >= q.range.start /\ r.time.end <= q.range.end
Grouped(q) ==
  LET base == {r \in ledger : Evident(r) /\ InScope(r, q) /\ InBase(r, q)}
      rows == {r \in base : Included(r, q)}
      axis == Axis(rows, q)
  IN [base |-> base, rows |-> rows, axis |-> axis, group |-> [r \in rows |-> Dimensions(r, axis)],
      total |-> [r \in rows |-> NormalizedTotal(r)]]
(* What has the decisions and the context in common is priced as one. *)
Priced(g) ==
  LET groups == {g.group[r] : r \in g.rows}
      members == [k \in groups |-> {r \in g.rows : g.group[r] = k}]
      Counted(k) == [c \in Categories |->
                      CASE k.states[c] = "known" -> MapThenSumSet(LAMBDA r : r.value[c].n, members[k])
                        [] OTHER -> IF k.states[c] = "not_applicable" THEN 0 ELSE None]
  IN [of |-> g, groups |-> groups, members |-> members,
      price |-> [k \in groups |-> PriceGroup(k.model, Counted(k), k.decisions, k.threshold, k.context, k.long)]]

(* The warnings: one condition for each code, the normalized total apart. *)
Conditions(r, included) ==
  LET Selects(state) == \/ \E c \in Categories : r.decision[c] = "selected" /\ State(r.value[c]) = state
                        \/ r.decision["quantity"] = "selected" /\ r.quantity.state = state
  IN [unresolved_evidence |-> \E m \in Decided : r.decision[m] = "unresolved",
      interval_only |-> r.time.kind = "interval", timing_unavailable |-> r.time.kind = "undated" \/ ~included,
      unknown_model_identity |-> Model(r).provider = None \/ Model(r).name = None, unassigned |-> project[r.owner] = None,
      lower_bound |-> \/ r.decision["quantity"] = "selected" /\ r.quantity.state = "known" /\ r.quantity.lower
                      \/ r.lower /\ r.value["output"].state = "known" /\ r.decision["output"] = "selected",
      _known_usage |-> Selects("known"), usage_partial |-> Selects("unknown"), not_applicable |-> Selects("not_applicable")]
(* Slip: the conditions alone. *)
Holding(r, included) == LET holds == Conditions(r, included) IN {code \in DOMAIN holds : holds[code]}
ConditionCodes(r, included) ==
  Holding(r, included)
  \cup {IF NormalizedTotal(r) = Unknown THEN "usage_partial" ELSE "_known_usage" : m \in {n \in {"total"} : r.decision[n] = "selected"}}

AggregateReport(d) ==
  LET rows == d.of.rows
      codes == [r \in d.of.base |-> ConditionCodes(r, r \in rows)]
      AllFacts(of) == UNION {{<<code, r.id>> : code \in codes[r] \cup r.codes} : r \in of}
      Sums(of) == [tokens |-> Tokens(UNION {d.members[k] : k \in of}, d.of.total), money |-> Bill([k \in of |-> d.price[k]]),
                   missing |-> MapThenSumSet(LAMBDA k : Cardinality(d.members[k]), {k \in of : Unpriced(d.price[k])})]
      Buckets(of) == [b \in d.of.axis |-> Sums({k \in of : k.bucket = b})]
      Of(o) == {k \in d.groups : k.owner = o}
  IN [sums |-> Sums(d.groups), buckets |-> Buckets(d.groups),
      unbucketed |-> Sums({k \in d.groups : k.bucket = None}).tokens,
      projects |-> [p \in {k.project : k \in d.groups} |->
                     LET of == {k \in d.groups : k.project = p} IN
                     [sums |-> Sums(of), sessions |-> Cardinality({k.owner : k \in {h \in of : \E r \in d.members[h] : Selected(r)}})]],
      models |-> [m \in {<<k.harness, k.model>> : k \in d.groups} |-> Sums({k \in d.groups : <<k.harness, k.model>> = m})],
      sessions |-> [o \in {k.owner : k \in d.groups} |->
                     [sums |-> Sums(Of(o)), buckets |-> Buckets(Of(o)),
                      coverage |-> Coverage(AllFacts({r \in rows : r.owner = o})), models |-> {k.model : k \in Of(o)},
                      subagents |-> Cardinality({r.session : r \in {s \in rows : s.owner = o}} \ {o})]],
      coverage |-> Coverage(AllFacts(d.of.base)) \cup Overlapping({r.harness : r \in {s \in d.of.base : codes[s] \cap Used # {}}})]

(* The sessions of a report in the order of the page, and one page of them. *)
Order(report, sort) ==
  LET Money(o) == report.sessions[o].sums
      Uncosted(o) == Money(o).missing > 0 /\ \A l \in DOMAIN Money(o).money.lines : l.reason # None
      First(o, p) == CASE Started[o] = Started[p] -> o < p
                       [] Started[o] = None -> FALSE
                       [] OTHER -> IF Started[p] = None THEN TRUE ELSE Started[o] < Started[p]
      Before(o, p) == CASE sort = "started" -> First(o, p)
                        [] Uncosted(o) # Uncosted(p) -> Uncosted(p)
                        [] Money(o).money.known = Money(p).money.known -> First(o, p)
                        [] OTHER -> (Money(o).money.known < Money(p).money.known) = (sort = "cost_asc")
  IN SetToSortSeq(DOMAIN report.sessions, Before)
(* Slip: the last page is the last full one. *)
FullPages(n, size) == Max({1, n \div size})
LastPage(n, size) == Max({1, (n + size - 1) \div size})
Page(order, page, size) ==
  LET p == Min({page, LastPage(Len(order), size)})
  IN SubSeq(order, (p - 1) * size + 1, Min({p * size, Len(order)}))

-----------------------------------------------------------------------------
(* The ledger grows.  Slip: what is decided anew does not replace what was. *)
Grows == stage = "ledger" /\ Cardinality(ledger') <= MaxRows /\ UNCHANGED <<stage, reports>>
ImportBeside(r) == ledger' = ledger \cup {r} /\ Grows /\ UNCHANGED project
Import(r) == ledger' = {s \in ledger : s.id # r.id} \cup {r} /\ Grows /\ UNCHANGED project
Attribute(o) == /\ \E p \in Projects \cup {None} : project' = [project EXCEPT ![o] = p]
                /\ UNCHANGED ledger /\ Grows

(* A report is built of one reading of the ledger. *)
Advance(from, to) == stage = from /\ stage' = to /\ UNCHANGED <<ledger, project>>
Group == Advance("ledger", "grouped") /\ reports' = [q \in Queries |-> [page |-> Grouped(q), direct |-> Priceable(q)]]
PriceAll == Advance("grouped", "priced") /\ reports' = [q \in Queries |-> [reports[q] EXCEPT !.page = Priced(reports[q].page)]]
Show == /\ Advance("priced", "shown")
        /\ reports' = [q \in Queries |-> [page |-> AggregateReport(reports[q].page), direct |-> Report(reports[q].direct)]]

Init == ledger = {} /\ project = [o \in Owners |-> None] /\ stage = "ledger" /\ reports = None
Next == \/ (\E r \in Pool : Import(r)) \/ (\E o \in Owners : Attribute(o))
        \/ Group \/ PriceAll \/ Show
Spec == Init /\ [][Next]_vars

-----------------------------------------------------------------------------
(* Properties of the reports, once they are built. *)
Shown == stage = "shown"

(* Every variable has its type, an observation is in one row. *)
TypeOK == /\ ledger \subseteq Pool /\ (\A r, s \in ledger : r.id = s.id => r = s) /\ project \in [Owners -> Projects \cup {None}]
          /\ stage \in {"ledger", "grouped", "priced", "shown"} /\ (stage = "ledger") = (reports = None)

(* Grouping in the database loses nothing: the report on the page is the one
   that adds up row by row, in every sum, price, count, bucket and warning. *)
GroupsAgree == Shown => \A q \in Queries : reports[q].page = reports[q].direct

(* Every split of a report adds up to it: the projects, the sessions, the
   models, and the buckets with what has no point in time. *)
Field(m, sums) == sums.tokens[m].known
AddsUp ==
  Shown => \A q \in Queries : \A report \in {reports[q].page, reports[q].direct} : \A m \in Measures :
    LET whole == Field(m, report.sums) IN
    /\ whole = MapThenSumSet(LAMBDA p : Field(m, report.projects[p].sums), DOMAIN report.projects)
    /\ whole = MapThenSumSet(LAMBDA o : Field(m, report.sessions[o].sums), DOMAIN report.sessions)
    /\ whole = MapThenSumSet(LAMBDA k : Field(m, report.models[k]), DOMAIN report.models)
    /\ whole = MapThenSumSet(LAMBDA b : Field(m, report.buckets[b]), DOMAIN report.buckets) + report.unbucketed[m].known

(* Ranges that meet add up to the range of both, but for what lies across the
   border: that is in the whole, and in both parts told as having no timing. *)
Meeting == {<<p, q, w>> \in Queries \X Queries \X Queries :
              /\ p.project = q.project /\ q.project = w.project /\ None \notin {p.range, q.range, w.range}
              /\ p.range.end = q.range.start /\ w.range = [start |-> p.range.start, end |-> q.range.end]}
RangesAddUp ==
  Shown => \A <<p, q, w>> \in Meeting :
    LET a == reports[p].page  b == reports[q].page  both == reports[w].page
        across == {r \in ledger : /\ Evident(r) /\ InScope(r, w) /\ r.time.kind = "interval" /\ Inside(r, w)
                                  /\ r.time.start < p.range.end /\ p.range.end < r.time.end}
    IN /\ \A m \in Measures :
            Field(m, both.sums) = Field(m, a.sums) + Field(m, b.sums) + Tokens(across, [r \in across |-> Total(r)])[m].known
       /\ \A r \in across : <<"timing_unavailable", r.id>> \in a.coverage \cap b.coverage

(* Every token that counts is on a line of the bill, with its price or with the
   reason why it has none; without a reason nothing counts as missing. *)
EveryTokenBilled ==
  Shown => \A q \in Queries : LET sums == reports[q].page.sums  lines == sums.money.lines IN
    /\ \A c \in Categories :
         sums.tokens[c].known = MapThenSumSet(LAMBDA l : lines[l], {l \in DOMAIN lines : l.category = c /\ lines[l] # None})
    /\ sums.missing = 0 <=> \A l \in DOMAIN lines : l.reason = None

(* Turning the pages shows every session once, in the order asked for, and a
   page after the last shows the last. *)
Pages ==
  Shown => \A q \in Queries : LET report == reports[q].page IN
    \A sort \in {"started", "cost_desc", "cost_asc"} : \A size \in 1 .. 2 :
      LET order == Order(report, sort)  last == LastPage(Len(order), size)
      IN /\ FlattenSeq([n \in 1 .. last |-> Page(order, n, size)]) = order
         /\ Len(order) = Cardinality(DOMAIN report.sessions) /\ Page(order, last + 1, size) = Page(order, last, size)
=============================================================================
