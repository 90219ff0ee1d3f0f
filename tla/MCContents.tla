----------------------------- MODULE MCContents -----------------------------
(* What is read from session files and shown of the ledger, for TLC: the
   transcripts of five harnesses, the way to the file of one, two readers, the
   report and its axis of time.  They share no state with each other: a
   behaviour is about one of them, named by the variable "part", and the
   variables of the others are None.  The way to a file is that of the module
   this one extends: without a session imported no request is made. *)
EXTENDS TranscriptAccess, Integers, TLC

CONSTANTS Bad

VARIABLES part,
          file, step, out,                        \* of the transcripts of Codex and Pi
          scope, todo, used, shown,               \* of both of Codex
          texts, role,                            \* StoredTranscript
          left, at, chain, colour, invalid, picked, cache, \* PiTranscript
          lines,                                  \* of the logs of Claude, the CLI, Pi and VS Code
          page,                                   \* ClaudeTranscript
          line,                                   \* of CopilotCliTranscript and ChatReplay
          pass, preferred, fallback, completed, entries, emitted, \* CopilotCliTranscript
          batch, meta, ended,                     \* PiReader
          tree, refused,                          \* ChatReplay
          project, stage, reports,                \* UsageReport, with ledger
          zone, now, query, cursor, axis, phase   \* TimeAxis

pages == <<file, step, out>>
rollouts == <<scope, todo, used, shown>>
stored == <<texts, role>>
branches == <<left, at, chain, colour, invalid, picked, cache>>
calls == <<pass, preferred, fallback, completed, entries, emitted>>
log == <<batch, meta, ended>>
replay == <<tree, refused>>
access == <<files, parents, request>>
report == <<project, stage, reports>>
times == <<zone, now, query, cursor, axis, phase>>
partVars == <<part, pages, rollouts, stored, branches, lines, page, line, calls, log, replay, ledger, access, report, times>>

-----------------------------------------------------------------------------
(* The records of rollouts and of the logs of Pi. *)

Spoken ==
  LET Rec(kind, id, said) ==
        [kind |-> kind, turn |-> None, scope |-> None, role |-> "assistant", phase |-> None, id |-> id, texts |-> said]
      Turn == [Rec("turn", None, {}) EXCEPT !.turn = "t"]
      messages == {Turn} \cup {Rec(kind, id, {x}) : kind \in {"raw", "event"}, id \in {None, "x"}, x \in {"a", "b"}}
                      \cup {[Rec("raw", None, {"a"}) EXCEPT !.phase = "final"], [Rec("event", None, {"a"}) EXCEPT !.phase = "other"],
                            [Rec("raw", None, {"a"}) EXCEPT !.role = "user"]}
      thoughts == {Turn, Rec("thought", None, {"a"}), Rec("thought", "x", {"a", "b"}), Rec("thought_event", None, {"a"}),
                     Rec("thought_event", "x", {"b"}), Rec("event", None, {"a"})}
      tools == {Turn, Rec("call", "x", {}), Rec("call", "y", {}), Rec("call", None, {}), Rec("result", "x", {"a"}), Rec("result", "y", {"b"}),
                  Rec("result", None, {"c"}), [Rec("result", "x", {"d"}) EXCEPT !.turn = "t"]}
  IN [messages |-> messages, thoughts |-> thoughts, tools |-> tools]

Kept ==
  LET Rec(kind, who, id, said) ==
        [kind |-> kind, turn |-> None, scope |-> None, role |-> who, inherited |-> FALSE, phase |-> None,
         id |-> id, nid |-> None, texts |-> said, status |-> None, does |-> None]
      Turn == [Rec("turn", "context", None, {}) EXCEPT !.turn = "t"]
      Final(r) == [r EXCEPT !.phase = "final"]
      voices == {Turn, Rec("message", "assistant", "x", {"a"}), Rec("agent", "assistant", "x", {"a"}), Rec("agent", "assistant", "x", {"b"}),
                 Final(Rec("message", "assistant", "msg_1", {"a"})), Final(Rec("agent", "assistant", "item-1", {"a"})),
                 Rec("agent", "assistant", "item-1", {"a"}), Rec("thought", "assistant", "x", {"a", "b"}), Rec("reason", "assistant", "x", {"b", "c"}),
                 Rec("message", "user", None, {"a"}), [Rec("message", "user", None, {"b"}) EXCEPT !.inherited = TRUE],
                 Rec("user", "user", None, {"a"}), [Rec("user", "user", None, {"a"}) EXCEPT !.turn = "t"], Rec("user", "user", None, {"b"})}
      thoughts == {Turn} \cup {Rec(kind, "assistant", "x", said) : kind \in {"thought", "reason"}, said \in {{"a"}, {"a", "unavailable"}, {"unavailable"}}}
      Does(r, what) == [r EXCEPT !.does = what]
      Status(r, status) == [r EXCEPT !.status = status]
      Call(id, what) == Does(Rec("call", "assistant", id, {}), what)
      Result(id, said, status) == Status(Rec("result", "tool", id, said), status)
      Tool(id, what, said, status) == Status(Does(Rec("tool", "assistant", id, said), what), status)
      tools == {Turn, Call("x", "run"), Call("y", "run"), Call(None, "run"), Result("x", {"a"}, "recorded"), Result("y", {"a"}, "failed"), Result("x", {"b"}, "failed"),
                  [Result(None, {"c"}, "recorded") EXCEPT !.nid = "z"], Rec("output", "tool", "z", {"c"}), Rec("output", "tool", "x", {"a"}),
                  Tool("x", "run", {"d"}, "succeeded"), Tool("z", "run", {"d"}, "succeeded"), Tool(None, "run", {}, None), Tool("x", None, {}, None)}
  IN [said |-> voices, thoughts |-> thoughts, tools |-> tools]

Branched ==
  LET Rec(id, parent) ==
        [id |-> id, parent |-> parent, kind |-> "other", call |-> None, name |-> None, target |-> None, label |-> None, kept |-> <<>>]
      records == {Rec(id, parent) : id \in {"a", "b", "c"}, parent \in {None, "a", "b", "c"}} \cup {Rec(None, "a")}
      Labelled(r, target, label) == [r EXCEPT !.kind = "label", !.target = target, !.label = label]
      labels == {Rec("a", None), Rec("a", "b"), Rec("b", None), Rec("b", "a"), Rec("c", "a"), Rec("c", "b")}
                    \cup {Labelled(Rec("d", parent), target, "L") : parent \in {None, "b"}, target \in {"a"}}
                    \cup {Labelled(Rec("e", parent), "a", label) : parent \in {"a", "d"}, label \in {"M", None}}
      Call(r, name) == [r EXCEPT !.kind = "call", !.call = "x", !.name = name]
      Result(r, name) == [r EXCEPT !.kind = "result", !.call = "x", !.name = name]
      Compaction(r, kept) == [r EXCEPT !.kept = kept]
      tools == {Call(Rec("a", None), "run"), Call(Rec("b", None), "run"), Call(Rec("b", "a"), "run"), Result(Rec("b", "a"), "run"), Result(Rec("c", "a"), "edit"),
                  Result(Rec("c", "b"), "run"), Call(Rec("d", "a"), "edit"), [Call(Rec("d", "c"), "run") EXCEPT !.call = None],
                  [Result(Rec("d", "c"), "run") EXCEPT !.call = None], 
                  Compaction(Rec("e", "a"), <<Call(Rec(None, None), "run")>>), Compaction(Rec("e", "b"), <<Call(Rec(None, None), "run"), Result(Rec(None, None), "run")>>),
                  Call(Rec("f", "e"), "run")}
  IN [entries |-> records, labels |-> labels, tools |-> tools]

(* The values of the log of VS Code, the hours of the zones, and the rows and
   queries of the reports. *)
Replayed ==
  LET Root(kind) == <<>> :> kind
      values == {Root("a"), Root("b"), Root("list"), Root("object") @@ (<<-1>> :> "a"),
                   Root("list") @@ (<<0>> :> "a"),
                   Root("object") @@ (<<-1>> :> "list") @@ (<<-1, 0>> :> "a") @@ (<<-1, 1>> :> "b")}
  IN values

Hours ==
  LET instants == -20 .. 52
      asked == 4 .. 27
      Changing(first, before, after) == [i \in instants |-> IF i < first THEN before ELSE after]
      offset ==
        [utc |-> [i \in instants |-> 0], skips |-> Changing(16, 0, 2), repeats |-> Changing(18, 0, -2),
         late |-> Changing(16, 0, -2), summer |-> Changing(15, 3, 5), half |-> Changing(12, 0, -1)]
  IN [instants |-> instants, asked |-> asked, offset |-> offset]

Reported ==
  LET NoModel == [provider |-> None, name |-> None]
      Of(provider, name) == [provider |-> provider, name |-> name]
      Rates(i, o, r, w) == [input |-> i, output |-> o, cache_read |-> r, cache_write |-> w]
      alias == [codex |-> "openai"]
      catalog ==
        (<<"openai", "tiered">> :> [base |-> Rates(1, 5, 1, None), tiers |-> (2 :> Rates(2, 5, 2, None)), valid |-> TRUE])
        @@ (<<"openai", "broken">> :> [base |-> Rates(1, 5, 1, 1), tiers |-> (2 :> Rates(2, 5, 2, 1)), valid |-> FALSE])
        @@ (<<"anthropic", "flat">> :> [base |-> Rates(3, 4, None, 2), tiers |-> <<>>, valid |-> TRUE])
      Decided == {"input", "output", "cache_read", "cache_write", "total", "recorded_usd", "quantity"}
      Known(n) == [state |-> "known", n |-> n]
      Unknown == [state |-> "unknown", n |-> 0]
      Invalid == [state |-> "invalid_count", n |-> 0]
      All(state) == [m \in Decided |-> state]
      Values(i, o, r, w) == [input |-> i, output |-> o, cache_read |-> r, cache_write |-> w]
      At(n) == [kind |-> "point", at |-> n]
      Between(m, n) == [kind |-> "interval", start |-> m, end |-> n]
      NotApplicable == [state |-> "not_applicable", n |-> 0]
      Plain == [id |-> 1, session |-> 1, owner |-> 1, harness |-> "codex", model |-> Of("codex", "tiered"), time |-> At(0),
                value |-> Values(Known(1), Known(1), Known(0), Known(0)), reported |-> Known(2),
                quantity |-> [state |-> "none", lower |-> FALSE], long |-> FALSE, lower |-> FALSE,
                decision |-> [All("selected") EXCEPT !["quantity"] = "excluded"], codes |-> {}]
      pool == {
        Plain,
        [Plain EXCEPT !.decision = All("excluded")],
        [Plain EXCEPT !.id = 2, !.session = 4, !.time = At(1), !.value = Values(Known(2), Known(1), Known(1), Known(0)), !.reported = Unknown],
        [Plain EXCEPT !.id = 3, !.owner = 2, !.session = 2, !.time = At(3), !.value["cache_write"] = Known(1), !.reported = Unknown],
        [Plain EXCEPT !.id = 4, !.time = Between(2, 6), !.value = Values(Known(4), Known(1), NotApplicable, NotApplicable), !.reported = Known(6)],
        [Plain EXCEPT !.id = 4, !.time = Between(None, 6), !.decision["input"] = "unresolved"],
        [Plain EXCEPT !.id = 5, !.time = [kind |-> "undated"], !.codes = {"codex_model_conflict"}],
        [Plain EXCEPT !.id = 6, !.owner = 2, !.session = 2, !.harness = "copilot-cli", !.model = Of("anthropic", "flat"), !.time = At(4),
                      !.value = Values(Known(1), Unknown, Known(1), Known(2)), !.reported = Known(5), !.lower = TRUE],
        [Plain EXCEPT !.id = 7, !.harness = "copilot-vscode", !.model = Of("anthropic", "flat"), !.time = At(7), !.lower = TRUE,
                      !.value = Values(Invalid, Known(6), Known(6), Known(0)), !.reported = Known(9)],
        [Plain EXCEPT !.id = 8, !.owner = 2, !.session = 5, !.model = Of("anthropic", "flat"), !.time = At(4), !.long = TRUE,
                      !.value = Values(Known(1), Known(0), Known(0), Known(2)), !.reported = Known(3),
                      !.decision["input"] = "excluded", !.decision["total"] = "unresolved"],
        [Plain EXCEPT !.id = 9, !.owner = 2, !.session = 2, !.model = Of("openai", "broken"), !.reported = Known(1)],
        [Plain EXCEPT !.id = 10, !.model = Of("openai", "other"), !.value = Values(Unknown, Known(6), Known(6), Known(0)), !.reported = Invalid],
        [Plain EXCEPT !.id = 11, !.value["input"] = Unknown, !.decision["recorded_usd"] = "unresolved", !.decision["quantity"] = "selected",
                      !.quantity = [state |-> "unknown", lower |-> FALSE]],
        [Plain EXCEPT !.id = 12, !.value["input"] = Known(0), !.value["cache_write"] = Known(0), !.time = At(1)],
        [Plain EXCEPT !.id = 13, !.model = Of("anthropic", "flat")],
        [Plain EXCEPT !.id = 14, !.model = Of("anthropic", "flat"), !.value["cache_read"] = Known(1), !.reported = Known(3)],
        [Plain EXCEPT !.id = 15, !.harness = "copilot-cli", !.time = Between(1, 3), !.value = Values(Unknown, Unknown, Unknown, Unknown),
                      !.reported = Unknown, !.decision = [All("excluded") EXCEPT !["quantity"] = "selected"],
                      !.quantity = [state |-> "known", lower |-> TRUE]]}
      Span(m, n) == [start |-> m, end |-> n]
      Ranges == {None, Span(0, 4), Span(4, 8), Span(0, 8), Span(1, 3)}
      queries == {[project |-> "any", range |-> r] : r \in Ranges}
                   \cup {[project |-> p, range |-> r] : p \in {None, "p"}, r \in {None, Span(0, 4)}}
      sessions == {[Plain EXCEPT !.id = o, !.owner = o, !.session = o, !.model = m] :
                      o \in 1 .. 3, m \in {Of("anthropic", "flat"), Of("openai", "tiered"), NoModel}}
                   \cup {[Plain EXCEPT !.id = 4, !.owner = 3, !.session = 6, !.model = NoModel]}
      started == <<3, None, 3>>
  IN [alias |-> alias, catalog |-> catalog, rows |-> pool, queries |-> queries, sessions |-> sessions, started |-> started]

-----------------------------------------------------------------------------
(* The parts. *)

Messages == INSTANCE CodexTranscript WITH Window <- 2, Records <- Spoken.messages, MaxLines <- 4
Thoughts == INSTANCE CodexTranscript WITH Window <- 2, Records <- Spoken.thoughts, MaxLines <- 5
Tools == INSTANCE CodexTranscript WITH Window <- 2, Records <- Spoken.tools, MaxLines <- 4
Said == INSTANCE StoredTranscript WITH
  Window <- 2, Records <- Kept.said, Unavailable <- {"unavailable"}, ItemIds <- {"item-1"}, MessageIds <- {"msg_1"}, MaxLines <- 4
Reasons == INSTANCE StoredTranscript WITH
  Window <- 2, Records <- Kept.thoughts, Unavailable <- {"unavailable"}, ItemIds <- {"item-1"}, MessageIds <- {"msg_1"}, MaxLines <- 3
Uses == INSTANCE StoredTranscript WITH
  Window <- 2, Records <- Kept.tools, Unavailable <- {"unavailable"}, ItemIds <- {"item-1"}, MessageIds <- {"msg_1"}, MaxLines <- 4
Entries == INSTANCE PiTranscript WITH Records <- Branched.entries, MaxLines <- 4
Labels == INSTANCE PiTranscript WITH Records <- Branched.labels, MaxLines <- 4
Results == INSTANCE PiTranscript WITH Records <- Branched.tools, MaxLines <- 4

(* Chains of entries, with side chains, and with the output of tools; and the
   last of the user's words. *)
Chains == INSTANCE ClaudeTranscript WITH
  Ids <- {"a", "b", "c"}, Kinds <- {"visible", "internal", "unknown"}, Sides <- {FALSE}, Says <- {"text"}, OfAgent <- FALSE, MaxLines <- 3
Leaves == INSTANCE ClaudeTranscript WITH
  Ids <- {"a", "b"}, Kinds <- {"visible", "internal", "unknown"}, Sides <- BOOLEAN, Says <- {"text"}, OfAgent <- FALSE, MaxLines <- 3
Outputs == INSTANCE ClaudeTranscript WITH
  Ids <- {"a", "b"}, Kinds <- {"visible", "internal"}, Sides <- {FALSE}, Says <- {"text", "result"}, OfAgent <- TRUE, MaxLines <- 3
Cli == INSTANCE CopilotCliTranscript WITH Calls <- {"c1", "c2"}, MaxCalls <- 2, MaxLines <- 3
(* An operation log of VS Code, and a history of the CLI with an agent. *)
Named == <<"i1", "i2">>
Harnesses == [a |-> "pi", b |-> "copilot-vscode", c |-> "copilot-cli", d |-> "copilot-cli"]
Recorders == [a |-> "a", b |-> "b", c |-> "c", d |-> "c"]

(* Links of calls to agents, titles, and lines of every kind. *)
Links == INSTANCE PiReader WITH
  Ids <- {"e1"}, Names <- {}, Texts <- {}, Agents <- {"a1", "a2"}, CallIds <- {"c1"}, Runs <- {"r1"}, Children <- {"k1"},
  Times <- {}, Kinds <- {"calls", "single", "link"}, MaxCalls <- 1, MaxLines <- 4
Titles == INSTANCE PiReader WITH
  Ids <- {"e1"}, Names <- {"n1", "n2"}, Texts <- {"t1", "t2"}, Agents <- {}, CallIds <- {}, Runs <- {"r1"}, Children <- {"k1"},
  Times <- {}, Kinds <- {"name", "prompt"}, MaxCalls <- 1, MaxLines <- 3
Lines == INSTANCE PiReader WITH
  Ids <- {"e1", "e2"}, Names <- {"n1"}, Texts <- {}, Agents <- {}, CallIds <- {}, Runs <- {"r1"}, Children <- {"k1"},
  Times <- {1, 2}, Kinds <- {"name", "result", "measured", "stray", "shapeless"}, MaxCalls <- 1, MaxLines <- 3
Chat == INSTANCE ChatReplay WITH Names <- {-1}, Indices <- {0, 1, 2}, Values <- Replayed, Depth <- 3, MaxLines <- 3

Sums == INSTANCE UsageReport WITH
  Every <- "any", Limit <- 12, Alias <- Reported.alias, Catalog <- Reported.catalog, Pool <- Reported.rows, Owners <- {1, 2},
  Started <- Reported.started, Projects <- {"p"}, Day <- 4, Queries <- Reported.queries, MaxRows <- 3
Sorted == INSTANCE UsageReport WITH
  Every <- "any", Limit <- 12, Alias <- Reported.alias, Catalog <- Reported.catalog, Pool <- Reported.sessions, Owners <- {1, 2, 3},
  Started <- Reported.started, Projects <- {}, Day <- 4, Queries <- {[project |-> "any", range |-> None]}, MaxRows <- 4
Axis == INSTANCE TimeAxis WITH
  Instants <- Hours.instants, Asked <- Hours.asked, Zones <- DOMAIN Hours.offset, UTC <- "utc", Offset <- Hours.offset,
  Hour <- 2, Day <- 8, Week <- 24, Short <- 2, Long <- 16, MaxBuckets <- 6

ASSUME Constants ==
  /\ Messages!ToolConstants /\ Said!ToolConstants
  /\ Chains!ClaudeTranscriptConstants /\ Leaves!ClaudeTranscriptConstants /\ Outputs!ClaudeTranscriptConstants
  /\ Cli!CopilotCliTranscriptConstants
  /\ Links!PiReaderConstants /\ Titles!PiReaderConstants /\ Lines!PiReaderConstants /\ Chat!ReplayConstants
  /\ Sums!ReportConstants /\ Sorted!ReportConstants /\ Axis!AxisConstants

NoPages == file = None /\ step = None /\ out = None
NoRollouts == scope = None /\ todo = None /\ used = None /\ shown = None
NoStored == texts = None /\ role = None
NoBranches == left = None /\ at = None /\ chain = None /\ colour = None /\ invalid = None /\ picked = None /\ cache = None
NoCalls == pass = None /\ preferred = None /\ fallback = None /\ completed = None /\ entries = None /\ emitted = None
NoLog == batch = None /\ meta = None /\ ended = None
NoReplay == tree = None /\ refused = None
NoFiles == parents = None /\ names = None /\ inodes = None /\ writes = None /\ request = Idle
NoReport == project = None /\ stage = None /\ reports = None
NoTimes == zone = None /\ now = None /\ query = None /\ cursor = None /\ axis = None /\ phase = None
OnlyRollout == /\ NoStored /\ NoBranches /\ lines = None /\ page = None /\ line = None /\ NoCalls /\ NoLog /\ NoReplay
               /\ ledger = None /\ NoFiles /\ NoReport /\ NoTimes
OnlyStored == /\ NoBranches /\ lines = None /\ page = None /\ line = None /\ NoCalls /\ NoLog /\ NoReplay
              /\ ledger = None /\ NoFiles /\ NoReport /\ NoTimes
OnlyBranches == /\ NoRollouts /\ NoStored /\ lines = None /\ page = None /\ line = None /\ NoCalls /\ NoLog /\ NoReplay
                /\ ledger = None /\ NoFiles /\ NoReport /\ NoTimes
OnlyClaude == /\ NoPages /\ NoRollouts /\ NoStored /\ NoBranches /\ line = None /\ NoCalls /\ NoLog /\ NoReplay
              /\ ledger = None /\ NoFiles /\ NoReport /\ NoTimes
OnlyCalls == /\ NoPages /\ NoRollouts /\ NoStored /\ NoBranches /\ page = None /\ NoLog /\ NoReplay /\ ledger = None
             /\ NoFiles /\ NoReport /\ NoTimes
OnlyAccess == /\ NoPages /\ NoRollouts /\ NoStored /\ NoBranches /\ lines = None /\ page = None /\ line = None /\ NoCalls
              /\ NoLog /\ NoReplay /\ NoReport /\ NoTimes
OnlyLog == /\ NoPages /\ NoRollouts /\ NoStored /\ NoBranches /\ page = None /\ line = None /\ NoCalls /\ NoReplay
           /\ ledger = None /\ NoFiles /\ NoReport /\ NoTimes
OnlyReplay == /\ NoPages /\ NoRollouts /\ NoStored /\ NoBranches /\ page = None /\ NoCalls /\ NoLog /\ ledger = None
              /\ NoFiles /\ NoReport /\ NoTimes
OnlyReport == /\ NoPages /\ NoRollouts /\ NoStored /\ NoBranches /\ lines = None /\ page = None /\ line = None /\ NoCalls
              /\ NoLog /\ NoReplay /\ NoFiles /\ NoTimes
OnlyTimes == /\ NoPages /\ NoRollouts /\ NoStored /\ NoBranches /\ lines = None /\ page = None /\ line = None /\ NoCalls
             /\ NoLog /\ NoReplay /\ ledger = None /\ NoFiles /\ NoReport

PartInit ==
  \/ part = "messages" /\ Messages!Init /\ OnlyRollout
  \/ part = "thoughts" /\ Thoughts!Init /\ OnlyRollout
  \/ part = "tools" /\ Tools!Init /\ OnlyRollout
  \/ part = "said" /\ Said!Init /\ OnlyStored
  \/ part = "reasons" /\ Reasons!Init /\ OnlyStored
  \/ part = "uses" /\ Uses!Init /\ OnlyStored
  \/ part = "entries" /\ Entries!Init /\ OnlyBranches
  \/ part = "labels" /\ Labels!Init /\ OnlyBranches
  \/ part = "results" /\ Results!Init /\ OnlyBranches
  \/ part = "chains" /\ Chains!Init /\ OnlyClaude
  \/ part = "leaves" /\ Leaves!Init /\ OnlyClaude
  \/ part = "outputs" /\ Outputs!Init /\ OnlyClaude
  \/ part = "cli" /\ Cli!Init /\ OnlyCalls
  \/ part = "access" /\ Init /\ OnlyAccess
  \/ part = "links" /\ Links!Init /\ OnlyLog
  \/ part = "titles" /\ Titles!Init /\ OnlyLog
  \/ part = "lines" /\ Lines!Init /\ OnlyLog
  \/ part = "chat" /\ Chat!Init /\ OnlyReplay
  \/ part = "sums" /\ Sums!Init /\ OnlyReport
  \/ part = "sorted" /\ Sorted!Init /\ OnlyReport
  \/ part = "axis" /\ Axis!Init /\ OnlyTimes

InRollout == UNCHANGED <<part, stored, branches, lines, page, line, calls, log, replay, ledger, access, report, times>>
InStored == UNCHANGED <<part, branches, lines, page, line, calls, log, replay, ledger, access, report, times>>
InBranches == UNCHANGED <<part, rollouts, stored, lines, page, line, calls, log, replay, ledger, access, report, times>>
InClaude == UNCHANGED <<part, pages, rollouts, stored, branches, line, calls, log, replay, ledger, access, report, times>>
InCalls == UNCHANGED <<part, pages, rollouts, stored, branches, page, log, replay, ledger, access, report, times>>
InAccess == UNCHANGED <<part, pages, rollouts, stored, branches, lines, page, line, calls, log, replay, report, times>>
InLog == UNCHANGED <<part, pages, rollouts, stored, branches, page, line, calls, replay, ledger, access, report, times>>
InReplay == UNCHANGED <<part, pages, rollouts, stored, branches, page, calls, log, ledger, access, report, times>>
InReport == UNCHANGED <<part, pages, rollouts, stored, branches, lines, page, line, calls, log, replay, access, times>>
InTimes == UNCHANGED <<part, pages, rollouts, stored, branches, lines, page, line, calls, log, replay, ledger, access, report>>
PartNext ==
  \/ part = "messages" /\ Messages!Next /\ InRollout
  \/ part = "thoughts" /\ Thoughts!Next /\ InRollout
  \/ part = "tools" /\ Tools!Next /\ InRollout
  \/ part = "said" /\ Said!Next /\ InStored
  \/ part = "reasons" /\ Reasons!Next /\ InStored
  \/ part = "uses" /\ Uses!Next /\ InStored
  \/ part = "entries" /\ Entries!Next /\ InBranches
  \/ part = "labels" /\ Labels!Next /\ InBranches
  \/ part = "results" /\ Results!Next /\ InBranches
  \/ part = "chains" /\ Chains!Next /\ InClaude
  \/ part = "leaves" /\ Leaves!Next /\ InClaude
  \/ part = "outputs" /\ Outputs!Next /\ InClaude
  \/ part = "cli" /\ Cli!Next /\ InCalls
  \/ part = "access" /\ Next /\ InAccess
  \/ part = "links" /\ Links!Next /\ InLog
  \/ part = "titles" /\ Titles!Next /\ InLog
  \/ part = "lines" /\ Lines!Next /\ InLog
  \/ part = "chat" /\ Chat!Next /\ InReplay
  \/ part = "sums" /\ Sums!Next /\ InReport
  \/ part = "sorted" /\ Sorted!Next /\ InReport
  \/ part = "axis" /\ Axis!Next /\ InTimes
PartSpec == PartInit /\ [][PartNext]_partVars

-----------------------------------------------------------------------------
(* Properties. *)

(* Every variable of a part has its type. *)
TypesOK ==
  /\ part = "messages" => Messages!TypeOK
  /\ part = "said" => Said!TypeOK
  /\ part = "entries" => Entries!TypeOK
  /\ part = "chains" => Chains!TypeOK
  /\ part = "cli" => Cli!TypeOK
  /\ part = "access" => TypeOK
  /\ part = "links" => Links!TypeOK
  /\ part = "chat" => Chat!TypeOK
  /\ part = "sums" => Sums!TypeOK
  /\ part = "axis" => Axis!TypeOK

(* A transcript hides only what another entry of it says: what a record of a
   rollout says is on the page, in an entry of its turn. *)
NothingHidden ==
  /\ part = "messages" => Messages!NothingHidden
  /\ part = "tools" => Tools!NothingHidden
  /\ part = "said" => Said!EverythingShown
  /\ part = "uses" => Uses!EverythingShown

(* A transcript shows once what was recorded in several ways, and twice what was
   said twice: an item stands for one event, an output belongs to one call, what
   the user typed is shown as typed, a call of the CLI is shown where it was
   first requested and with its own output. *)
ShownOnce ==
  /\ part = "messages" => Messages!OneEventEach /\ Messages!PairsMerged
  /\ part = "thoughts" => Thoughts!OneEventEach /\ Thoughts!PairsMerged
  /\ part = "tools" => Tools!OutputsOnce
  /\ part = "said" => Said!RequestsOnce
  /\ part = "uses" => Uses!OutputsOnce /\ Uses!ToolsMerged
  /\ part = "results" => Results!ToolsPaired
  /\ part = "cli" => Cli!CallsShownOnce /\ Cli!OutputFollows

(* A transcript of a branching session shows the branch that was written last,
   whole, however the entries of the file circle or repeat: every branch can be
   asked for by the label nearest to its leaf, and outputs are those of the
   branch. *)
LatestShown ==
  /\ part = "entries" => Entries!CirclesFound /\ Entries!WayEnds /\ Entries!AllOnBranches /\ Entries!LatestShown
  /\ part = "labels" => Labels!NearestLabel
  /\ part = "chains" => Chains!ChainWhole /\ Chains!LatestShown
  /\ part = "leaves" => Leaves!LatestShown
  /\ part = "outputs" => Outputs!OutputOfChain

(* What a log tells is told whatever else is in it: a backfill finds what an
   import would have, a session has its last title and the times of all its
   entries, a run the agent its call named, no line goes unseen; and the value
   of a log of VS Code is one that can be written down, in which a line changes
   what it names, is told to have done so, and leaves the rest alone. *)
ReadRight ==
  /\ [](/\ part = "links" => Links!SingleRunsTold /\ Links!BackfillAgrees
        /\ part = "titles" => Titles!BackfillAgrees /\ Titles!Titled
        /\ part = "lines" => Lines!Lifetime /\ Lines!NothingUnseen
        /\ part = "chat" => Chat!WellFormed)
  /\ [][part = "chat" => Chat!ChangesTold /\ Chat!Elsewhere]_partVars

(* The report that the database adds up is the one that adds up row by row; its
   splits, its ranges, its bill and its pages each add up to it. *)
ReportsAgree ==
  /\ part = "sums" => Sums!GroupsAgree /\ Sums!AddsUp /\ Sums!RangesAddUp /\ Sums!EveryTokenBilled
  /\ part = "sorted" => Sorted!Pages

(* The buckets of the axis tile the range that was asked for, days are local
   dates, and presets hold the present, through every change of the clocks. *)
Tiles == part = "axis" => Axis!Tiles /\ Axis!SameDay /\ Axis!PresetsHoldNow

(* What was said last is on the page, whatever Claude wrote under it. *)
LastWordShown == part = "chains" => Chains!LastWordShown

(* Every reasoning a rollout stores is on its page. *)
ReasoningShown == part = "reasons" => Reasons!EverythingShown
=============================================================================
