---------------------------- MODULE MCAccounting ----------------------------
(* The accounts of the five harnesses, for TLC: a few files of each. *)
EXTENDS Accounting, TLC

MCPi ==
  LET Use(id, value, kind) == [id |-> id, value |-> value, kind |-> kind]
      Ten == Use(1, 10, "assistant")
      TenAgain == Use(2, 10, "assistant")   \* another digest, the same value of the measure
      Twenty == Use(3, 20, "assistant")
      Tool == Use(4, 10, "tool_result")
      SomeUses == {Ten, TenAgain, Twenty, Tool}
      Entry(parent, use) == [parent |-> parent, use |-> use]
      Alone(use) == "e2" :> Entry(None, use)
      After(root, use) == ("e1" :> Entry(None, root)) @@ ("e2" :> Entry("e1", use))
      Loose == "e2" :> Entry("e1", Ten)     \* its parent is not in the file
      File(locator, session, parent, start, entries, damaged) ==
        [locator |-> locator, session |-> session, header |-> [parent |-> parent, start |-> start],
         entries |-> entries, damaged |-> damaged]
      (* Three sessions, each with its own file, naming files as parents; a file of
         another session in the place of the first, a copy of the second elsewhere
         with another start, a damaged one, a tool result. *)
      Own == [s1 |-> "l1", s2 |-> "l2", s3 |-> "l3"]
      Contents == {After(None, Ten), After(Ten, TenAgain)}
      Families == {File(Own[s], s, p, 0, c, FALSE) : s \in {"s1", "s2"}, p \in {"l1", "l2", "l3", None}, c \in Contents}
                  \cup {File("l3", "s3", p, 0, c, FALSE) : p \in {"l1", "l2"}, c \in Contents}
      Oddities == {File("l1", "s2", None, 0, After(None, Ten), FALSE),
                   File("l3", "s2", "l1", 1, After(None, Ten), FALSE),
                   File("l1", "s1", None, 0, Alone(Ten), TRUE),
                   File("l2", "s2", "l1", 0, Alone(Ten), FALSE),
                   File("l2", "s2", "l1", 0, Loose, FALSE),
                   File("l1", "s1", None, 0, After(Ten, Twenty), FALSE),
                   File("l1", "s1", None, 0, After(None, Tool), FALSE)}
      AllFiles == Families \cup Oddities
  IN [files |-> AllFiles, uses |-> SomeUses]

MCCodexFiles ==
  LET V(n) == [input |-> n, total |-> n]
      Turn(model) == [type |-> "turn", turn |-> "t", model |-> model]
      Answer(id, thread, n, sum, at) ==
        [type |-> "response", thread |-> thread, turn |-> "t", response |-> id, total |-> V(sum), last |-> V(n), at |-> at]
      Counts(n, sum, at) == [type |-> "count", total |-> V(sum), last |-> V(n), at |-> at]
      File(locator, thread, parent, cwd, lines) ==
        [locator |-> locator, thread |-> thread, parent |-> parent, cwd |-> cwd, provider |-> "openai", lines |-> lines]
      One == Counts(1, 1, 1)
      Two == Counts(2, 3, 2)
      Three == Counts(3, 6, 3)
      (* A root thread, legacy, mixed or modern, with a child that repeats it and a
         grandchild that repeats both. *)
      Roots == {File("root", "root", None, "d", l) :
                  l \in {<<Turn("m"), One, Two>>,
                         <<Turn("m"), Answer("r1", "root", 1, 1, 1), One, Two>>,
                         <<Turn("m"), One, Two, Two, Answer("r3", "root", 3, 6, 3)>>}}
      Children == {File("child", "child", p, "d", l) :
                    p \in {"root", None},
                    l \in {<<Turn("m"), One, Two, Three>>,
                           <<Turn("m"), One, Three>>,
                           <<Turn("n"), Answer("r1", "root", 1, 1, 5), Two>>}}
      Grandchildren == {File("grandchild", "grandchild", p, "d", <<Turn("m"), One, Counts(4, 5, 4)>>) : p \in {"child", "root"}}
      (* A copy elsewhere, headers that disagree, a response two threads claim or
         two records number differently, one thread's records in another's file. *)
      Oddities == {File("copy", "root", None, "d", <<Turn("m"), One, Two>>),
                   File("copy", "root", "child", "d", <<Turn("m"), One>>),
                   File("copy", "root", "gone", "e", <<Turn("m"), Counts(1, 1, 7)>>),
                   File("copy", "child", "grandchild", "d", <<Turn("m"), One>>),
                   File("other", "other", None, "d", <<Turn("m"), Answer("r1", "other", 1, 1, 2)>>),
                   File("other", "other", None, "d", <<Turn("m"), Answer("r1", "root", 2, 2, 2), Counts(2, 2, 2), One>>),
                   File("other", "other", "root", "d", <<Turn("m"), Answer("r3", "root", 3, 6, None), Three>>)}
      SomeFiles == Roots \cup Children \cup Grandchildren \cup Oddities
  IN SomeFiles

MCClaudeFiles ==
  LET Line(s, entry, message, request, version, output, at) ==
        [session |-> s, entry |-> entry, message |-> message, request |-> request, signature |-> "n",
         version |-> version, output |-> output, at |-> at, cwd |-> "d"]
      File(locator, place, s, parent, lines) ==
        [locator |-> locator, place |-> place, session |-> s, uuid |-> IF parent = None THEN s ELSE "s", parent |-> parent, lines |-> lines]
      Start(s, e) == Line(s, e, "m1", "r1", "v1", 1, 1)
      Final(s, e) == Line(s, e, "m1", "r1", "v2", 7, 2)
      (* One call in two sessions: started and finished, by one version or two, with
         names missing, twice with other outputs, under another request; and files
         that hold other calls between them. *)
      Mains == {File("main", 1, "s", None, l) :
                  l \in {<<Start("s", "e1"), Final("s", "e2")>>,
                         <<Line("s", "e1", None, None, "v1", 1, 1), Line("s", "e2", "m1", None, "v2", 7, None)>>,
                         <<Final("s", "e1"), Line("s", "e2", "m1", "r1", "v3", 7, 3)>>,
                         <<[Start("s", "e1") EXCEPT !.version = None], Final("s", "e2")>>}}
      Copies == {File("copy", 2, "t", None, l) :
                   l \in {<<Final("t", "e2")>>,
                          <<[Final("t", "e9") EXCEPT !.output = 8], Line("t", "e8", "m8", "r8", "v2", 5, 3)>>,
                          <<Line("t", "e5", "m1", "r2", "v2", 7, 3)>>,
                          <<Line("t", "e1", None, None, "v2", None, 3), Line("t", "e4", "m4", None, "v1", None, 3)>>,
                          <<[Final("t", "e2") EXCEPT !.output = Invalid]>>,
                          <<[Final("t", "e2") EXCEPT !.signature = "o"]>>,
                         <<Line("t", "e1", None, None, "v2", 7, 3)>>}}
      Agents == {File("agent", 3, "a", "main", l) :
                   l \in {<<Line("s", "e7", None, "r1", "v2", 7, 4), Line("s", "e3", None, "r3", "v2", 5, 4)>>,
                          <<Line("s", "e1", "m1", "r1", None, 7, 4), Line("s", None, None, None, None, None, 4)>>}}
      SomeFiles == Mains \cup Copies \cup Agents
  IN SomeFiles

MCCliFiles ==
  LET Event(type, id, parent) ==
        [type |-> type, id |-> id, parent |-> parent, session |-> None, epoch |-> 1, agent |-> None,
         valid |-> TRUE, amount |-> None, usage |-> [m \in {} |-> 0], cwd |-> None]
      Start(s, id) == [Event("start", id, None) EXCEPT !.session = s]
      Checkpoint(id, parent, amount) == [Event("checkpoint", id, parent) EXCEPT !.amount = amount]
      Shutdown(id, parent, amount, usage) == [Event("shutdown", id, parent) EXCEPT !.amount = amount, !.usage = usage]
      MN(m, n) == [x \in {"m", "n"} |-> IF x = "m" THEN m ELSE n]
      M(m) == [x \in {"m"} |-> m]
      File(locator, s, log) == [locator |-> locator, session |-> s, workspace |-> FALSE, events |-> log]
      S == Start("s", "e0")
      X1 == Shutdown("e1", "e0", 1, MN(1, 1))
      X2 == Shutdown("e2", "e1", 3, M(3))
      (* A session that goes on, forgets a model, or counts back. *)
      Originals == {File("original", "s", l) :
                      l \in {<<S, X1>>, <<S, X1, X2>>,
                             <<S, X1, Shutdown("e2", "e1", 0, MN(0, 2))>>}}
      (* Copies that stop earlier, go on otherwise, or are malformed. *)
      Copies == {File("copy", "s", l) :
                   l \in {<<S, X1>>,
                          <<S, X2, X1>>,
                          <<S, X1, Shutdown("e4", "e1", 4, MN(4, 4))>>,
                          <<S, Checkpoint("e1", "e0", 2), Shutdown("e5", "e1", None, MN(Invalid, 5))>>,
                          <<S, X1, [X2 EXCEPT !.epoch = 2]>>,
                          <<X1>>}}
      Strangers == {File("stranger", "t", l) :
                      l \in {<<Start("t", "f0"), Shutdown("e1", "f0", 1, M(1))>>,
                             <<Start("t", "f0"), Checkpoint("f1", "f0", None)>>}}
      Workspaces == {[File("workspace", "s", <<Event("workspace", None, None)>>) EXCEPT !.workspace = TRUE]}
      SomeFiles == Originals \cup Copies \cup Strangers \cup Workspaces
  IN SomeFiles

MCVscodeFiles ==
  LET Request(id, line) ==
        [copilot |-> TRUE, id |-> id, response |-> "x", models |-> <<>>, summary |-> None, retained |-> None,
         legacy |-> None, credits |-> None, control |-> None, line |-> line]
      Model(m, n) == [model |-> m, tokens |-> n]
      File(locator, place, flat, s, requests) ==
        [locator |-> locator, place |-> place, flat |-> flat, session |-> s, valid |-> TRUE, requests |-> requests]
      Both(s, requests) == {File("log", 1, FALSE, s, requests), File("flat", 0, TRUE, s, requests)}
      Q == [Request("q", 1) EXCEPT !.models = <<Model("m", 1), Model("n", 2)>>, !.credits = 1, !.control = 1]
      R == [Request("r", 2) EXCEPT !.summary = 3, !.credits = 2]
      T == [Request("t", 3) EXCEPT !.retained = 4, !.control = 5]
      Growing == Both("s", <<Q, R>>) \cup {File("log", 1, FALSE, "s", l) : l \in {<<Q, R, T>>, <<R, T>>}}
      (* Rewritten, repeated, malformed or contradicting requests. *)
      Others == {File("flat", 0, TRUE, "s", l) :
                   l \in {<<Q, [R EXCEPT !.control = 0], [Q EXCEPT !.line = 3]>>,
                          <<[Q EXCEPT !.models = <<Model("m", 1), Model("m", 2)>>], R>>,
                          <<Q, [R EXCEPT !.control = Invalid]>>,
                          <<[Q EXCEPT !.id = None], [T EXCEPT !.legacy = 1, !.control = None]>>,
                          <<[Q EXCEPT !.copilot = FALSE]>>}}
      Broken == {[File("log", 1, FALSE, "s", <<>>) EXCEPT !.valid = FALSE]}
      Strangers == {File("flat", 0, TRUE, "t", <<R>>)}
      (* Requests in another order; a request told twice. *)
      Swapped == {File("flat", 0, TRUE, "s", <<R, Q>>)}
      Twice == {File("flat", 0, TRUE, "u", <<Request("q", 1), [Request("q", 2) EXCEPT !.summary = 3]>>)}
      SomeFiles == Swapped \cup Twice \cup Growing \cup Others \cup Broken \cup Strangers
  IN SomeFiles

MCPiFiles == MCPi.files
MCPiUses == MCPi.uses
MCCounters == {"input", "total"}
=============================================================================
