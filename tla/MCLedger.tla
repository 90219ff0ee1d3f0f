------------------------------ MODULE MCLedger ------------------------------
(* The ledger, for TLC: its file from launch to launch, the processes that open
   it, how the rows of a file are written, and what becomes of sessions,
   families and the calls of Codex in it.  These are parts of Storage that meet
   in the tables only; a behaviour is about one of them, named by the variable
   "part", and the variables of the others are None.  The file and its upgrades
   are those of the module this one extends: without a launch the directory
   stays empty. *)
EXTENDS LedgerUpgrade, TLC

CONSTANTS None, r1, r2, a1, a2, o1, d1, d2

VARIABLES part,
          read,                                                  \* of SessionMerge and CodexHistories
          session, diagnostics, attribution,                     \* SessionMerge
          decision, modelDisputes, file, calls, events,          \* CodexHistories
          committed, ledger, direct, flushing, source, sources, failed,  \* BatchWrites, with pending
          stage, db, closes, seen, thread, runs                  \* Instances, with holder

tables == <<session, diagnostics, attribution>>
histories == <<decision, modelDisputes, file, calls, events>>
rows == <<committed, ledger, direct, flushing, source, sources, failed>>
upgrade == <<legacy, inode, dir, older, wal, pc, launches, kept, first, raised>>
processes == <<stage, db, closes, seen, thread, runs>>
partVars == <<part, read, tables, histories, pending, rows, holder, upgrade, processes>>

-----------------------------------------------------------------------------
(* The files that are read: readings of a session, and families. *)

Merged ==
  LET File(locator, harness, cwd) ==
        [locator |-> locator, session |-> harness, harness |-> harness, accepted |-> TRUE, body |-> <<1>>, cwd |-> cwd,
         broken |-> FALSE, started |-> 5, seen |-> 6, parent |-> None, name |-> None, others |-> {}]
      (* Sessions whose directories merge. *)
      Claude == {File("a", "claude", "d"), File("b", "claude", "e"), File("c", "claude", None),
                 [File("a", "claude", None) EXCEPT !.broken = TRUE, !.started = 3],
                 [File("b", "claude", "d") EXCEPT !.body = <<1, 2>>, !.seen = 9, !.parent = "p"]}
      Vscode == {File("a", "copilot-vscode", "d"), File("b", "copilot-vscode", "e"), File("c", "copilot-vscode", "d"),
                 [File("b", "copilot-vscode", None) EXCEPT !.started = 3, !.name = "n"]}
      Cli == {[File("a", "copilot-cli", "d") EXCEPT !.others = {"x"}], [File("b", "copilot-cli", "e") EXCEPT !.others = {"y"}],
              [File("a", "copilot-cli", None) EXCEPT !.broken = TRUE, !.seen = 8, !.body = <<1, 2>>],
              [File("c", "copilot-cli", None) EXCEPT !.started = 4, !.others = {"x"}],
              [File("c", "copilot-cli", None) EXCEPT !.accepted = FALSE]}
      Directed == Claude \cup Vscode \cup Cli
      (* Sessions whose first reading stays. *)
      Pi == {File("pa", "pi", "d"), [File("pb", "pi", "d") EXCEPT !.started = 4],
             [File("pa", "pi", "d") EXCEPT !.name = "n", !.body = <<1, 2>>],
             [File("pa", "pi", "d") EXCEPT !.name = "m", !.body = <<3>>],
             [File("pb", "pi", "e") EXCEPT !.name = "n"], [File("pc", "pi", "d") EXCEPT !.parent = "q"]}
      Codex == {[File("ca", "codex", "d") EXCEPT !.others = {"t"}],
                [File("cb", "codex", "d") EXCEPT !.session = "t", !.name = "n"],
                [File("cc", "codex", "d") EXCEPT !.session = "t", !.started = 3, !.name = "m", !.others = {"codex"}],
                [File("cc", "codex", "e") EXCEPT !.session = "t", !.body = <<2>>]}
      Headed == Pi \cup Codex
  IN [directories |-> Directed, headers |-> Headed]

Related ==
  LET File(locator, harness, id) ==
        [locator |-> locator, real |-> locator, session |-> id, harness |-> harness, accepted |-> TRUE, body |-> <<1>>, cwd |-> None,
         broken |-> FALSE, started |-> 5, seen |-> 6, parent |-> None, name |-> None, others |-> {}, refs |-> {}, thread |-> None]
      Ref(entry, kind, value) == [entry |-> entry, kind |-> kind, value |-> value, owner |-> None]
      MCSuffix == [worker |-> None, explore |-> "ag"]
      (* A Pi session that delegates to a child, a named worker and an agent; forks
         that copied its records; the child, which delegates back when it goes on; a
         rival claim, a record kept in another file, a second worker of that name;
         and another session, written over the file of the first. *)
      Records ==
        {[File("a", "pi", "main") EXCEPT !.refs = {Ref("e1", "child_path", "c")}],
         [File("a", "pi", "main") EXCEPT !.body = <<1, 2>>,
            !.refs = {Ref("e1", "child_path", "c"), Ref("e6", "child_name", "worker"), Ref("e2", "agent_id", "ag")}],
         [File("a", "pi", "other") EXCEPT !.body = <<2>>],
         [File("f", "pi", "fork") EXCEPT !.parent = "a", !.refs = {Ref("e1", "child_path", "c")}],
         [File("g", "pi", "forked") EXCEPT !.parent = "f", !.refs = {Ref("e1", "child_path", "c"), Ref("e3", "child_path", "f")}],
         File("c", "pi", "child"),
         [File("c", "pi", "child") EXCEPT !.body = <<1, 2>>, !.refs = {Ref("e4", "child_path", "a")}],
         [File("d", "pi", "rival") EXCEPT !.refs = {Ref("e5", "child_path", "c")}],
         [File("w", "pi", "one") EXCEPT !.name = "worker", !.refs = {Ref("e3", "child_path_hash", "x")}],
         [File("v", "pi", "two") EXCEPT !.name = "worker"],
         [File("x", "pi", "agent") EXCEPT !.parent = "a", !.name = "explore"],
         [File("z", "pi", "log") EXCEPT !.refs = {[Ref("e2", "child_path", "x") EXCEPT !.owner = "a"]}]}
      (* Harnesses that name the parent themselves: a Claude side chain, Copilot CLI
         agents whose file is copied and written over, Codex threads, some in a circle. *)
      Parents ==
        {File("m", "claude", "chat"), [File("s", "claude", "side") EXCEPT !.parent = "m"],
         [File("t", "claude", "chat") EXCEPT !.body = <<2>>],
         [File("k", "copilot-cli", "cli") EXCEPT !.others = {"x"}], [File("k", "copilot-cli", "new") EXCEPT !.body = <<2>>, !.others = {"x"}],
         [File("l", "copilot-cli", "cli") EXCEPT !.others = {"x", "y"}],
         File("p", "codex", "thread"), [File("q", "codex", "sub") EXCEPT !.thread = "thread", !.others = {"thread"}],
         [File("o", "codex", "low") EXCEPT !.thread = "sub"],
         [File("p", "codex", "thread") EXCEPT !.body = <<1, 2>>, !.thread = "low"],
         [File("r", "codex", "sub") EXCEPT !.thread = "gone"]}
  IN [records |-> Records, parents |-> Parents, suffix |-> MCSuffix]

-----------------------------------------------------------------------------
Placed == INSTANCE SessionMerge WITH Files <- Merged.directories, MaxRead <- 4
Headers == INSTANCE SessionMerge WITH Files <- Merged.headers, MaxRead <- 5
Records == INSTANCE SessionFamilies WITH Files <- Related.records, Suffix <- Related.suffix, MaxRead <- 5
Parents == INSTANCE SessionFamilies WITH Files <- Related.parents, Suffix <- Related.suffix, MaxRead <- 5

(* Forks of forks, and all that happens in fewer threads. *)
Counters == {"input", "total"}
Forks == INSTANCE CodexHistories WITH
  Fields <- Counters, Core <- Counters, Total <- "total", Measure <- "input", Files <- {}, MaxBatch <- 1, MaxRead <- 3,
  Threads <- {"a", "b", "c"}, Models <- {"m"}, Window <- 9, Events <- {"fork"}, MaxCalls <- 2, MaxEvents <- 2, MaxLines <- 3
Mixed == INSTANCE CodexHistories WITH
  Fields <- Counters, Core <- Counters, Total <- "total", Measure <- "input", Files <- {}, MaxBatch <- 1, MaxRead <- 2,
  Threads <- {"a", "b"}, Models <- {"m", "n"}, Window <- 9, Events <- {"fork", "repeat", "fill", "upgrade", "archive"},
  MaxCalls <- 2, MaxEvents <- 2, MaxLines <- 5

(* Two files of two owners, and two files of one session with agents. *)
Batch == INSTANCE BatchWrites WITH
  Harnesses <- {"codex", "pi"}, Roots <- {r1, r2}, Agents <- {}, Cwds <- {}, Observations <- {o1},
  Chunk <- 1, MaxSources <- 2, MaxRecords <- 2
Family == INSTANCE BatchWrites WITH
  Harnesses <- {"cli"}, Roots <- {r1}, Agents <- {a1, a2}, Cwds <- {d1, d2}, Observations <- {o1},
  Chunk <- 2, MaxSources <- 2, MaxRecords <- 1

(* Requests that end in time, and requests that do not. *)
Prompt == INSTANCE Instances WITH
  Processes <- {"p1", "p2"}, Requests <- {"r1", "r2"}, Worker <- "worker", Late <- FALSE, MaxRuns <- 2
Late == INSTANCE Instances WITH
  Processes <- {"p1", "p2"}, Requests <- {"r1"}, Worker <- "worker", Late <- TRUE, MaxRuns <- 3

ASSUME Constants ==
  /\ Placed!MergeConstants /\ Headers!MergeConstants /\ Records!MergeConstants /\ Parents!MergeConstants
  /\ Forks!FieldsHaveTotal /\ Forks!CodexConstants /\ Forks!HistoryConstants /\ Mixed!HistoryConstants
  /\ Batch!BatchWritesConstants /\ Family!BatchWritesConstants
  /\ Prompt!InstanceConstants /\ Late!InstanceConstants

NoTables == session = None /\ diagnostics = None /\ attribution = None
NoHistories == decision = None /\ modelDisputes = None /\ file = None /\ calls = None /\ events = None
NoRows == /\ committed = None /\ ledger = None /\ direct = None /\ flushing = None
          /\ source = None /\ sources = None /\ failed = None
NoUpgrade == /\ legacy = {} /\ inode = <<>> /\ dir = [ledger |-> NoFile, backups |-> {}] /\ older = {} /\ wal = NoWal
             /\ pc = [p \in Procs |-> "off"] /\ launches = 0 /\ kept = {} /\ first = NoLedger /\ raised = FALSE
NoProcesses == stage = None /\ db = None /\ closes = None /\ seen = None /\ thread = None /\ runs = None
OnlyTables == NoHistories /\ pending = None /\ NoRows /\ holder = None /\ NoUpgrade /\ NoProcesses
OnlyHistories == NoTables /\ pending = None /\ NoRows /\ holder = None /\ NoUpgrade /\ NoProcesses
OnlyRows == read = None /\ NoTables /\ NoHistories /\ holder = None /\ NoUpgrade /\ NoProcesses
OnlyUpgrade == read = None /\ NoTables /\ NoHistories /\ NoRows /\ NoProcesses
OnlyProcesses == read = None /\ NoTables /\ NoHistories /\ pending = None /\ NoRows /\ NoUpgrade

PartInit ==
  \/ part = "directories" /\ Placed!Init /\ OnlyTables
  \/ part = "headers" /\ Headers!Init /\ OnlyTables
  \/ part = "records" /\ Records!Init /\ OnlyTables
  \/ part = "parents" /\ Parents!Init /\ OnlyTables
  \/ part = "forks" /\ Forks!HistInit /\ OnlyHistories
  \/ part = "mixed" /\ Mixed!HistInit /\ OnlyHistories
  \/ part = "batch" /\ Batch!Init /\ OnlyRows
  \/ part = "family" /\ Family!Init /\ OnlyRows
  \/ part = "upgrade" /\ Init /\ OnlyUpgrade
  \/ part = "prompt" /\ Prompt!Init /\ OnlyProcesses
  \/ part = "late" /\ Late!Init /\ OnlyProcesses

InTables == UNCHANGED <<part, histories, pending, rows, holder, upgrade, processes>>
InHistories == UNCHANGED <<part, tables, pending, rows, holder, upgrade, processes>>
InRows == UNCHANGED <<part, read, tables, histories, holder, upgrade, processes>>
InUpgrade == UNCHANGED <<part, read, tables, histories, rows, processes>>
InProcesses == UNCHANGED <<part, read, tables, histories, pending, rows, upgrade>>
PartNext ==
  \/ part = "directories" /\ Placed!Next /\ InTables
  \/ part = "headers" /\ Headers!Next /\ InTables
  \/ part = "records" /\ Records!Reading /\ InTables
  \/ part = "parents" /\ Parents!Reading /\ InTables
  \/ part = "forks" /\ Forks!HistNext /\ InHistories
  \/ part = "mixed" /\ Mixed!HistNext /\ InHistories
  \/ part = "batch" /\ Batch!Next /\ InRows
  \/ part = "family" /\ Family!Next /\ InRows
  \/ part = "upgrade" /\ Next /\ InUpgrade
  \/ part = "prompt" /\ Prompt!Next /\ InProcesses
  \/ part = "late" /\ Late!Next /\ InProcesses
PartSpec == PartInit /\ [][PartNext]_partVars

-----------------------------------------------------------------------------
(* Properties. *)

(* Every variable of a part has its type. *)
TypesOK ==
  /\ part = "directories" => Placed!TypeOK
  /\ part = "headers" => Headers!TypeOK
  /\ part = "batch" => Batch!TypeOK
  /\ part = "upgrade" => TypeOK
  /\ part = "prompt" => Prompt!TypeOK

(* One process uses the ledger.  With requests that end in time the data lock
   covers all use of it; with late ones too, which may open it again after
   close, a process that serves finds no import but its own in progress. *)
OneProcess ==
  /\ part = "prompt" => Prompt!LockCovers
  /\ part = "late" => Late!ServesOwnRuns

(* The rows of a file are deferred and inserted in groups: between two files
   the tables hold what inserting each row at once would have put there, no row
   is ever there before the one it belongs to, a file is in the database as a
   whole or not at all, and no session of a family that moved has a directory. *)
SameAsDirect ==
  /\ part = "batch" => Batch!SameAsDirect /\ Batch!ParentsFirst /\ Batch!WholeFiles
  /\ part = "family" => Family!SameAsDirect /\ Family!FamilyUnplaced

(* The readings of a session may come in any order.  Its directory is the one
   they all agree on, its times span them, its agents are nowhere it is not;
   readings that contradict each other on a header are noticed, and a name that
   is shown is what was read last. *)
OrderFree ==
  /\ part = "directories" => Placed!OrderFree /\ Placed!Spans /\ Placed!AgentsFollow
  /\ part = "headers" => Headers!HeadersNoted /\ Headers!NameTold

(* Families are trees, whatever order files come in and whatever circles they
   tell of.  A fork does not take over what the session it copied delegated, a
   delegation is in its owner's family or the report says why not, and an agent
   is in the family of the session that started it. *)
Trees ==
  /\ part = "records" => Records!Trees /\ Records!ForksOwnNothing /\ Records!Explained
  /\ part = "parents" => Parents!Trees /\ Parents!AgentsAtHome

(* What is settled stays settled: a disputed name is not shown again, a project
   is not that of a directory given up, a session changes its owner only for
   the one its owner was forked from; an import is cut off by the death of its
   process only, and a run that has ended stays so. *)
Settled ==
  [][/\ part = "directories" => Placed!ProjectOfDirectory
     /\ part = "headers" => Headers!NamesStay
     /\ part = "records" => Records!Resettled
     /\ part = "prompt" => Prompt!OnlyKilledInterrupted
     /\ part = "late" => Late!EndsOnce]_partVars

(* However often a call of Codex is recorded, copied to forks, repeated, stamped
   anew, archived or read half written: it never counts twice once its own file
   was read so far, nothing else counts, every call counts when all files have
   been read to their ends, for its thread and at its model; and a call that
   counts goes on counting whatever is read later. *)
CallsCount ==
  /\ [](/\ part = "forks" => Forks!NeverTwice /\ Forks!EveryCall
        /\ part = "mixed" => Mixed!NeverTwice /\ Mixed!EveryCall /\ Mixed!OnlyCalls)
  /\ [][part = "forks" => Forks!StaysCounted]_partVars
=============================================================================
