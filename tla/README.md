# Harness Usage in TLA+

Harness Usage (published as `report-usage`) is a local web application. It reads
the history files that coding agents leave on disk, imports them into one DuckDB
ledger, decides which recorded usage counts and which is a copy, and reports it.
This directory specifies the parts of it where order, failure and concurrency
matter, checks them with TLC and proves the central facts with TLAPS. Paths below
are relative to the repository; `harness_usage/` stands for
`src/harness_usage/`.

- [Inventory](#inventory) - the system's parts and what makes each correct
- [Modules](#modules) - what models what
- [Runs](#runs) - what is checked, with which bounds
- [Proofs](#proofs) - what is proved and along which argument
- [Findings](#findings) - where code and documentation disagree
- [Outside the models](#outside-the-models) - what is external, abstracted or left out
- [Plan](#plan)

## Inventory

One process serves one data directory. Its threads are the main thread (launch,
shutdown), the server's thread pool (one thread per request, one poll at a time
per event stream) and at most one import worker. Shared state is the DuckDB file
behind one re-entrant writer lock, `sources.json`, and three fields of the
`Application` object: `_worker`, `_progress` and the locks around them.

| Component | State | Operations | Interacts through | Hard because | Correct when |
| --- | --- | --- | --- | --- | --- |
| Import service (`application.py`) | `_worker`, `_progress`, `_lock`, `sources.json` | `set_roots`, `start_import`, `status`, `_import`, `close` | calls from web threads; a worker thread | two locks, a thread that outlives its run, failures in `finally`, death at any point | one run at a time over the saved sources, every run ends, statuses are coherent and never go back |
| Run ledger (`storage.py` 217-275) | table `import_run` | `begin_import`, `advance_import`, `finish_import`, `interrupt_runs`, `import_status` | transactions | a crash leaves a running row | a row ends once; only the newest can be running; `files_processed` counts what was committed |
| Source scan and generations (`application.py` `_scan`, `storage.py` 277-560, 995-1030) | `source_locator`, `source_generation`, `ledger_meta.revision` | `import_sources`, `mark_missing`, `snapshot`, `report_input` | files other programs write | files change between listing, reading and committing; partial scans; upgrades | the ledger ends up showing the files; nothing is lost or falsely missing; the revision tells reports apart |
| Ledger file and migrations (`migrate_sqlite.py`, `migrate_duckdb.py`, `Storage.__init__`) | files of the data directory | find, copy, back up, replace, open | rename, link, fsync, DuckDB's log | death and power failure between any two file operations | no committed row is lost; leftovers refuse no launch; the old ledger is kept |
| Launch and data lock (`__main__.py`) | `runtime.lock` | `main`, `data_lock` | flock | two launches at once | one process per directory |
| Session merging (`storage.py` `_import_source`) | table `session`, diagnostics | merge a generation into its session | import order | conflicting cwd, name, start | a conflict is sticky and independent of order |
| Accounting (`accounting.py`, `codex_accounting.py`, `claude_accounting.py`, `copilot_*_accounting.py`) | tables `observation`, `entry_edge`, `decision` and the evidence of each harness | `reconcile` per source | tables | copied, forked, resumed and cyclic histories | every use is counted once, whatever the order of import |
| Incremental reconciliation (`storage.py` `_affected_sessions`, `_reconcile`) | the same tables | close over dependencies, reconcile the affected | import transaction | a missed dependency leaves a stale decision | equals a full reconciliation |
| Session families (`storage.py` `_families`) | `session_family` | owner of each delegated session | import transaction | cycles, several claims | a root per family, no cycle |
| Readers (`*_reader.py`, `codex_paginated.py`) | none across files | parse bytes into a payload | called by the scan | counter epochs, pagination | the documented meaning of each format |
| Reporting (`reporting.py`, `aggregate_reporting.py`, `pricing.py`, the ranges in `web.py`) | none | filter, bucket, price, page | ledger snapshot | two implementations, unknown values, clocks that change | the two agree, totals agree with their parts, buckets tile the range |
| Web server (`web.py`) | none of its own | routes, `/events` | import service, reports | polling stream | answers reflect the ledger |
| Live page (`static/app.js`) | what the page shows | reload on status events | `/events`, Unpoly | events during a reload | the page ends up current |
| Transcript access (`transcript_access.py`) | none | find, read and check a file of a session | file system, ledger | the file is being written, moved, imported | one state of one file of the session, or an error |
| Transcripts (`*_transcript.py`, `codex_paginated.py`, `transcript_tools.py`) | none | parse a file, merge copies, choose a branch | bytes read | one thing recorded in several ways, branches, circles | everything said is shown, once |
| Batch adapter (`database.py`) | rows waiting per statement | defer, group, flush, roll back | DuckDB | order among tables, failure between chunks | as if each row were inserted at once |
| Project discovery (`discovery.py`) | none | `resolve_project` | git, file system | runs between two transactions | attribution belongs to the cwd it was read for |

The hazards, each at its line with the properties that watch it, are listed in
`PROJECT.json`, and so is how much of each component is modelled.

## Modules

A module models a component at the code's own grain: an action is a handler, a
transaction, a pass over one line, or a step between two points where another
thread can run. Suites (`MC*`) put instances of several modules beside each other;
see [Runs](#runs). MCLiveness extends ImportRuns, MCLedger LedgerUpgrade, MCContents
TranscriptAccess and MCAccounting Accounting: their constants get values in the configuration, and
the theorems about them are about the very properties the runs check.

| Part | Modules |
| --- | --- |
| Program | RunLedger, ImportRuns, Instances, LiveReport |
| Ledger | SourceLedger, LedgerUpgrade, BatchWrites, SessionMerge, SessionFamilies |
| Accounting | PiAccounting, CodexReader, CodexAccounting, CodexHistories, ClaudeReader, ClaudeAccounting, CopilotCliReader, CopilotCliAccounting, CopilotVscodeReader, CopilotVscodeAccounting |
| Reading | PiReader, ChatReplay (and the readers above) |
| Transcripts | TranscriptAccess, TranscriptTools, CodexTranscript, StoredTranscript, PiTranscript, ClaudeTranscript, CopilotCliTranscript |
| Reports | UsagePricing, UsageReport, TimeAxis |
| Suites | Accounting with MCAccounting, MCImportRuns, MCSourceLedger, MCLiveness, MCLedger, MCContents |
| Proofs | ImportRunsProofs, LiveReportProofs, SourceLedgerProofs, LedgerUpgradeProofs, InstancesProofs, LineageProofs, AccountingProofs, TranscriptAccessProofs |

### RunLedger - the promise

`config`, `history` and `up`: the saved sources, the rows of `import_run`, and
whether a process runs. Runs begin one at a time over the sources saved at that
moment; sources do not change under a run; a run ends once, or is interrupted by
the next launch. It knows nothing of threads and is the abstract specification of
ImportRuns.

### ImportRuns - threads, lock, worker, crash

| State | Code |
| --- | --- |
| `runs` | the rows of `import_run` (with two history fields: the roots of the run, the payloads committed) |
| `config` | `sources.json` |
| `proc` | the process: launching, serving, draining, gone |
| `lock` | `Application._lock` and who holds it |
| `wpc`, `job` | the worker thread: where it is in `_import` and `_scan`, and their locals |
| `progress` | `Application._progress` |
| `pc`, `arg`, `row`, `answer` | each web thread (and the main thread): where it is in `set_roots`, `start_import` or `status`, its locals, the last status a poller got |

A DuckDB transaction is one action, since writers share a lock and readers see a
snapshot; everything between two transactions, lock operations or file
operations is a place where other threads run. `RootsLock`, `RootsCheck`,
`RootsWrite` are `set_roots`; `StartLock`, `StartCheck`, `BeginImport`,
`PublishProgress`, `SpawnWorker` are `start_import`; `ReadRow`,
`AttachProgress` are `status`; `EnterScan` to `WorkerExit` are `_import` with
the generator `_scan` it pulls payloads from; `Launch` and `Serve` are
`main`; `Shutdown`, `Exit` are the server's end and `close`. `Faults` names the
operations that may fail, so that a run says which failures it allows. When
`Thread.start` or `finish_import` fails, the row of the run stays running without a
thread (`Owned`): `StrandedWaits` says what such a row may and may not see until the
next launch.

### Instances - launches on one directory

Several launches of the program contend for `runtime.lock`; each serves requests,
any of which opens the ledger when it finds none open, then closes it twice (at the
end of the server and again at the end of `main`). `stage` is where `main` is,
`holder` who has the lock, `db` the connection, `thread` what each request and the
worker are at. With `Late` requests outlive the seconds the server waits for them.
What imports do is left to ImportRuns. If requests end in time the lock covers all use
of the ledger. If they do not, a late request may open the ledger again, or start an
import, after `close`; DuckDB's own file lock then keeps the processes apart, and a
late worker may still commit a batch under a run that the next launch has marked
interrupted. The properties say which of the promises survive this.

### LiveReport - the page

The server's status, the event stream with the statuses on their way, the report in
the page, and the four variables of `app.js` (`importing`, `latestRevision`,
`refreshing`, `retryTimer`). `Poll` and `Reconnect` are the stream; `Receive`,
`Loaded`, `ReloadFails`, `Timer` and `RefreshReport` are `app.js`; `Click` and
`Insert` are what Unpoly does with navigation, which aborts a reload. Unpoly's cache
is left out. A click to a report whose answer is older than the report already
reloaded is dropped.

### SourceLedger - files, scan, generations

The file system (`disk`, `mounted`) changes at any time under an import that
walks the roots, reads a file, then its sidecar, fills a batch, commits it,
flags what was not found, saves projects and titles and ends. A sidecar that is there but
cannot be read, or is too large, ends the scan as an unreadable file does. A payload is a file's bytes and its sidecar's;
what a reader makes of them is a function of the two and of the reader's profile,
so a generation is identified with them. Four kinds of readers differ in what an
upgrade asks of an unchanged file: Claude and VS Code read it again
(`reprojected`), Pi only scans its delegations again (`rescanned`), Codex and
Copilot CLI keep it, unsupported files are skipped. `told` is what git says of the
sessions' directories and the index of Codex of their titles, and may change at any time;
`SaveAttributions` and `SaveTitles` save it in two transactions, after a scan that
failed too, and keep what was saved where nothing is told. `touched`, `retold`,
`settled` and `base` are history variables for the properties.

### LedgerUpgrade - the ledger file

Names and inodes of the data directory, the write-ahead log, the lock file and
the processes at work. A launch looks for the ledger, migrates a SQLite ledger
(copy, sync, link to the name, fsync, open) or a schema-5 DuckDB ledger (copy,
sync, back up under a name made of its digest, replace, fsync, open), and creates
the tables. Processes die between any two file operations; power failures undo
directory operations since the last fsync and tear files that were not synced.

### BatchWrites - deferred rows

`Connection.batch` puts the inserts of a file in one list per statement and sends
them in chunks when the file is done. A row is its table, its key and the rows it
refers to. `direct` holds what inserting each row at once would have given, and is
not part of the program. Any statement may fail, which rolls the transaction back.
`Chunk` is 16384 in the code and 1 or 2 here, so that a file takes several chunks.

### SessionMerge, SessionFamilies - sessions from readings

A session is what its files, in all their generations, say of it; they may disagree
and come in any order. SessionMerge models what `_import_source` does with
the row of the session for every harness: directory, times, parent, name, diagnostics, and the project that
`_assign_projects` keeps or replaces for what git answers. SessionFamilies adds the
links from the session that delegates to the one that was started, and `_families`, which finds owners
and roots from all links whenever a report is built.

What the models make visible, and no document forbids: a VS Code session whose
directory or creation date differs from another reading's does not advance its last
activity; a Copilot CLI agent stays without a directory when its parent gets one
later; a file that returns with the same bytes after it was missing is a new
generation.

### Accounting

Each module has one action, `Import`: the transaction of `import_sources`
for a batch of files. It inserts what the reader made of each file (`Inserted`),
closes over what may depend on it (`Affected`, `_affected_sessions`) and decides
again for the sessions it reaches. Operators take the tables as an argument, so that
`Import` applies them to the tables after the insertions. A decision is the
observation itself when it is selected, the one it is excluded for, or `None` when
it is unresolved. `Incremental` compares the tables with those that deciding
everything anew would give. Accounting puts the five beside each other, as `_reconcile`
does: each decides from its own rows, so a behaviour is about one of them, named by `harness`,
and its properties are those of all five.

**PiAccounting.** A Pi session that is forked or resumed begins with a copy of its parent's entries,
so one use may be recorded in many files. `ledger` holds the tables the accounting
reads: the retained generations (`sources`), the header each session was first
imported with, the sessions with a `header_conflict`; `decision` is the table of
that name. `Import` is the transaction of `import_sources`:
`_import_source` for each file of the batch (`Inserted`), `_affected_sessions`
(`Affected`), and `_reconcile` for the sessions it reaches, whose rule is
`accounting.reconcile` (`Select`, with `MatchingPath` for `matching_path` and
`Stops` for the walk over a session's ancestors). The operators take the tables as
an argument, so that `Import` applies them to the tables after the insertions.

`decision[o]` is `o` itself when the use is selected, the use it is excluded for, or
`None` when it is unresolved. The code decides six measures one by one with the same
rule; one is modelled, and a use is its value and its kind. A fingerprint also holds
the entry's parent, which `MatchingPath` compares anyway. The recursion of `select`
and the loops are recursive functions with a bound on their steps: there are no more
ancestors than sessions, and no path longer than the entries are many. Files whose
content is already retained are not imported again, since what that would insert is
there.

**CodexReader, CodexAccounting, CodexHistories.** A rollout tells of a call in one
dialect (running totals that name nothing), in another (response records that name
their thread and turn), or in both; forks begin with a copy. The reader turns lines
into rows; the accounting finds mirrors of one call, replayed prefixes, responses two
threads claim, and disputed models. CodexHistories composes both with Codex writing:
threads make calls, repeat counts, fill their context, fork, are upgraded and archived
while imports read the files as far as they are written, a half-written line included.
Its properties are about calls and not about rows: none counts twice once its file
has been read up to it, and each counts once all files have been read. Two
forks that copied lines written after their parent was last read both count that
call until the parent is read again, hence the condition. Two calls right after a
fork whose counters are identical would be taken for one.

**ClaudeReader, ClaudeAccounting.** A call is several lines with the same message,
request or entry, in several files, and readings of the same file by an earlier reader.
What is connected is one call; outputs are final only from versions of Claude Code that
write final ones.

**CopilotCliReader, CopilotCliAccounting.** Each control event repeats the counters of
the whole session, so the last one counts for each model, if the files prove which is last.
Files may vanish, be copied and go on differently.

**CopilotVscodeReader, CopilotVscodeAccounting.** A request tells its tokens by model
or by a summary, its credits by itself or in the session's running total. A session
may be in a log and in a flat file. A request without a name has at most one model
without a name in the model.

### PiReader, ChatReplay

PiReader is `read_pi`, which reads everything, beside `read_metadata`, which a newer
version uses to backfill titles and links from files that did not change: two loops
written apart over the same lines. ChatReplay is the log of operations that VS Code writes
for a chat: the value it builds, and the line that last wrote each place in it,
by which requests are told apart from copies.

### Transcripts

TranscriptAccess follows one request from the ledger to the answer while files are
written, replaced, moved, removed and imported. Which files are tried, and in which order,
differs by harness (`Candidates`, `Before`): of VS Code those that are available and
of which something counts (any of them may be, since the accounting is not part of this
model), logs first; of the CLI those that are available, and of an agent the file it was first
found in; of the others all that are of the session, those that are available first, then by length and
path. It assumes that each change of
a file gets a later timestamp. A copy that is not of the session, or is empty, ends the
search for harnesses whose parser is asked about it, although another copy would do.

The others model parsers. CodexTranscript (legacy rollouts) and StoredTranscript
(paginated ones), on top of TranscriptTools: which records are hidden as copies of
others, and inside which call a result is shown. PiTranscript: parents,
circles, branches, labels and the results on a branch. ClaudeTranscript: the chain
of entries from the leaf that is chosen. CopilotCliTranscript: requests, starts and completions of calls in
two passes. In legacy rollouts identical messages within the window are
ambiguous and all shown, with a warning. The chain of a Claude session ends at a
compaction, whose parent is null. A CLI completion recorded before the message that
requests its call is shown nowhere.

### UsagePricing, UsageReport, TimeAxis

UsagePricing is `pricing.py` with the states of a value (known, unknown, invalid,
not applicable). UsageReport holds both reports, `build_report` row by row and
`build_aggregate_report`, which lets the database group first and which the page
shows. The ledger grows; then the reports of every query are built side by side.
Each has its own test of the range, its own search for the bucket, its own totals and
its own warnings: `Codes` and `Facts` go through a row as `_coverage_facts` does,
`Conditions` and `ConditionCodes` are the predicates of the SQL statement, over tokens and quantities.
TimeAxis turns presets and dates into instants and walks the buckets in a zone whose
clocks change.

### Mutation operators

Definitions introduced by a comment with "Slip" are plausible mistakes
in the code (a dropped check, a step in the wrong order). No specification uses
them. Each stands before the definition it would replace, and replacing it makes
TLC find a property violated. `PROJECT.json` lists one for each property of a run;
the others do the same for the single conjuncts of the suites' properties.

## Runs

Twelve runs, eight of which must find nothing. The suites gather modules whose
states do not touch each other (`Storage._reconcile` calls one accounting after the
other, each on its own rows; parsers keep no state at all). A behaviour of a suite is
about one part, named by the variable `part` or `harness`, and the variables of
the other parts are `None`: the state space is the sum of the parts, and each
conjunct of a property names the part it is about.

| Run | Instance | States | Shows |
| --- | --- | --- | --- |
| `service` | 2 clients, 2 source lists, 2 files, batches of 1, 2 runs | 630 thousand | sources never change under a run; a running row is owned; saved sources get imported; ImportRuns implements RunLedger |
| `status` | 1 client, 1 poller, 3 files, batches of 2, every fault | 4.6 million | statuses are coherent and monotone though read in two steps; `files_processed` is what was committed; a run that lost its thread waits for the next launch |
| `session_files` | session, sidecar and a file two roots share, 2 changes, 1 upgrade, 2 runs | 6.5 million | a succeeded run shows the files; nothing is falsely missing |
| `histories` | 2 histories under 1 root, 1 project and title, 2 changes, 1 upgrade, 3 runs | 3.4 million | generations are kept, re-imports are idempotent, the revision tells reports apart |
| `liveness` | MCLiveness: 2 clients, 1 source list, 2 runs; a page with 2 revisions, 1 click, 1 failure, 1 reconnection | 200 thousand | runs end, nothing hangs, the page catches up |
| `accounting` | MCAccounting: five harnesses | 61 thousand | deciding part equals deciding all; a use counts once, on evidence, undisputed, by its last word |
| `ledger` | MCLedger: LedgerUpgrade and ten instances of five modules | 800 thousand | upgrades lose nothing; one process; batches change nothing; order changes nothing; families are trees; calls of Codex count once |
| `contents` | MCContents: TranscriptAccess and 20 instances of nine modules | 6.8 million | transcripts show everything, once, and the last branch; a file is shown whole; the two reports agree; buckets tile |
| `refresh_dropped`, `retry_stuck` | 1 client | violation | see Findings |
| `claude_last_word`, `stored_reasoning` | MCContents | violation | see Findings |

### Why the bounds are enough

**service, status.** Two clients give every order of two requests against
the worker; a third would be like one of them, since each holds at most the one
lock. Two source lists are what a conflict takes. Three files with batches of two
give a full batch, a short last batch and, with unsupported files, an empty one.
Two runs give a run and its successor, with any crash between; rows
never interact further than neighbours. The faults of `service` and `liveness`
(`AccountedFaults`) leave out the failures of `Thread.start` and
`finish_import`, after which a running row has no owner: `status` allows them all,
and `retry_stuck` shows what follows.

**session_files, histories.** Two changes let a file vanish and return, change after
listing and again after reading, or combine a change of a file with one of its
sidecar, of a root or of what git or Codex tells; a name told and withdrawn is kept; three runs put a failed
one between two others; one upgrade separates two profiles.

**accounting.** Files are drawn from tables that hold, for each harness, a family
(parent, child, grandchild, copy) in the variants the code tells apart, and oddities
(missing names, conflicts, malformed values). Three files, four for Pi, in
batches of one or two are what a conflict between two files takes with a third that
arrives before, between or after them; four make a chain of three Pi sessions with a
second generation of one of them.

**ledger.** *upgrade*: 2 processes, 2 old and 2 new rows, 4 launches, three of which
may be cut off; one row may be in the file and one in the log. *prompt*: 2 launches
with 2 requests each; *late*: requests that outlive the server, 3 runs. *batch*,
*family*: 2 files of 2 records, chunks of 1 and 2. *directories*, *headers*,
*records*, *parents*: up to 5 readings in any order, from tables that hold agreeing,
disagreeing, partial, broken and rewritten files. *forks*: 3 threads, so a fork
of a fork, 2 calls, 3 readings; *mixed*: 2 threads and every event, 2 of them.

**contents.** All files of up to 3 to 5 lines over the records a rule tells apart; a rule
that compares records compares two, and a third line stands between, before or
after them. `Window` is 2 lines and not 4, so that records inside and outside it fit
in a file. *access*: a session each of Pi, VS Code and the CLI, and an agent of the latter, 2 paths, one of
them a log, 3 inodes, 2 changes, 1 generation: a
file may be replaced and then written, or moved and imported. *sums*: ledgers of up to
three of seventeen rows, which between them have each state of a value, each
decision, tiers, unknown and broken prices, each kind of time; *sorted*: sessions
of three owners, with ties and without a start, for sorting and paging. *axis*: a zone without changes, one that skips an
hour, one that repeats an hour (over midnight, and not), one whose summer differs by
an offset, one that changes by half an hour; all presets and all entered dates of the
interval, at every present.

Deadlock is checked in `service`, `status`, `session_files` and `histories`; there the
process is left off at `MaxRuns` (`LeftOff`) or the report can always be read. The
suites set `CHECK_DEADLOCK FALSE`: an accounting stops after `MaxRead` files, a
parser at the end of its file, a page when nothing is to be shown.

### Fairness

`FairSpec` of ImportRuns assumes weak fairness of the worker, of each request thread,
of `Serve` and of `Exit`: an operating system schedules a thread that can run,
and no thread here is disabled again and again by others except through
`_lock`, which the holder releases within finitely many of its own steps. Weak
fairness is enough for `LockReleased`, which speaks of the holder; that a
particular waiter gets the lock would need strong fairness, which
`threading.Lock` does not promise, and no property claims it. `ShutdownEnds`
holds because no new request is accepted while draining. Nothing
forces a request, a launch, a shutdown or a crash.

`FairSpec` of LiveReport assumes weak fairness of the poll (a timer of the stream), of
the server's answers, and of what is due in the page (messages, answers and timers).
Imports, clicks, failures and reconnections need not happen, and are bounded.
`CatchesUp` speaks of behaviours in which imports and clicks end, and leaves out those where a status
overtook a reload, see Findings. MCLiveness assumes both.

## Proofs

TLC checks the instances above; the theorems hold for every number of threads,
source lists, files, roots, runs, versions and every batch size.

**ImportRunsProofs.** The inductive invariant is `CoreInv`. `RootsStable` alone is
not inductive: that `start_import` hands the worker the saved roots depends on
nobody having saved others between reading them and starting the thread, so
`LockDiscipline` says who holds the lock where and that a thread about to begin has
read the present sources; `WorkerRun`, `StarterRun` and `OnlyNewestRuns` tie the
worker and the starter to the newest row, which `begin_import` needs to refuse
rightly; `DownIsQuiet` makes a launch start from nothing. The step case has one
lemma per group of actions (requests, threads, worker, process).

- `TypeCorrect`: `Spec => []TypeOK`, including that an error code is set exactly
  on failed and interrupted runs.
- `RootsStayStable`: `Spec => []RootsStable`, whatever fails.
- `RunningStaysOwned`: `Spec => []RunningIsOwned`, assuming `NoStranding`: neither
  starting the thread nor `finish_import` fails. The assumption is needed: the two
  failures are exactly what leaves a row without an owner.
- `StrandedRunsWait`: `Spec => StrandedWaits`, whatever fails. A row left running by one of
  these failures is neither taken up nor ended by any request, none begins beside it, and
  the next launch marks it interrupted. `StrandedStep` shows it of one step, from `CoreInv`.
- `RunsImplementLedger`: `Spec => Promise`, under the same assumption: each step of
  ImportRuns is a step of RunLedger or a stutter under the refinement mapping
  (`config`, the visible fields of `runs`, `proc # "down"`).
- `CommittedIsCounted`: `Spec => []ProcessedIsCommitted`. `Counted` ties the counter of
  the newest row to what the worker holds at each of its steps: the row is behind
  by the last batch at most.
- `AnswersAreConsistent`, `AnswersNeverRegress`: `Spec => []AnswersConsistent` and
  `Spec => AnswersMonotone`, whatever fails. A status is read in two steps, the row and
  then the progress; `Checked` relates the progress to the row and the worker, and `RowsArePast`
  and `AnswersArePast` say of the row a poller has read, and of its last answer, that
  they are a past state of their run, and which is the later.
- `SavedRootsAreServed`: `Spec => []SavedRootsServed`, assuming `NoneLost`: `NoStranding`,
  and `begin_import` does not fail after sources were saved. By `SavedAreServed` the
  newest run is one over the saved sources, or a thread is on its way to begin it.

**SourceLedgerProofs.** Types first (`TypeCorrect`); then, from lemmas saying what a
commit and `mark_missing` do to each file's generations:

- `GenerationsRetained`: `Spec => Retained`. No generation is lost, altered or made
  available again.
- `RevisionTellsReports`: `Spec => []SameRevisionSameReport`, from the invariant
  that a report is never of a later revision than the ledger's (`ReportIsOld`). Generations,
  projects and titles are in it.
- `NothingFalselyMissing`: `Spec => NoFalseMissing`, from the invariant
  `NothingOverlooked`: at every stage of a scan without error, an untouched file
  that is there is listed, being read, waiting in the batch, or found. It is needed
  because `mark_missing` itself only sees what was found.
- `RunsShowTheFiles`: `Spec => []Complete`. `Faithful` follows each file nobody touched
  through the scan: listed, it can be read; read, the payload is its present bytes with
  those of its sidecar; found, it is displayed.
- `ImportingAgainIsIdle`: `Spec => []Idempotent`. What a run that succeeded showed
  stays shown through later runs over the same roots, and what it was told stays saved
  (`Noted`), so that they move the revision no further (`SettledIsShown`).

**LedgerUpgradeProofs.** `UpgradeInv`, for any number of processes, launches and rows, says of
the directory, and of each older one a power failure may bring back, that its ledger is
synced and shows every committed row, and that backups hold what they are named for
(`FilesSafe`); and of every launching process what it has found and that its copy is one of
the ledger it started from (`Prepared`).

- `UpgradeTypes`: `Spec => []TypeOK`.
- `UpgradesAreSafe`: `Spec => []UpgradeSafe`: no committed row is lost, a replaced
  ledger is among the backups, and leftovers refuse no launch.

**InstancesProofs.** For any number of processes, requests and runs. `CoreInv`: the
stages of `main` agree with who holds the lock and with the state of the connection.
`PromptInv` adds, when requests end in time (`~Late`), that threads are at work only
while the lock is held (`Guarded`), and that a run in progress is the last of its process, which
is at work on it or was killed (`Owned`).

- `ProcessTypes`, `OwnRunsOnly` (`[]ServesOwnRuns`), `RunsEndOnce`
  (`[][EndsOnce]_vars`): whether or not requests are late.
- `LockCoversUse` (`[]LockCovers`), `OnlyDeathInterrupts`
  (`[][OnlyKilledInterrupted]_vars`): assuming `~Late`. A late request does open the ledger
  after the lock is gone; what then still holds is the first group.

**TranscriptAccessProofs.** `AccessInv`, for any files, limit and writers: while a file
is read and its stamp has not moved, what was read is the beginning of all the file ever
held meanwhile (`Watched`); in a quiet time the sources that were skipped could not be
shown (`Quiet`); what is shown was all of the file at one moment (`Honest`), and what
is not shown could not be (`Fair`).

- `AccessTypes`: `Spec => []TypeOK`.
- `WholeFilesShown`: `Spec => []ShownWhole`: an answer is one state of one file of the
  session, and no file is called missing that was there all the time.

**LiveReportProofs.** `PageInv`, for any number of revisions, clicks, failures and
reconnections: the statuses on their way are in order, none behind what the page was told last
nor ahead of the server (`StreamInv`), and a reload in flight is of the report that is shown and,
once served, no older than what the page was told of, unless a status overtook it
(`ReloadInv`). `Remembered` alone is not inductive: that a loaded report leaves nothing undone
depends on both.

- `LivePageTypes`: `Spec => []TypeOK`. `ReportsNeverOlder`: `Spec => NeverOlder`.
- `ReportsRemembered`: `Spec => []Remembered`, the safety half of `CatchesUp`.

**LineageProofs, AccountingProofs.** The accounts of all five harnesses, for any files in any
order and batches, files that are rewritten and files that vanish included. The theorems are
about `Spec` of Accounting, and about the very properties the run `accounting` checks:

- `SuiteDecidedAsAll`: `Spec => []Incremental`. What `_affected_sessions` reaches is enough:
  after every transaction the tables hold what deciding everything anew would give.
- `SuiteTypes`, `SuiteCountsOnce`, `SuiteLosesNothing`, `SuiteProvesCopies`, `SuiteLastWord`,
  `SuiteUndisputed`: `Spec => []P` for `TypeOK`, `CountedOnce`, `NothingLost`, `CopiesProven`,
  `LastWordCounts` and `UndisputedOnly`.
- `CliDecidedAsAll`, `VscodeDecidedAsAll`, `ClaudeDecidedAsAll`, `ClaudeAccountsTypes`,
  `ClaudeCallsCountOnce`, `ClaudeExcludedIsCounted`, `ClaudeFinalOutputsWin`,
  `ClaudeReadingAgainHeals`: the same of the modules of single harnesses.

The inductive invariant `SuiteInv` has a part for each harness (`PiInv`, `CodexInv`,
`ClaudeTypesInv`, `CliInv`, `VscodeInv`), and each is the same idea: what is read are
readings of files, consistently kept (Pi: each session read has the header it was first
imported with, and headers that differ are recorded as conflicts; Copilot: the generations of a
place are numbered), and the decisions are those of deciding everything. None of the other
properties is inductive, because an import decides part of the sessions and says nothing
of the rest. Once `Incremental` holds, each of them is a statement about one full
reconciliation of what is read, and no longer about time. The argument has four layers:

1. *Rounds and recursions.* The code computes what is connected in loops until nothing is
   added. For any relation over a finite set, as many rounds as it has members give the
   least set closed under it (`ConnectedInRounds`, `LinkedInRounds`, `ReachIsWhole`). Induction is done on the
   least element of a set of numbers (`LeastNumber`, from `WFMin`), since the library's
   induction theorems cannot be used. A recursive function given by a `LET` exists
   (`StepsExist`, `PiSelectionExists`, `CodexReadingExists`, `CodexChaseExists`), a line of ancestors that
   does not end runs in a circle (`Revisits`, `PiLineTurns`, `CodexLineTurns`), and a search that goes
   upwards ends (`PiStopsAt`, `CodexChase`).
2. *Locality.* What is decided of a set of sessions depends on nothing but the rows of those that are
   connected with it (`PiAlikeSelect`, `CodexSplitDecides`, `ClaudeOutsideScope`,
   `ClaudeInsideScope`, `CliSameDecide`, `VscodeUntouched`).
3. *Reach.* No row outside the sessions that the closure reaches from the changed files is connected
   with one inside, before or after the import (`PiReaches`, `CodexAffected`, `CliAffected`,
   `VscodeAffected`). With 2., deciding those is deciding everything (`PiDecidedAsAll`,
   `CodexImported`, `CliScopeDecidesAll`, `VscodeScopeDecidesAll`).
4. *Full reconciliation.* Pi: where an observation leads, through chains of forks of any length
   (`PiStandsOn`), histories agree entry by entry (`PiPathMatches`). Codex: what holds along every favour from candidate
   to candidate holds of the decision (`CodexAlong`), which gives who is counted
   (`CodexCounted`) and what a copy is a copy of (`CodexInheritedOnly`). Claude: a call has one canonical row,
   which names it and is final if any such row in force is. Copilot CLI: events without a
   circle have a last one (`CliSink`), and it is the largest (`CliLastIsLargest`). VS Code:
   the first of the files that agree is the canonical one (`VscodeSettled`), and what it tells stands for
   what the others tell (`VscodeStands`).

The proofs changed the models. TLC had been content with all of these on its files:

- `Select` of Codex was a `CASE` whose guards overlap, where the code is a chain of `if`
  and `continue`; a `CASE` leaves open which of two true guards counts. It is an `IF` chain now.
- The bound on the length of a line of Codex threads was the number of known threads. A line goes
  through parents that were never read, too, so the bound is now what is read.
- `Matches` of Codex was asked of every thread on a line, in a circle of the thread itself, too; the
  code's `ancestors` drops what it has met before. The model asks it of ancestors only.
- `CountedOnce` of Codex spoke of a count beside a modern record with the same total; it holds
  if all rows of the record agree on that total, else the record is in dispute.
- `CopiesAreInherited` said that whatever is excluded for another thread's use stands in
  files that do nothing else before. That is false for twins and mirrors in resumed files.
  It now says where each of the two comes from.
- `NoRivals` of Copilot CLI is about counters: the row that only says that a session has
  metadata counts whatever its copies say.
- `CountedOnce` of VS Code is about tokens, not about rows that say that there are none; and `CreditsOnce`
  and `CreditsKept` about the order of requests in the file the code takes it from: files
  that agree on what was used may still differ in that order.

**Assumptions** are those of the modules (`RunConstants`, `LedgerConstants`,
`UpgradeConstants`, `AccessConstants`, and `Constants` of Accounting, which gathers those of the harnesses),
which TLC evaluates on every instance; `InstanceConstants` and `PageConstants` are hypotheses of the theorems,
and part of what MCLedger and MCLiveness assume of their instances. Those of the
harnesses say that files and their lines are finitely many, that times, places
and counters are numbers or missing or malformed, that no observation or row is `None`, and that
two files at one place are one locator. `NoStranding`, `NoneLost` and `~Late` are hypotheses stated in the theorems.

**Only model-checked**: the liveness properties (fairness is out of the prover's
reach, `CatchesUp` among them), and

- `OneProcess` of MCLedger, whose parts are proved for Instances by InstancesProofs, but for
  a suite that runs ten instances side by side;
- `SameAsDirect`, `OrderFree`, `Trees`, `Settled`, `CallsCount` of MCLedger: batches, merging, families
  and CodexHistories. Batches fold over sequences, merging folds over all orders of
  readings; each needs an induction of its own, set up anew for its definition. CodexHistories
  composes the accounting with a writer, and its properties relate decisions to the calls made;
- the properties of MCContents other than `ShownWhole`: transcripts and reports are pure
  functions of a file or a ledger, computed by folds and recursions over lines.

## Findings

Each of the first four is a run that must find a violation.

- *A Refresh can be dropped.* `start_import` does nothing while the worker thread is
  alive, and the thread outlives its run: between the commit of `finish_import` and
  the end of the thread the page already shows the run as ended, and a Refresh
  that arrives then starts nothing. README.md:47: "Imports run on launch and when you
  choose **Refresh**." Run `refresh_dropped`.
- *A failed `finish_import` blocks retries.* The row stays running without a worker;
  `begin_import` returns that row to every later request until the process is
  launched again, while the page for failed imports says "Check Sources and retry."
  (`harness_usage/web.py`:99). Run `retry_stuck`.
- *A recorded thought can vanish.* When reasoning is recorded twice,
  `_reconcile_identities` (`codex_paginated.py`:280) drops every text with the word
  "unavailable", meant for the reader's own placeholders, if another is left. The
  page promises the "records stored in the local rollout file" (line 570). Run
  `stored_reasoning`; the parser does the same with such a file.
- *The last message of a Claude session can be missing.* The leaf is the last visible
  entry without children, and internal entries count as children
  (`claude_transcript.py`:55): with one under the last message, the page shows an
  older branch. `tests/test_claude_source.py`:1233 asserts the contrary for
  an entry of an unknown type. Run `claude_last_word`.
- *A status can overtake a reload.* A newer status that arrives while a report is
  reloaded, after the server has read the older one, is not looked at again when the
  reload is done (`static/app.js`:16-27); the page is behind until the next status.
  `tests/check_frontend_events.cjs`:52 says "Refresh once when the new import is
  ready", and tests one import at a time. `CatchesUp` and `Remembered` except it by
  the history variable `overtaken`.
- *Axes at odd changes of the clocks.* Where clocks change by half an hour (Lord Howe) the
  first hourly bucket may be empty and the "hour" preset may not hold the present;
  where midnight is repeated (Havana) the "day" preset starts at the second one.
  `Tiles` and `PresetsHoldNow` name both as exceptions; clocks put back across
  midnight, as in St John's until 2011, are left out.
- *A final output that names no call counts for nothing.* If the line that tells the final
  output has neither message nor request, and a line of the same entry that names
  the call tells only what the stream started with, the former is excluded for the latter
  (`claude_accounting.py`:158 looks for final outputs among the lines that name the call), until both
  are read with the current reader and contradict each other. No document says otherwise; `NothingLost`
  and `FinalWins` speak of final outputs in lines that name their call.
- *A result without `body.usage` but with usage beside it* is passed over by `read_pi`
  without a diagnostic (`pi_reader.py`:499).

## Outside the models

**External**, modelled from use: DuckDB (a commit is durable, in the write-ahead log
until a checkpoint; opening replays the log; a log belongs to one file), the file
system (directory operations reach the disk in the order they were made, an
unsynced file may be torn by a power failure), flock (released when its holder
dies), the thread pool and its shutdown, Unpoly, git, and Codex as a writer of
rollouts. DuckDB's own file lock is left out of LedgerUpgrade: the data lock must do
without it.

**Abstracted**: the row by row comparison of a migration and the SQLite schema steps 1
to 4 (one step that may fail); in SourceLedger the rows a generation owns (a function
of its payload), which are what the accounting modules, SessionMerge and BatchWrites are about,
the index of titles, one value that does not depend on the roots, and the reasons why a session has no
project, which are one; in
the accounting all but one measure and the reasons of decisions; in the reports the amounts of credits and
other quantities, which both hand to the same function (that there are some, and whether they are
known or a lower bound, is modelled for the warnings), and the names and
lifetimes of sessions; in transcripts titles, models and the wording of notices;
`child_id` links, which no reader writes, and titles of Codex threads in families; paths
and times are values.

**Not modelled**: decoding of bytes, numbers and money, and `detect_source`; the
transcript of VS Code, which copies the reader's requests one by one; rendering,
templates, presentation, request validation and `transcript.js`, which change no
shared state; the port, `default_source_roots` and the
walk's filters by name; a torn tail of a chat log. Research scripts, tests and
vendored code are not part of the running program.

## Plan

The modules are complete as far as the components they name go. What is left is to
prove more, in this order:

1. `ParentsFirst` and `SameAsDirect` of BatchWrites, from an invariant over the rows that wait.
2. `OrderFree` of SessionMerge: conflicts are sticky, so that the merged row is a function of the set of
   readings and not of their order.
3. `CallsCount` of CodexHistories, from `SuiteCountsOnce` and an invariant that relates lines written to
   calls made.
