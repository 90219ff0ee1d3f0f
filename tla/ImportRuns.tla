----------------------------- MODULE ImportRuns -----------------------------
(* The life of an import run: the Application object with its lock and its
   worker thread, the import_run table and sources.json on disk, the requests
   that save sources, choose Refresh or poll the status, and the launch, the
   shutdown and the crash of the process.

   A DuckDB transaction of Storage is one step (writers share one re-entrant
   lock, readers see one snapshot); everything between two transactions, two
   locks or two file operations is a point where another thread may run.  The
   contents of the ledger are the business of module SourceLedger. *)
EXTENDS Integers, Sequences, FiniteSets

CONSTANTS Clients,    \* threadpool threads serving Refresh and Sources requests
          Pollers,    \* threads polling the status for a page or an event stream
          Main,       \* the main thread, which launches and closes the application
          Roots,      \* possible values of the saved sources
          NoRoots,    \* no sources.json
          MaxFiles,   \* bound: candidate files one walk of the roots can find
          BatchSize,  \* payloads committed per transaction (32 in the code)
          MaxRuns,    \* bound: no launch or new import request at this many runs
          Faults      \* the operations that may fail

FaultKinds == {"config", "begin", "spawn", "walk", "read", "commit", "advance",
               "missing", "attribute", "finish"}

ASSUME RunConstants == /\ Main \notin Clients \cup Pollers
                       /\ Clients \cap Pollers = {}
                       /\ NoRoots \notin Roots
                       /\ MaxFiles \in Nat
                       /\ BatchSize \in Nat \ {0}
                       /\ MaxRuns \in Nat
                       /\ Faults \subseteq FaultKinds
                       /\ "free" \notin Clients \cup Pollers \cup {Main}

VARIABLES runs,      \* import_run rows by ordinal; roots and committed are history
          config,    \* sources.json
          proc,      \* the process: down, boot, up, draining
          lock,      \* holder of Application._lock
          wpc,       \* where Application._worker is; "none": no live worker
          job,       \* locals of the worker's _import and _scan
          progress,  \* Application._progress
          pc,        \* where each thread is in its request
          arg,       \* the roots a thread saves, or has read for a run
          row,       \* the import_run row a thread's status() has read
          answer     \* the last ImportStatus a poller was given

disk == <<runs, config>>
worker == <<wpc, job>>
threads == <<pc, arg, row, answer>>
vars == <<runs, config, proc, lock, wpc, job, progress, pc, arg, row, answer>>

Threads == Clients \cup Pollers \cup {Main}
Free == "free"
NoTotal == -1                  \* files_total is None

RunStates == {"running", "succeeded", "failed", "interrupted"}
Phases == {"none", "discovering", "checking", "finalizing"}
Errors == {"none", "source", "import_failed", "project_discovery_failed", "process_interrupted"}

NoProgress == [run |-> 0, phase |-> "none", checked |-> 0, total |-> NoTotal]
IdleRow == [run |-> 0, state |-> "idle", processed |-> 0]
NewJob(run, roots) == [run |-> run, scan |-> 0, roots |-> roots, total |-> 0, checked |-> 0,
                       batch |-> 0, processed |-> 0, error |-> "none"]
NoJob == NewJob(0, NoRoots)

(* Storage._import_status: the newest row. *)
LastRun == Len(runs)
LastRow == IF runs = <<>> THEN IdleRow
           ELSE [run |-> LastRun, state |-> runs[LastRun].state,
                 processed |-> runs[LastRun].processed]
RunInProgress == runs # <<>> /\ runs[LastRun].state = "running"

WorkerAlive == wpc # "none"

(* An ImportStatus without progress, and with it. *)
Shown(r, phase, checked, total) ==
  [run |-> r.run, state |-> r.state, processed |-> r.processed,
   phase |-> phase, checked |-> checked, total |-> total]
Bare(r) == Shown(r, "none", 0, NoTotal)
(* Slip: whichever run the progress is of. *)
AttachedAny(r, p) ==
  IF p.run # 0 THEN Shown(r, IF r.state = "running" THEN p.phase ELSE "none", p.checked, p.total)
  ELSE Bare(r)

Attached(r, p) == IF p.run # 0 /\ p.run = r.run
                  THEN Shown(r, IF r.state = "running" THEN p.phase ELSE "none", p.checked, p.total)
                  ELSE Bare(r)

Init == /\ runs = <<>>
        /\ config = NoRoots
        /\ proc = "down"
        /\ lock = Free
        /\ wpc = "none"
        /\ job = NoJob
        /\ progress = NoProgress
        /\ pc = [t \in Threads |-> "idle"]
        /\ arg = [t \in Threads |-> NoRoots]
        /\ row = [t \in Threads |-> IdleRow]
        /\ answer = [t \in Pollers |-> Bare(IdleRow)]

-----------------------------------------------------------------------------
(* Requests. The event stream and the report page poll the status; Refresh
   starts an import; saving sources sets the roots, then starts an import. *)

Ask(c, where, roots) == /\ proc = "up"
                        /\ pc[c] = "idle"
                        /\ pc' = [pc EXCEPT ![c] = where]
                        /\ arg' = [arg EXCEPT ![c] = roots]
                        /\ UNCHANGED <<disk, proc, lock, worker, progress, row, answer>>

AskStatus(c) == Ask(c, "read_row", NoRoots)
AskRefresh(c) == LastRun < MaxRuns /\ Ask(c, "start_lock", NoRoots)
AskSave(c) == LastRun < MaxRuns /\ \E r \in Roots : Ask(c, "roots_lock", r)

(* A thread goes on without the locals it no longer needs.  A call that raised
   is answered with an error page; in the main thread it abandons the launch. *)
Forget(t, to) == /\ pc' = [pc EXCEPT ![t] = to]
                 /\ arg' = [arg EXCEPT ![t] = NoRoots]
                 /\ row' = [row EXCEPT ![t] = IdleRow]
Returned(t) == Forget(t, "idle")
Raised(t) == Forget(t, IF t = Main THEN "failed" ELSE "idle")
Goto(t, to) == pc' = [pc EXCEPT ![t] = to] /\ UNCHANGED <<arg, row>>

Acquire(t, from, to) == /\ pc[t] = from
                        /\ lock = Free
                        /\ lock' = t
                        /\ pc' = [pc EXCEPT ![t] = to]
                        /\ UNCHANGED <<disk, proc, worker, progress, arg, row, answer>>

(* set_roots: refuse other roots while the worker lives, else replace the file. *)
RootsLock(t) == Acquire(t, "roots_lock", "roots_check")

(* Slips: no check at all; a check of the ledger, which shows the run ended
   before its thread has. *)
RootsCheckNothing(t) == /\ pc[t] = "roots_check"
                        /\ Goto(t, "roots_write")
                        /\ UNCHANGED <<disk, proc, lock, worker, progress, answer>>
RootsCheckLedger(t) ==
  /\ pc[t] = "roots_check"
  /\ IF RunInProgress /\ arg[t] # config
     THEN Raised(t) /\ lock' = Free
     ELSE Goto(t, "roots_write") /\ UNCHANGED lock
  /\ UNCHANGED <<disk, proc, worker, progress, answer>>

RootsCheck(t) ==
  /\ pc[t] = "roots_check"
  /\ IF WorkerAlive /\ arg[t] # config
     THEN Raised(t) /\ lock' = Free
     ELSE Goto(t, "roots_write") /\ UNCHANGED lock
  /\ UNCHANGED <<disk, proc, worker, progress, answer>>

(* Slip: the lock is kept when the write fails. *)
RootsWriteKeeping(t) ==
  /\ pc[t] = "roots_write"
  /\ \/ config' = arg[t] /\ Forget(t, "start_lock") /\ lock' = Free
     \/ "config" \in Faults /\ Raised(t) /\ UNCHANGED <<config, lock>>
  /\ UNCHANGED <<runs, proc, worker, progress, answer>>

RootsWrite(t) ==
  /\ pc[t] = "roots_write"
  /\ lock' = Free
  /\ \/ config' = arg[t] /\ Forget(t, "start_lock")
     \/ "config" \in Faults /\ Raised(t) /\ UNCHANGED config
  /\ UNCHANGED <<runs, proc, worker, progress, answer>>

(* start_import: with a live worker it only reports; else it reads the roots,
   inserts the run, publishes its progress and starts the thread. *)
StartLock(t) == Acquire(t, "start_lock", "start_check")

(* Slip: the worker is not looked at. *)
StartCheckNothing(t) == /\ pc[t] = "start_check"
                        /\ pc' = [pc EXCEPT ![t] = "begin"]
                        /\ arg' = [arg EXCEPT ![t] = config]
                        /\ UNCHANGED <<disk, proc, lock, worker, progress, row, answer>>

StartCheck(t) ==
  /\ pc[t] = "start_check"
  /\ IF WorkerAlive
     THEN pc' = [pc EXCEPT ![t] = "read_row"] /\ UNCHANGED arg
     ELSE pc' = [pc EXCEPT ![t] = "begin"] /\ arg' = [arg EXCEPT ![t] = config]
  /\ UNCHANGED <<disk, proc, lock, worker, progress, row, answer>>

(* Slip: a run that is in progress is taken up. *)
BeginImportResuming(t) ==
  /\ pc[t] = "begin"
  /\ \/ RunInProgress /\ Goto(t, "publish") /\ UNCHANGED <<runs, lock>>
     \/ /\ ~RunInProgress
        /\ runs' = Append(runs, [state |-> "running", processed |-> 0, error |-> "none",
                                 roots |-> arg[t], committed |-> 0])
        /\ Goto(t, "publish")
        /\ UNCHANGED lock
     \/ "begin" \in Faults /\ Raised(t) /\ lock' = Free /\ UNCHANGED runs
  /\ UNCHANGED <<config, proc, worker, progress, answer>>

BeginImport(t) ==
  /\ pc[t] = "begin"
  /\ \/ RunInProgress /\ Returned(t) /\ lock' = Free /\ UNCHANGED runs
     \/ /\ ~RunInProgress
        /\ runs' = Append(runs, [state |-> "running", processed |-> 0, error |-> "none",
                                 roots |-> arg[t], committed |-> 0])
        /\ Goto(t, "publish")
        /\ UNCHANGED lock
     \/ "begin" \in Faults /\ Raised(t) /\ lock' = Free /\ UNCHANGED runs
  /\ UNCHANGED <<config, proc, worker, progress, answer>>

PublishProgress(t) ==
  /\ pc[t] = "publish"
  /\ progress' = [run |-> LastRun, phase |-> "discovering", checked |-> 0, total |-> NoTotal]
  /\ Goto(t, "spawn")
  /\ UNCHANGED <<disk, proc, lock, worker, answer>>

SpawnWorker(t) ==
  /\ pc[t] = "spawn"
  /\ lock' = Free
  /\ \/ /\ wpc' = "enter"
        /\ job' = NewJob(LastRun, arg[t])
        /\ Returned(t)
     \/ "spawn" \in Faults /\ Raised(t) /\ UNCHANGED worker
  /\ UNCHANGED <<disk, proc, progress, answer>>

(* Slip: status takes the lock its caller may hold. *)
ReadRowLocking(t) ==
  /\ pc[t] = "read_row"
  /\ lock = Free
  /\ row' = [row EXCEPT ![t] = LastRow]
  /\ pc' = [pc EXCEPT ![t] = "attach"]
  /\ UNCHANGED <<disk, proc, lock, worker, progress, arg, answer>>

(* status: read the newest row in a transaction, then, under the progress
   lock, attach the progress if it is that run's.  Inside start_import the
   caller holds the lock, and the web handler drops the answer. *)
ReadRow(t) ==
  /\ pc[t] = "read_row"
  /\ row' = [row EXCEPT ![t] = LastRow]
  /\ pc' = [pc EXCEPT ![t] = "attach"]
  /\ UNCHANGED <<disk, proc, lock, worker, progress, arg, answer>>

AttachProgress(t) ==
  /\ pc[t] = "attach"
  /\ IF lock = t
     THEN lock' = Free /\ UNCHANGED answer
     ELSE answer' = [answer EXCEPT ![t] = Attached(row[t], progress)] /\ UNCHANGED lock
  /\ Returned(t)
  /\ UNCHANGED <<disk, proc, worker, progress>>

ThreadStep(t) == \/ RootsLock(t) \/ RootsCheck(t) \/ RootsWrite(t)
                 \/ StartLock(t) \/ StartCheck(t) \/ BeginImport(t)
                 \/ PublishProgress(t) \/ SpawnWorker(t)
                 \/ ReadRow(t) \/ AttachProgress(t)

-----------------------------------------------------------------------------
(* The worker thread: _import, pulling payloads out of _scan in batches. *)

(* _update_progress: only the run that owns the progress may move it. *)
Moved(run, phase, checked, total) ==
  IF progress.run # 0 /\ progress.run = run
  THEN [run |-> run, phase |-> phase, checked |-> checked, total |-> total]
  ELSE progress

Failing(code) == /\ job' = [job EXCEPT !.error = code]
                 /\ wpc' = "cleanup"

(* _scan first learns which run it scans for from the published progress. *)
EnterScan == /\ wpc = "enter"
             /\ job' = [job EXCEPT !.scan = progress.run]
             /\ wpc' = "walk"
             /\ UNCHANGED <<disk, proc, lock, progress, threads>>

Walk ==
  /\ wpc = "walk"
  /\ \/ \E n \in 0 .. MaxFiles :
          /\ job' = [job EXCEPT !.total = n]
          /\ progress' = Moved(job.scan, IF n = 0 THEN "finalizing" ELSE "checking", 0, n)
          /\ wpc' = IF n = 0 THEN "finalize" ELSE "check"
     \/ "walk" \in Faults /\ Failing("source") /\ UNCHANGED progress
  /\ UNCHANGED <<disk, proc, lock, threads>>

(* One file: read it, report it checked, and yield it if it is supported. The
   consumer takes the batch when it is full or the scan is over. *)
CheckFile ==
  /\ wpc = "check"
  /\ \/ \E payload \in {0, 1} :
          LET done == job.checked + 1
              size == job.batch + payload
              over == done = job.total
          IN /\ job' = [job EXCEPT !.checked = done, !.batch = size]
             /\ progress' = Moved(job.scan, IF over THEN "finalizing" ELSE "checking", done, job.total)
             /\ wpc' = IF size = BatchSize \/ (over /\ size > 0) THEN "commit"
                       ELSE IF over THEN "finalize" ELSE "check"
     \/ "read" \in Faults /\ Failing("source") /\ UNCHANGED progress
  /\ UNCHANGED <<disk, proc, lock, threads>>

(* Slip: the batch is counted although its commit failed. *)
CommitBatchCounting ==
  /\ wpc = "commit"
  /\ \/ /\ runs' = [runs EXCEPT ![job.run].committed = @ + job.batch]
        /\ job' = [job EXCEPT !.batch = 0, !.processed = @ + job.batch]
        /\ wpc' = "advance"
     \/ /\ "commit" \in Faults
        /\ job' = [job EXCEPT !.processed = @ + job.batch, !.error = "import_failed"]
        /\ wpc' = "cleanup"
        /\ UNCHANGED runs
  /\ UNCHANGED <<config, proc, lock, progress, threads>>

(* Storage.import_sources: the batch is committed whole or not at all. *)
CommitBatch ==
  /\ wpc = "commit"
  /\ \/ /\ runs' = [runs EXCEPT ![job.run].committed = @ + job.batch]
        /\ job' = [job EXCEPT !.batch = 0, !.processed = @ + job.batch]
        /\ wpc' = "advance"
     \/ "commit" \in Faults /\ Failing("import_failed") /\ UNCHANGED runs
  /\ UNCHANGED <<config, proc, lock, progress, threads>>

(* The guarded UPDATEs of advance_import and finish_import. *)
Updatable == runs[job.run].state = "running" /\ runs[job.run].processed <= job.processed

AdvanceImport ==
  /\ wpc = "advance"
  /\ \/ /\ Updatable
        /\ runs' = [runs EXCEPT ![job.run].processed = job.processed]
        /\ wpc' = IF job.checked = job.total THEN "finalize" ELSE "check"
        /\ UNCHANGED job
     \/ (~Updatable \/ "advance" \in Faults) /\ Failing("import_failed") /\ UNCHANGED runs
  /\ UNCHANGED <<config, proc, lock, progress, threads>>

(* Slip: the counts are reset with the phase. *)
FinalizeResetting == /\ wpc = "finalize"
                     /\ progress' = Moved(job.run, "finalizing", 0, progress.total)
                     /\ wpc' = "missing"
                     /\ UNCHANGED <<disk, proc, lock, job, threads>>

Finalize == /\ wpc = "finalize"
            /\ progress' = Moved(job.run, "finalizing", progress.checked, progress.total)
            /\ wpc' = "missing"
            /\ UNCHANGED <<disk, proc, lock, job, threads>>

MarkMissing == /\ wpc = "missing"
               /\ \/ wpc' = "cleanup" /\ UNCHANGED job
                  \/ "missing" \in Faults /\ Failing("import_failed")
               /\ UNCHANGED <<disk, proc, lock, progress, threads>>

(* The finally block: projects and titles are refreshed whatever happened. *)
Cleanup == /\ wpc = "cleanup"
           /\ progress' = Moved(job.run, "finalizing", progress.checked, progress.total)
           /\ wpc' = "attribute"
           /\ UNCHANGED <<disk, proc, lock, job, threads>>

AssignProjects ==
  /\ wpc = "attribute"
  /\ wpc' = "finish"
  /\ \/ UNCHANGED job
     \/ /\ "attribute" \in Faults
        /\ job' = [job EXCEPT !.error = IF @ = "none" THEN "project_discovery_failed" ELSE @]
  /\ UNCHANGED <<disk, proc, lock, progress, threads>>

(* Slips: the state without its error; a failed import is not finished. *)
FinishImportBare ==
  /\ wpc = "finish"
  /\ wpc' = "exit"
  /\ Updatable
  /\ runs' = [runs EXCEPT ![job.run].state = IF job.error = "none" THEN "succeeded" ELSE "failed",
                          ![job.run].processed = job.processed]
  /\ UNCHANGED <<config, proc, lock, job, progress, threads>>
FinishImportSucceeding ==
  /\ wpc = "finish"
  /\ wpc' = "exit"
  /\ runs' = IF job.error = "none"
             THEN [runs EXCEPT ![job.run].state = "succeeded", ![job.run].processed = job.processed]
             ELSE runs
  /\ UNCHANGED <<config, proc, lock, job, progress, threads>>

(* finish_import; if it raises, the thread dies and the row stays "running". *)
FinishImport ==
  /\ wpc = "finish"
  /\ wpc' = "exit"
  /\ \/ /\ Updatable
        /\ runs' = [runs EXCEPT ![job.run].state = IF job.error = "none" THEN "succeeded" ELSE "failed",
                                ![job.run].processed = job.processed,
                                ![job.run].error = job.error]
     \/ (~Updatable \/ "finish" \in Faults) /\ UNCHANGED runs
  /\ UNCHANGED <<config, proc, lock, job, progress, threads>>

(* Until here Thread.is_alive() was true. *)
WorkerExit == /\ wpc = "exit"
              /\ wpc' = "none"
              /\ job' = NoJob
              /\ UNCHANGED <<disk, proc, lock, progress, threads>>

WorkerStep == \/ EnterScan \/ Walk \/ CheckFile \/ CommitBatch \/ AdvanceImport \/ Finalize
              \/ MarkMissing \/ Cleanup \/ AssignProjects \/ FinishImport \/ WorkerExit

-----------------------------------------------------------------------------
(* The process. *)

(* Slips: runs are left running; every run is interrupted. *)
InterruptNothing == UNCHANGED runs
InterruptAll == runs' = [i \in DOMAIN runs |-> [runs[i] EXCEPT !.state = "interrupted",
                                                              !.error = "process_interrupted"]]

(* Application.__init__ interrupts the runs of a dead process; main then saves
   the roots of the command line, or the detected defaults when nothing is
   saved, and starts an import if there are roots. *)
InterruptRuns == runs' = [i \in DOMAIN runs |->
                            IF runs[i].state = "running"
                            THEN [runs[i] EXCEPT !.state = "interrupted", !.error = "process_interrupted"]
                            ELSE runs[i]]

Launch ==
  /\ proc = "down"
  /\ LastRun < MaxRuns
  /\ proc' = "boot"
  /\ InterruptRuns
  /\ \/ \E r \in Roots : arg' = [arg EXCEPT ![Main] = r] /\ pc' = [pc EXCEPT ![Main] = "roots_lock"]
     \/ config # NoRoots /\ pc' = [pc EXCEPT ![Main] = "start_lock"] /\ UNCHANGED arg
     \/ config = NoRoots /\ UNCHANGED <<pc, arg>>
  /\ UNCHANGED <<config, lock, worker, progress, row, answer>>

Serve == /\ proc = "boot"
         /\ pc[Main] \in {"idle", "failed"}
         /\ proc' = IF pc[Main] = "idle" THEN "up" ELSE "draining"
         /\ pc' = [pc EXCEPT ![Main] = "idle"]
         /\ UNCHANGED <<disk, lock, worker, progress, arg, row, answer>>

(* A signal ends the server: no new requests, those in threads go on. *)
Shutdown == /\ proc = "up"
            /\ proc' = "draining"
            /\ UNCHANGED <<disk, lock, worker, progress, threads>>

NoProcess == /\ proc' = "down"
             /\ lock' = Free
             /\ wpc' = "none"
             /\ job' = NoJob
             /\ progress' = NoProgress
             /\ pc' = [t \in Threads |-> "idle"]
             /\ arg' = [t \in Threads |-> NoRoots]
             /\ row' = [t \in Threads |-> IdleRow]
             /\ answer' = [t \in Pollers |-> Bare(IdleRow)]
             /\ UNCHANGED disk

(* Application.close joins the worker; the interpreter ends with its threads. *)
Exit == /\ proc = "draining"
        /\ ~WorkerAlive
        /\ \A t \in Threads : pc[t] = "idle"
        /\ NoProcess

Crash == proc # "down" /\ NoProcess

(* At the bound the process is left off. *)
LeftOff == /\ proc = "down"
           /\ LastRun >= MaxRuns
           /\ UNCHANGED vars

Next == \/ \E c \in Pollers : AskStatus(c)
        \/ \E c \in Clients : AskRefresh(c) \/ AskSave(c)
        \/ \E t \in Threads : ThreadStep(t)
        \/ WorkerStep
        \/ Launch \/ Serve \/ Shutdown \/ Exit \/ Crash \/ LeftOff

Spec == Init /\ [][Next]_vars

(* A thread that can run does; nobody has to ask, launch, stop or crash. *)
Fairness == /\ WF_vars(WorkerStep)
            /\ \A t \in Threads : WF_vars(ThreadStep(t))
            /\ WF_vars(Serve)
            /\ WF_vars(Exit)

FairSpec == Spec /\ Fairness

-----------------------------------------------------------------------------
(* Properties. *)

(* Every variable has its type, and every row keeps the contract of
   ImportStatus.__post_init__: an error code exactly on failed and interrupted
   runs. *)
Rows == [state : RunStates, processed : Nat, error : Errors,
         roots : Roots \cup {NoRoots}, committed : Nat]
ErrorIffEnded(r) == (r.error # "none") <=> (r.state \in {"failed", "interrupted"})

ThreadPcs == {"idle", "failed", "roots_lock", "roots_check", "roots_write", "start_lock",
              "start_check", "begin", "publish", "spawn", "read_row", "attach"}
WorkerPcs == {"none", "enter", "walk", "check", "commit", "advance", "finalize", "missing",
              "cleanup", "attribute", "finish", "exit"}

StatusRows == [run : Nat, state : RunStates \cup {"idle"}, processed : Nat]
Statuses == [run : Nat, state : RunStates \cup {"idle"}, processed : Nat,
             phase : Phases, checked : Nat, total : Nat \cup {NoTotal}]
Jobs == [run : Nat, scan : Nat, roots : Roots \cup {NoRoots}, total : Nat, checked : Nat,
         batch : Nat, processed : Nat, error : Errors \ {"process_interrupted"}]

TypeOK == /\ runs \in Seq(Rows)
          /\ \A i \in DOMAIN runs : ErrorIffEnded(runs[i])
          /\ config \in Roots \cup {NoRoots}
          /\ proc \in {"down", "boot", "up", "draining"}
          /\ lock \in Threads \cup {Free}
          /\ wpc \in WorkerPcs
          /\ job \in Jobs
          /\ progress \in [run : Nat, phase : Phases, checked : Nat, total : Nat \cup {NoTotal}]
          /\ pc \in [Threads -> ThreadPcs]
          /\ arg \in [Threads -> Roots \cup {NoRoots}]
          /\ row \in [Threads -> StatusRows]
          /\ answer \in [Pollers -> Statuses]

(* While an import lives, the saved sources are the ones it reads: the final
   get_roots() of _assign_projects cannot see other roots than _scan walked. *)
RootsStable == WorkerAlive => config = job.roots

(* A status that shows progress is coherent although the row and the progress
   are read at two instants: nothing is committed before it is checked, and a
   run shown as succeeded has checked every file. *)
AnswersConsistent ==
  \A t \in Pollers : LET a == answer[t] IN
    /\ a.phase # "none" => a.state = "running"
    /\ a.total # NoTotal => /\ a.processed <= a.checked
                            /\ a.checked <= a.total
                            /\ a.state = "succeeded" => a.checked = a.total

(* What one poller is told never goes back: not to an older run, not from an
   ended run to a running one, not to fewer files of the same run. *)
NoRegress(a, b) ==
  /\ b.run >= a.run
  /\ b.run = a.run => /\ b.processed >= a.processed
                      /\ a.state \notin {"running", "idle"} => b.state = a.state
                      /\ a.total # NoTotal /\ b.total # NoTotal => b.checked >= a.checked
AnswersMonotone == [][proc' # "down" => \A t \in Pollers : NoRegress(answer[t], answer'[t])]_vars

(* files_processed counts committed payloads: exactly in a finished run, at
   most one batch short in a run the process died under. *)
ProcessedIsCommitted ==
  \A i \in DOMAIN runs : LET r == runs[i] IN
    IF r.state \in {"succeeded", "failed"}
    THEN r.processed = r.committed
    ELSE r.processed <= r.committed /\ r.committed <= r.processed + BatchSize

(* In a process, a running row belongs to a worker that will finish it, or to
   the thread about to start that worker. *)
StartsRun(t) == lock = t /\ pc[t] \in {"publish", "spawn"}
RunningIsOwned ==
  RunInProgress /\ proc # "down" => \/ wpc \notin {"none", "exit"} /\ job.run = LastRun
                                   \/ \E t \in Threads : StartsRun(t)

(* Whatever fails: a run whose thread did not start, whose end could not be
   written or whose process died stays as it is.  No request takes it up, ends
   it or begins another beside it; the next launch interrupts it. *)
Owned(i) == \/ wpc \notin {"none", "exit"} /\ job.run = i
            \/ i = LastRun /\ \E t \in Threads : StartsRun(t)
StrandedWaits ==
  [][\A i \in DOMAIN runs : runs[i].state = "running" /\ ~Owned(i) =>
       \/ runs' = runs /\ ~Owned(i)'
       \/ proc = "down" /\ proc' # "down" /\ runs'[i].state = "interrupted"]_vars

(* Sources that were saved get imported: once no request is between saving
   and starting, the newest run is over the saved sources. *)
SavedRootsServed ==
  proc = "up" /\ config # NoRoots /\ (\A t \in Threads : pc[t] \in {"idle", "read_row", "attach"})
    => runs # <<>> /\ runs[LastRun].roots = config

(* Seen through its table and its saved sources, the process implements RunLedger. *)
RowView(r) == [state |-> r.state, roots |-> r.roots, processed |-> r.processed]
History == [i \in DOMAIN runs |-> RowView(runs[i])]
Alive == proc # "down"
Service == INSTANCE RunLedger WITH Sources <- Roots, history <- History, up <- Alive
Promise == Service!Spec

(* A begun run ends unless the process dies. *)
RunsEnd == RunInProgress ~> (proc = "down" \/ ~RunInProgress)

(* Whoever holds the lock lets it go: status() inside start_import, the
   worker's own lock and the raising paths never wedge the others. *)
LockReleased == \A t \in Threads : (lock = t) ~> (lock # t)

(* Once told to stop the process does stop, requests in flight and the worker
   included. *)
ShutdownEnds == (proc = "draining") ~> (proc = "down")

(* README: "Imports run on launch and when you choose Refresh": a start_import
   that leaves it to the live worker finds that worker's run still running. *)
RefreshRuns == \A c \in Clients : lock = c /\ pc[c] = "attach" => row[c].state = "running"

(* web.py: "Import failed. Showing saved data. Check Sources and retry.": with
   no live worker, a start_import finds no run in the way of a new one. *)
RetryPossible == \A c \in Clients : lock = c /\ pc[c] = "begin" => ~RunInProgress

(* The inductive invariant behind RootsStable, whatever fails; where no run is
   stranded, RunningIsOwned and Promise follow with it. *)
LockPcs == {"roots_check", "roots_write", "start_check", "begin", "publish", "spawn"}
LockDiscipline ==
  /\ \A t \in Threads : pc[t] \in LockPcs => lock = t
  /\ \A t \in Threads : pc[t] \in {"begin", "publish", "spawn"} => ~WorkerAlive /\ arg[t] = config
  /\ \A t \in Threads : pc[t] = "roots_write" /\ WorkerAlive => arg[t] = config
SavesRoots == \A t \in Threads : pc[t] \in {"roots_lock", "roots_check", "roots_write"} => arg[t] \in Roots
DownIsQuiet == proc = "down" => /\ lock = Free
                                /\ wpc = "none"
                                /\ \A t \in Threads : pc[t] = "idle"
WorkerRun == /\ WorkerAlive => job.run = LastRun /\ runs # <<>>
             /\ wpc \notin {"none", "exit"} => RunInProgress /\ runs[LastRun].processed <= job.processed
StarterRun == \A t \in Threads : pc[t] \in {"publish", "spawn"} =>
                RunInProgress /\ runs[LastRun].processed = 0
OnlyNewestRuns == \A i \in DOMAIN runs : runs[i].state = "running" => i = LastRun
CoreInv == /\ TypeOK
           /\ LockDiscipline
           /\ DownIsQuiet
           /\ WorkerRun
           /\ StarterRun
           /\ OnlyNewestRuns
           /\ RootsStable
=============================================================================
