-------------------------- MODULE ImportRunsProofs --------------------------
(* Proofs about ImportRuns for every number of clients, files, runs and roots. *)
EXTENDS ImportRuns, TLAPS

(* A row replaced by a row, or a row appended, leaves a sequence of rows. *)
LEMMA ReplacedRow ==
  ASSUME NEW s \in Seq(Rows), NEW i \in DOMAIN s, NEW r \in Rows
  PROVE  /\ [s EXCEPT ![i] = r] \in Seq(Rows)
         /\ Len([s EXCEPT ![i] = r]) = Len(s)
         /\ DOMAIN [s EXCEPT ![i] = r] = DOMAIN s
         /\ \A k \in DOMAIN s : [s EXCEPT ![i] = r][k] = IF k = i THEN r ELSE s[k]
  OBVIOUS

LEMMA AppendedRow ==
  ASSUME NEW s \in Seq(Rows), NEW r \in Rows
  PROVE  /\ Append(s, r) \in Seq(Rows)
         /\ Len(Append(s, r)) = Len(s) + 1
         /\ DOMAIN Append(s, r) = DOMAIN s \cup {Len(s) + 1}
         /\ \A k \in DOMAIN s : Append(s, r)[k] = s[k]
         /\ Append(s, r)[Len(s) + 1] = r
  OBVIOUS

LEMMA AppendIsFunction ==
  ASSUME NEW S, NEW s \in Seq(S), NEW x \in S
  PROVE  Append(s, x) = [i \in 1 .. Len(s) + 1 |-> IF i = Len(s) + 1 THEN x ELSE s[i]]
  <1> DEFINE a == Append(s, x)
             f == [i \in 1 .. Len(s) + 1 |-> IF i = Len(s) + 1 THEN x ELSE s[i]]
  <1>1. a \in Seq(S) /\ Len(a) = Len(s) + 1 /\ \A i \in 1 .. Len(s) + 1 : a[i] = IF i = Len(s) + 1 THEN x ELSE s[i]
    OBVIOUS
  <1> HIDE DEF a
  <1>2. a = [i \in 1 .. Len(s) + 1 |-> a[i]]
    <2>1. a \in [1 .. Len(a) -> S]
      BY <1>1
    <2> QED
      BY <1>1, <2>1
  <1>3. a = f
    BY <1>1, <1>2
  <1> QED
    BY <1>3 DEF a

(* What InterruptRuns does to the table. *)
LEMMA InterruptedRows ==
  ASSUME TypeOK, InterruptRuns
  PROVE  /\ runs' \in Seq(Rows)
         /\ Len(runs') = Len(runs)
         /\ \A i \in DOMAIN runs' : ErrorIffEnded(runs'[i]) /\ runs'[i].state # "running"
  <1> DEFINE f(r) == IF r.state = "running"
                     THEN [r EXCEPT !.state = "interrupted", !.error = "process_interrupted"]
                     ELSE r
  <1>1. runs \in Seq(Rows) /\ \A i \in DOMAIN runs : ErrorIffEnded(runs[i])
    BY DEF TypeOK
  <1>2. \A r \in Rows : f(r) \in Rows /\ f(r).state # "running"
    BY DEF Rows, RunStates, Errors
  <1>3. \A r \in Rows : ErrorIffEnded(r) => ErrorIffEnded(f(r))
    BY DEF Rows, RunStates, Errors, ErrorIffEnded
  <1>4. runs' = [i \in DOMAIN runs |-> f(runs[i])]
    BY DEF InterruptRuns
  <1>5. \A i \in DOMAIN runs : runs[i] \in Rows
    BY <1>1
  <1> HIDE DEF f
  <1>6. runs' \in Seq(Rows) /\ Len(runs') = Len(runs) /\ DOMAIN runs' = DOMAIN runs
    BY <1>1, <1>2, <1>4, <1>5
  <1>7. \A i \in DOMAIN runs' : runs'[i] = f(runs[i])
    BY <1>4, <1>6
  <1> QED
    BY <1>1, <1>2, <1>3, <1>5, <1>6, <1>7

LEMMA NewestRun ==
  ASSUME TypeOK
  PROVE  /\ LastRun \in Nat
         /\ runs # <<>> => LastRun \in DOMAIN runs
         /\ DOMAIN runs = 1 .. LastRun
  BY DEF TypeOK, LastRun

-----------------------------------------------------------------------------
(* Types. *)

TypeOfThreads == /\ pc \in [Threads -> ThreadPcs]
                 /\ arg \in [Threads -> Roots \cup {NoRoots}]
                 /\ row \in [Threads -> StatusRows]

LEMMA LastRowType == ASSUME TypeOK PROVE LastRow \in StatusRows
  <1>1. CASE runs = <<>>
    BY <1>1 DEF LastRow, IdleRow, StatusRows
  <1>2. CASE runs # <<>>
    <2>1. runs[LastRun] \in Rows
      BY <1>2, NewestRun DEF TypeOK
    <2>2. runs[LastRun].state \in RunStates /\ runs[LastRun].processed \in Nat /\ LastRun \in Nat
      BY <2>1, NewestRun DEF Rows
    <2> QED
      BY <1>2, <2>2 DEF LastRow, StatusRows
  <1> QED
    BY <1>1, <1>2

LEMMA ForgetType ==
  ASSUME TypeOK, NEW t \in Threads, NEW to \in ThreadPcs, Forget(t, to)
  PROVE  TypeOfThreads'
  BY DEF TypeOK, Forget, TypeOfThreads, StatusRows, IdleRow

LEMMA AttachedType ==
  ASSUME TypeOK, NEW t \in Threads
  PROVE  Attached(row[t], progress) \in Statuses
  <1>1. row[t] \in StatusRows
    BY DEF TypeOK
  <1>2. progress \in [run : Nat, phase : Phases, checked : Nat, total : Nat \cup {NoTotal}]
    BY DEF TypeOK
  <1>3. \A r \in StatusRows, ph \in Phases, n \in Nat, m \in Nat \cup {NoTotal} :
          Shown(r, ph, n, m) \in Statuses
    BY DEF Shown, Statuses, StatusRows
  <1>4. "none" \in Phases /\ progress.phase \in Phases /\ progress.checked \in Nat
        /\ progress.total \in Nat \cup {NoTotal}
    BY <1>2 DEF Phases
  <1> QED
    BY <1>1, <1>3, <1>4 DEF Attached, Bare

(* A step of a request keeps the types. *)
LEMMA ThreadTypes ==
  ASSUME TypeOK, NEW t \in Threads, ThreadStep(t)
  PROVE  TypeOK'
  <1> USE DEF disk, worker, threads
  <1>1. CASE RootsLock(t)
    BY <1>1 DEF RootsLock, Acquire, TypeOK, ThreadPcs
  <1>2. CASE RootsCheck(t)
    BY <1>2, ForgetType DEF RootsCheck, Raised, Goto, TypeOK, TypeOfThreads, ThreadPcs
  <1>3. CASE RootsWrite(t)
    <2>1. TypeOfThreads'
      BY <1>3, ForgetType DEF RootsWrite, Raised, ThreadPcs
    <2>2. config' \in Roots \cup {NoRoots}
      BY <1>3 DEF RootsWrite, TypeOK
    <2> QED
      BY <1>3, <2>1, <2>2 DEF RootsWrite, TypeOK, TypeOfThreads
  <1>4. CASE StartLock(t)
    BY <1>4 DEF StartLock, Acquire, TypeOK, ThreadPcs
  <1>5. CASE StartCheck(t)
    BY <1>5 DEF StartCheck, TypeOK, ThreadPcs
  <1>6. CASE BeginImport(t)
    <2>1. TypeOfThreads'
      BY <1>6, ForgetType DEF BeginImport, Returned, Raised, Goto, ThreadPcs, TypeOK, TypeOfThreads
    <2>2. runs' \in Seq(Rows) /\ \A i \in DOMAIN runs' : ErrorIffEnded(runs'[i])
      <3> DEFINE new == [state |-> "running", processed |-> 0, error |-> "none",
                         roots |-> arg[t], committed |-> 0]
      <3>1. new \in Rows /\ ErrorIffEnded(new)
        BY DEF TypeOK, Rows, RunStates, Errors, ErrorIffEnded
      <3>2. runs' = runs \/ runs' = Append(runs, new)
        BY <1>6 DEF BeginImport
      <3> HIDE DEF new
      <3>3. runs \in Seq(Rows) /\ \A i \in DOMAIN runs : ErrorIffEnded(runs[i])
        BY DEF TypeOK
      <3> QED
        BY <3>1, <3>2, <3>3, AppendedRow
    <2> QED
      BY <1>6, <2>1, <2>2 DEF BeginImport, TypeOK, TypeOfThreads
  <1>7. CASE PublishProgress(t)
    BY <1>7, NewestRun DEF PublishProgress, Goto, TypeOK, ThreadPcs, Phases, NoTotal
  <1>8. CASE SpawnWorker(t)
    <2>1. TypeOfThreads'
      BY <1>8, ForgetType DEF SpawnWorker, Returned, Raised, ThreadPcs
    <2>2. job' \in Jobs /\ wpc' \in WorkerPcs
      BY <1>8, NewestRun DEF SpawnWorker, TypeOK, Jobs, NewJob, WorkerPcs, Errors
    <2> QED
      BY <1>8, <2>1, <2>2 DEF SpawnWorker, TypeOK, TypeOfThreads
  <1>9. CASE ReadRow(t)
    BY <1>9, LastRowType DEF ReadRow, TypeOK, ThreadPcs
  <1>10. CASE AttachProgress(t)
    <2>1. TypeOfThreads'
      BY <1>10, ForgetType DEF AttachProgress, Returned, ThreadPcs
    <2>2. answer' \in [Pollers -> Statuses]
      BY <1>10, AttachedType DEF AttachProgress, TypeOK
    <2> QED
      BY <1>10, <2>1, <2>2 DEF AttachProgress, TypeOK, TypeOfThreads
  <1> QED
    BY <1>1, <1>2, <1>3, <1>4, <1>5, <1>6, <1>7, <1>8, <1>9, <1>10 DEF ThreadStep

(* A step of the worker keeps the types. *)
LEMMA MovedType ==
  ASSUME TypeOK, NEW run \in Nat, NEW ph \in Phases, NEW n \in Nat, NEW m \in Nat \cup {NoTotal}
  PROVE  Moved(run, ph, n, m) \in [run : Nat, phase : Phases, checked : Nat, total : Nat \cup {NoTotal}]
  BY DEF TypeOK, Moved

LEMMA WorkerTypes ==
  ASSUME TypeOK, WorkerRun, WorkerStep
  PROVE  TypeOK'
  <1> USE DEF disk, worker, threads
  <1> DEFINE Progresses == [run : Nat, phase : Phases, checked : Nat, total : Nat \cup {NoTotal}]
  <1>a. job \in Jobs /\ progress \in Progresses
    BY DEF TypeOK
  <1>f. /\ \A n \in Nat : [job EXCEPT !.total = n] \in Jobs
        /\ \A n, m \in Nat : [job EXCEPT !.checked = n, !.batch = m] \in Jobs
        /\ \A n, m \in Nat : [job EXCEPT !.batch = n, !.processed = m] \in Jobs
    BY <1>a DEF Jobs
  <1>h. job.total \in Nat /\ job.checked \in Nat /\ job.batch \in Nat /\ job.processed \in Nat
        /\ job.scan \in Nat /\ job.run \in Nat
    BY <1>a DEF Jobs
  <1>g. "source" \in Errors \ {"process_interrupted"} /\ "import_failed" \in Errors \ {"process_interrupted"}
    BY DEF Errors
  <1>b. \A code \in Errors \ {"process_interrupted"} :
          Failing(code) => job' \in Jobs /\ wpc' \in WorkerPcs
    BY <1>a DEF Failing, Jobs, WorkerPcs
  <1>c. wpc # "none" => /\ runs \in Seq(Rows)
                        /\ job.run \in DOMAIN runs
                        /\ runs[job.run] \in Rows
                        /\ \A i \in DOMAIN runs : ErrorIffEnded(runs[i])
    BY NewestRun DEF WorkerRun, WorkerAlive, TypeOK
  <1>1. CASE EnterScan
    BY <1>1, <1>a DEF EnterScan, TypeOK, Jobs, WorkerPcs
  <1>2. CASE Walk
    <2>1. CASE "walk" \in Faults /\ Failing("source") /\ UNCHANGED progress
      BY <1>2, <2>1, <1>g, <1>b DEF Walk, TypeOK
    <2>2. ASSUME NEW n \in 0 .. MaxFiles,
                 job' = [job EXCEPT !.total = n],
                 \E ph \in {"finalizing", "checking"} : progress' = Moved(job.scan, ph, 0, n),
                 wpc' \in {"finalize", "check"}
          PROVE  TypeOK'
      <3>0. n \in Nat
        BY <2>2, RunConstants
      <3>1. job' \in Jobs
        BY <2>2, <3>0, <1>f
      <3>2. progress' \in Progresses
        BY <2>2, <3>0, <1>h, MovedType DEF Phases
      <3> QED
        BY <1>2, <2>2, <3>1, <3>2 DEF Walk, TypeOK, WorkerPcs
    <2> QED
      BY <1>2, <2>1, <2>2 DEF Walk
  <1>3. CASE CheckFile
    <2>1. CASE "read" \in Faults /\ Failing("source") /\ UNCHANGED progress
      BY <1>3, <2>1, <1>g, <1>b DEF CheckFile, TypeOK
    <2>2. ASSUME NEW payload \in {0, 1},
                 job' = [job EXCEPT !.checked = job.checked + 1, !.batch = job.batch + payload],
                 \E ph \in {"finalizing", "checking"} :
                   progress' = Moved(job.scan, ph, job.checked + 1, job.total),
                 wpc' \in {"commit", "finalize", "check"}
          PROVE  TypeOK'
      <3>0. job.checked + 1 \in Nat /\ job.batch + payload \in Nat
        BY <1>h
      <3>1. job' \in Jobs
        BY <2>2, <3>0, <1>f
      <3>2. progress' \in Progresses
        BY <2>2, <3>0, <1>h, MovedType DEF Phases
      <3> QED
        BY <1>3, <2>2, <3>1, <3>2 DEF CheckFile, TypeOK, WorkerPcs
    <2> QED
      BY <1>3, <2>1, <2>2 DEF CheckFile
  <1>4. CASE CommitBatch
    <2>1. job' \in Jobs /\ wpc' \in WorkerPcs
      <3>0. job.processed + job.batch \in Nat
        BY <1>h
      <3>1. CASE job' = [job EXCEPT !.batch = 0, !.processed = job.processed + job.batch] /\ wpc' = "advance"
        BY <3>0, <3>1, <1>f DEF WorkerPcs
      <3>2. CASE Failing("import_failed")
        BY <3>2, <1>g, <1>b
      <3> QED
        BY <1>4, <3>1, <3>2 DEF CommitBatch
    <2>2. runs' \in Seq(Rows) /\ \A i \in DOMAIN runs' : ErrorIffEnded(runs'[i])
      <3> DEFINE new == [runs[job.run] EXCEPT !.committed = @ + job.batch]
      <3>1. runs' = runs \/ runs' = [runs EXCEPT ![job.run] = new]
        BY <1>4 DEF CommitBatch
      <3>2. new \in Rows /\ ErrorIffEnded(new)
        <4>1. runs[job.run].committed + job.batch \in Nat
          BY <1>4, <1>h, <1>c DEF CommitBatch, Rows
        <4>2. runs[job.run] \in Rows /\ ErrorIffEnded(runs[job.run])
          BY <1>4, <1>c DEF CommitBatch
        <4> QED
          BY <4>1, <4>2 DEF Rows, ErrorIffEnded
      <3> HIDE DEF new
      <3> QED
        BY <1>4, <1>c, <3>1, <3>2, ReplacedRow DEF CommitBatch
    <2> QED
      BY <1>4, <2>1, <2>2 DEF CommitBatch, TypeOK
  <1>5. CASE AdvanceImport
    <2>1. job' \in Jobs /\ wpc' \in WorkerPcs
      BY <1>5, <1>a, <1>b DEF AdvanceImport, Jobs, WorkerPcs, Errors
    <2>2. runs' \in Seq(Rows) /\ \A i \in DOMAIN runs' : ErrorIffEnded(runs'[i])
      <3> DEFINE new == [runs[job.run] EXCEPT !.processed = job.processed]
      <3>1. runs' = runs \/ runs' = [runs EXCEPT ![job.run] = new]
        BY <1>5 DEF AdvanceImport
      <3>2. new \in Rows /\ ErrorIffEnded(new)
        BY <1>5, <1>a, <1>c DEF AdvanceImport, Rows, Jobs, ErrorIffEnded
      <3> HIDE DEF new
      <3> QED
        BY <1>5, <1>c, <3>1, <3>2, ReplacedRow DEF AdvanceImport
    <2> QED
      BY <1>5, <2>1, <2>2 DEF AdvanceImport, TypeOK
  <1>6. CASE Finalize
    BY <1>6, <1>a, MovedType DEF Finalize, TypeOK, WorkerPcs, Jobs, Phases
  <1>7. CASE MarkMissing
    <2>1. job' \in Jobs /\ wpc' \in WorkerPcs
      BY <1>7, <1>a, <1>b DEF MarkMissing, Jobs, WorkerPcs, Errors
    <2> QED
      BY <1>7, <2>1 DEF MarkMissing, TypeOK
  <1>8. CASE Cleanup
    BY <1>8, <1>a, MovedType DEF Cleanup, TypeOK, WorkerPcs, Jobs, Phases
  <1>9. CASE AssignProjects
    BY <1>9, <1>a DEF AssignProjects, TypeOK, WorkerPcs, Jobs, Errors
  <1>10. CASE FinishImport
    <2>1. runs' \in Seq(Rows) /\ \A i \in DOMAIN runs' : ErrorIffEnded(runs'[i])
      <3> DEFINE old == runs[job.run]
                 new == [state |-> IF job.error = "none" THEN "succeeded" ELSE "failed",
                         processed |-> job.processed, error |-> job.error,
                         roots |-> old.roots, committed |-> old.committed]
      <3>1. new \in Rows /\ ErrorIffEnded(new)
        BY <1>10, <1>a, <1>c DEF FinishImport, Rows, Jobs, RunStates, ErrorIffEnded
      <3>2. runs' = runs \/ runs' = [runs EXCEPT ![job.run] = new]
        BY <1>10, <1>c DEF FinishImport, Rows
      <3> HIDE DEF new
      <3> QED
        BY <1>10, <1>c, <3>1, <3>2, ReplacedRow DEF FinishImport
    <2> QED
      BY <1>10, <2>1 DEF FinishImport, TypeOK, WorkerPcs
  <1>11. CASE WorkerExit
    BY <1>11 DEF WorkerExit, TypeOK, WorkerPcs, Jobs, NoJob, NewJob, Errors
  <1> QED
    BY <1>1, <1>2, <1>3, <1>4, <1>5, <1>6, <1>7, <1>8, <1>9, <1>10, <1>11 DEF WorkerStep

(* A request, a launch or an end of the process keeps the types. *)
Request == \/ \E c \in Pollers : AskStatus(c)
           \/ \E c \in Clients : AskRefresh(c) \/ AskSave(c)
Process == Launch \/ Serve \/ Shutdown \/ Exit \/ Crash

LEMMA RequestTypes == ASSUME TypeOK, Request PROVE TypeOK'
<1>1. PICK c \in Threads, where \in {"read_row", "start_lock", "roots_lock"}, r \in Roots \cup {NoRoots} : Ask(c, where, r)
  BY DEF Request, AskStatus, AskRefresh, AskSave, Threads
<1>2. pc' \in [Threads -> ThreadPcs] /\ arg' \in [Threads -> Roots \cup {NoRoots}]
  BY <1>1 DEF Ask, TypeOK, ThreadPcs
<1>3. UNCHANGED <<runs, config, proc, lock, wpc, job, progress, row, answer>>
  BY <1>1 DEF Ask, disk, worker
<1> QED BY <1>2, <1>3 DEF TypeOK

LEMMA NoProcessTypes == ASSUME TypeOK, NoProcess PROVE TypeOK'
  BY DEF NoProcess, TypeOK, disk, ThreadPcs, WorkerPcs, Jobs, NoJob, NewJob, NoProgress, Errors,
         IdleRow, StatusRows, Statuses, Bare, Shown, Phases, NoTotal

LEMMA ProcessTypes == ASSUME TypeOK, Process PROVE TypeOK'
  <1> USE DEF disk, worker, threads
  <1>1. CASE Launch
    BY <1>1, InterruptedRows DEF Launch, TypeOK, ThreadPcs, Threads
  <1>2. CASE Serve
    BY <1>2 DEF Serve, TypeOK, ThreadPcs
  <1>3. CASE Shutdown
    BY <1>3 DEF Shutdown, TypeOK
  <1>4. CASE Exit \/ Crash
    BY <1>4, NoProcessTypes DEF Exit, Crash
  <1> QED
    BY <1>1, <1>2, <1>3, <1>4 DEF Process

LEMMA NextSplit ==
  ASSUME [Next]_vars
  PROVE  Request \/ (\E t \in Threads : ThreadStep(t)) \/ WorkerStep \/ Process \/ UNCHANGED vars
  BY DEF Next, Request, Process, LeftOff

LEMMA Types == ASSUME TypeOK, WorkerRun, [Next]_vars PROVE TypeOK'
  <1>1. CASE UNCHANGED vars
    BY <1>1 DEF vars, TypeOK
  <1> QED
    BY <1>1, NextSplit, RequestTypes, ThreadTypes, WorkerTypes, ProcessTypes

-----------------------------------------------------------------------------
(* The inductive invariant. *)

LEMMA CoreInit == Init => CoreInv
  <1> SUFFICES ASSUME Init PROVE CoreInv
    OBVIOUS
  <1>1. TypeOK
    BY DEF Init, TypeOK, ThreadPcs, WorkerPcs, Jobs, NoJob, NewJob, NoProgress, Errors,
           IdleRow, StatusRows, Statuses, Bare, Shown, Phases, NoTotal
  <1> QED
    BY <1>1 DEF Init, CoreInv, LockDiscipline, LockPcs, DownIsQuiet, WorkerRun, StarterRun, OnlyNewestRuns,
                RootsStable, WorkerAlive

(* The holder of the lock is the only thread inside set_roots or start_import,
   so what it has read of the worker and of the saved sources still holds. *)
LEMMA ThreadCore ==
  ASSUME CoreInv, NEW t \in Threads, ThreadStep(t), TypeOK'
  PROVE  CoreInv'
  <1> USE DEF disk, worker, threads
  <1>a. /\ pc \in [Threads -> ThreadPcs] /\ arg \in [Threads -> Roots \cup {NoRoots}]
        /\ Free \notin Threads
    BY RunConstants DEF CoreInv, TypeOK, Free, Threads
  <1>b. LockDiscipline /\ DownIsQuiet /\ WorkerRun /\ StarterRun /\ OnlyNewestRuns /\ RootsStable
    BY DEF CoreInv
  <1>c. proc # "down"
    BY <1>b DEF DownIsQuiet, ThreadStep, RootsLock, RootsCheck, RootsWrite, StartLock, StartCheck,
                Acquire, BeginImport, PublishProgress, SpawnWorker, ReadRow, AttachProgress
  <1>1. CASE RootsLock(t) \/ StartLock(t)
    <2>1. LockDiscipline'
      BY <1>1, <1>a, <1>b DEF RootsLock, StartLock, Acquire, LockDiscipline, LockPcs, WorkerAlive
    <2>2. (DownIsQuiet /\ WorkerRun /\ StarterRun /\ OnlyNewestRuns /\ RootsStable)'
      BY <1>1, <1>a, <1>b, <1>c DEF RootsLock, StartLock, Acquire, DownIsQuiet, WorkerRun, StarterRun,
         OnlyNewestRuns, RootsStable, WorkerAlive, RunInProgress, LastRun
    <2> QED
      BY <2>1, <2>2 DEF CoreInv
  <1>2. CASE RootsCheck(t) \/ RootsWrite(t)
    <2>1. LockDiscipline'
      BY <1>2, <1>a, <1>b DEF RootsCheck, RootsWrite, Raised, Forget, Goto, LockDiscipline, LockPcs, WorkerAlive
    <2>2. (DownIsQuiet /\ WorkerRun /\ StarterRun /\ OnlyNewestRuns /\ RootsStable)'
      BY <1>2, <1>a, <1>b, <1>c DEF RootsCheck, RootsWrite, Raised, Forget, Goto, LockDiscipline, LockPcs,
         DownIsQuiet, WorkerRun, StarterRun, OnlyNewestRuns, RootsStable, WorkerAlive, RunInProgress, LastRun
    <2> QED
      BY <2>1, <2>2 DEF CoreInv
  <1>3. CASE StartCheck(t) \/ PublishProgress(t) \/ ReadRow(t) \/ AttachProgress(t)
    <2>1. LockDiscipline'
      BY <1>3, <1>a, <1>b DEF StartCheck, PublishProgress, ReadRow, AttachProgress, Returned, Forget, Goto,
         LockDiscipline, LockPcs, WorkerAlive
    <2>2. (DownIsQuiet /\ WorkerRun /\ StarterRun /\ OnlyNewestRuns /\ RootsStable)'
      BY <1>3, <1>a, <1>b, <1>c DEF StartCheck, PublishProgress, ReadRow, AttachProgress, Returned, Forget, Goto,
         DownIsQuiet, WorkerRun, StarterRun, OnlyNewestRuns, RootsStable, WorkerAlive, RunInProgress, LastRun
    <2> QED
      BY <2>1, <2>2 DEF CoreInv
  <1>4. CASE SpawnWorker(t)
    <2>1. LockDiscipline'
      BY <1>4, <1>a, <1>b DEF SpawnWorker, Returned, Raised, Forget, LockDiscipline, LockPcs, WorkerAlive
    <2>2. (DownIsQuiet /\ StarterRun /\ OnlyNewestRuns)'
      BY <1>4, <1>a, <1>b, <1>c DEF SpawnWorker, Returned, Raised, Forget,
         DownIsQuiet, StarterRun, OnlyNewestRuns, RunInProgress, LastRun
    <2>3. (WorkerRun /\ RootsStable)'
      BY <1>4, <1>a, <1>b DEF SpawnWorker, NewJob, LockDiscipline, StarterRun, WorkerRun, RootsStable,
         WorkerAlive, RunInProgress, LastRun
    <2> QED
      BY <2>1, <2>2, <2>3 DEF CoreInv
  <1>5. CASE BeginImport(t)
    <2>1. LockDiscipline'
      BY <1>5, <1>a, <1>b DEF BeginImport, Returned, Raised, Forget, Goto, LockDiscipline, LockPcs, WorkerAlive
    <2>2. (DownIsQuiet /\ RootsStable)'
      BY <1>5, <1>a, <1>b, <1>c DEF BeginImport, Returned, Raised, Forget, Goto,
         DownIsQuiet, RootsStable, WorkerAlive
    <2>3. ~WorkerAlive
      BY <1>5, <1>b DEF BeginImport, LockDiscipline
    <2>4. (WorkerRun)'
      BY <1>5, <2>3 DEF BeginImport, WorkerRun, WorkerAlive
    <2>5. (StarterRun /\ OnlyNewestRuns)'
      <3>1. CASE runs' = runs
        BY <1>5, <3>1, <1>a, <1>b DEF BeginImport, Returned, Raised, Forget, Goto, StarterRun, OnlyNewestRuns,
           RunInProgress, LastRun
      <3>2. CASE runs' # runs
        <4> DEFINE new == [state |-> "running", processed |-> 0, error |-> "none",
                           roots |-> arg[t], committed |-> 0]
        <4>1. runs \in Seq(Rows) /\ new \in Rows
          BY <1>a DEF CoreInv, TypeOK, Rows, RunStates, Errors
        <4>2. runs' = Append(runs, new) /\ ~RunInProgress
          BY <1>5, <3>2 DEF BeginImport
        <4>3. new.state = "running" /\ new.processed = 0
          OBVIOUS
        <4> HIDE DEF new
        <4>4. Len(runs') = Len(runs) + 1 /\ runs'[Len(runs) + 1] = new /\ runs' # <<>>
              /\ DOMAIN runs' = DOMAIN runs \cup {Len(runs) + 1} /\ \A i \in DOMAIN runs : runs'[i] = runs[i]
          BY <4>1, <4>2, AppendedRow
        <4>5. RunInProgress' /\ runs'[LastRun'].processed = 0
          BY <4>3, <4>4 DEF RunInProgress, LastRun
        <4>6. \A i \in DOMAIN runs : runs[i].state # "running"
          BY <1>b, <4>2, <4>1 DEF OnlyNewestRuns, RunInProgress, LastRun
        <4> QED
          BY <4>4, <4>5, <4>6 DEF StarterRun, OnlyNewestRuns, LastRun
      <3> QED
        BY <3>1, <3>2
    <2> QED
      BY <2>1, <2>2, <2>4, <2>5 DEF CoreInv
  <1> QED
    BY <1>1, <1>2, <1>3, <1>4, <1>5 DEF ThreadStep

(* The live worker owns the newest row, which only its own updates touch. *)
LEMMA WorkerCore ==
  ASSUME CoreInv, WorkerStep, TypeOK'
  PROVE  CoreInv'
  <1> USE DEF disk, worker, threads
  <1>a. wpc # "none" /\ WorkerAlive
    BY DEF WorkerStep, EnterScan, Walk, CheckFile, CommitBatch, AdvanceImport, Finalize, MarkMissing,
           Cleanup, AssignProjects, FinishImport, WorkerExit, WorkerAlive
  <1>b. LockDiscipline /\ DownIsQuiet /\ WorkerRun /\ StarterRun /\ OnlyNewestRuns /\ RootsStable
    BY DEF CoreInv
  <1>c. UNCHANGED <<config, proc, lock, pc, arg>> /\ proc # "down"
    BY <1>a, <1>b DEF DownIsQuiet,
           WorkerStep, EnterScan, Walk, CheckFile, CommitBatch, AdvanceImport, Finalize, MarkMissing,
           Cleanup, AssignProjects, FinishImport, WorkerExit
  <1>d. \A t \in Threads : pc[t] \notin {"begin", "publish", "spawn"}
    BY <1>a, <1>b DEF LockDiscipline
  <1>e. (LockDiscipline /\ DownIsQuiet /\ StarterRun)'
    BY <1>a, <1>b, <1>c, <1>d DEF LockDiscipline, DownIsQuiet, StarterRun, WorkerAlive
  <1>f. job \in Jobs /\ runs \in Seq(Rows) /\ job.run = LastRun /\ job.run \in DOMAIN runs /\ runs # <<>>
    BY <1>a, <1>b, NewestRun DEF WorkerRun, CoreInv, TypeOK
  <1>g. job.batch \in Nat /\ job.processed \in Nat
    BY <1>f DEF Jobs
  <1>h. \A code : Failing(code) => /\ job'.run = job.run /\ job'.roots = job.roots
                                   /\ job'.processed = job.processed /\ wpc' = "cleanup"
    BY <1>f DEF Failing, Jobs
  <1>1. CASE EnterScan \/ Walk \/ CheckFile \/ Finalize \/ MarkMissing \/ Cleanup \/ AssignProjects
    <2>1. /\ job'.run = job.run /\ job'.roots = job.roots /\ job'.processed = job.processed
          /\ wpc' \notin {"none", "exit"} /\ wpc \notin {"none", "exit"} /\ UNCHANGED runs
      <3>1. CASE EnterScan \/ Finalize \/ MarkMissing \/ Cleanup \/ AssignProjects
        BY <1>f, <1>h, <3>1 DEF EnterScan, Finalize, MarkMissing, Cleanup, AssignProjects, Jobs
      <3>2. CASE Walk
        BY <1>f, <1>h, <3>2 DEF Walk, Jobs
      <3>3. CASE CheckFile
        BY <1>f, <1>h, <3>3 DEF CheckFile, Jobs
      <3> QED
        BY <1>1, <3>1, <3>2, <3>3
    <2> QED
      BY <1>b, <1>c, <1>e, <2>1 DEF CoreInv, WorkerRun, OnlyNewestRuns, RootsStable, WorkerAlive,
         RunInProgress, LastRun
  <1>2. CASE CommitBatch \/ AdvanceImport \/ FinishImport
    <2> DEFINE old == runs[job.run]
    <2>1. /\ job'.run = job.run /\ job'.roots = job.roots /\ job'.processed >= job.processed
          /\ wpc' # "none" /\ wpc \notin {"none", "exit"}
      <3>1. CASE CommitBatch
        <4>1. CASE Failing("import_failed") /\ wpc = "commit"
          BY <1>h, <1>g, <4>1
        <4>2. CASE job' = [job EXCEPT !.batch = 0, !.processed = job.processed + job.batch]
                   /\ wpc' = "advance" /\ wpc = "commit"
          <5>1. job' \in Jobs /\ job'.run = job.run /\ job'.roots = job.roots
                /\ job'.processed = job.processed + job.batch
            BY <1>f, <4>2, TypeOK' DEF TypeOK, Jobs
          <5> QED
            BY <1>g, <4>2, <5>1
        <4> QED
          BY <3>1, <4>1, <4>2 DEF CommitBatch
      <3>2. CASE AdvanceImport
        BY <1>f, <1>g, <1>h, <3>2 DEF AdvanceImport
      <3>3. CASE FinishImport
        BY <1>f, <1>g, <3>3 DEF FinishImport
      <3> QED
        BY <1>2, <3>1, <3>2, <3>3
    <2>2. old.state = "running" /\ old.processed <= job.processed /\ old \in Rows
      BY <1>b, <1>f, <2>1 DEF WorkerRun, RunInProgress
    <2>3. \/ UNCHANGED runs
          \/ \E r \in Rows : /\ runs' = [runs EXCEPT ![job.run] = r]
                             /\ wpc' # "exit" => r.state = "running" /\ r.processed <= job'.processed
      <3>1. CASE CommitBatch
        <4> DEFINE r == [old EXCEPT !.committed = @ + job.batch]
        <4>0. old.committed + job.batch \in Nat
          BY <2>2, <1>g DEF Rows
        <4>1. r \in Rows /\ r.state = "running" /\ r.processed = old.processed
          BY <2>2, <4>0 DEF Rows
        <4>2. runs' = runs \/ runs' = [runs EXCEPT ![job.run] = r]
          BY <3>1 DEF CommitBatch
        <4>3. old.processed <= job'.processed
          BY <2>1, <2>2, <1>g, <1>f, TypeOK' DEF Rows, TypeOK, Jobs
        <4> HIDE DEF r
        <4> QED
          BY <4>1, <4>2, <4>3
      <3>2. CASE AdvanceImport
        <4> DEFINE r == [old EXCEPT !.processed = job.processed]
        <4>1. r \in Rows /\ r.state = "running" /\ r.processed = job.processed
          BY <2>2, <1>g DEF Rows
        <4>2. runs' = runs \/ runs' = [runs EXCEPT ![job.run] = r]
          BY <3>2 DEF AdvanceImport
        <4>3. job.processed <= job'.processed
          BY <2>1, <1>g, <1>f, TypeOK' DEF TypeOK, Jobs
        <4> HIDE DEF r
        <4> QED
          BY <4>1, <4>2, <4>3
      <3>3. CASE FinishImport
        <4>1. runs' \in Seq(Rows) /\ (runs' = runs \/ \E r : runs' = [runs EXCEPT ![job.run] = r])
          BY <3>3, TypeOK' DEF FinishImport, TypeOK
        <4>2. CASE \E r : runs' = [runs EXCEPT ![job.run] = r]
          <5>1. PICK r : runs' = [runs EXCEPT ![job.run] = r]
            BY <4>2
          <5>2. r \in Rows
            BY <1>f, <4>1, <5>1
          <5> QED
            BY <3>3, <5>1, <5>2 DEF FinishImport
        <4> QED
          BY <4>1, <4>2
      <3> QED
        BY <1>2, <3>1, <3>2, <3>3
    <2>4. CASE UNCHANGED runs
      <3>1. old.processed <= job'.processed
        BY <2>1, <2>2, <1>g, <1>f, TypeOK' DEF Rows, TypeOK, Jobs
      <3> QED
        BY <1>a, <1>b, <1>c, <1>e, <1>f, <2>1, <2>2, <2>4, <3>1 DEF CoreInv, WorkerRun, OnlyNewestRuns, RootsStable,
           WorkerAlive, RunInProgress, LastRun
    <2>5. CASE \E r \in Rows : /\ runs' = [runs EXCEPT ![job.run] = r]
                               /\ wpc' # "exit" => r.state = "running" /\ r.processed <= job'.processed
      <3>1. PICK r \in Rows : /\ runs' = [runs EXCEPT ![job.run] = r]
                              /\ wpc' # "exit" => r.state = "running" /\ r.processed <= job'.processed
        BY <2>5
      <3>2. /\ Len(runs') = Len(runs) /\ DOMAIN runs' = DOMAIN runs /\ runs'[job.run] = r /\ runs' # <<>>
            /\ \A k \in DOMAIN runs : k # job.run => runs'[k] = runs[k]
        BY <1>f, <3>1, ReplacedRow
      <3>3. OnlyNewestRuns'
        BY <1>b, <1>f, <3>2 DEF OnlyNewestRuns, LastRun
      <3>4. WorkerRun' /\ RootsStable'
        BY <1>a, <1>b, <1>c, <1>f, <2>1, <3>1, <3>2 DEF WorkerRun, RootsStable, WorkerAlive, RunInProgress, LastRun
      <3> QED
        BY <1>e, <3>3, <3>4 DEF CoreInv
    <2> QED
      BY <2>3, <2>4, <2>5
  <1>3. CASE WorkerExit
    BY <1>3, <1>b, <1>c, <1>e DEF WorkerExit, CoreInv, WorkerRun, OnlyNewestRuns, RootsStable,
       WorkerAlive, RunInProgress, LastRun
  <1> QED
    BY <1>1, <1>2, <1>3 DEF WorkerStep

LEMMA RequestCore ==
  ASSUME CoreInv, Request, TypeOK'
  PROVE  CoreInv'
  <1>1. /\ UNCHANGED <<runs, config, proc, lock, wpc, job>> /\ proc = "up"
        /\ \E c \in Threads, where \in {"read_row", "start_lock", "roots_lock"} :
             pc[c] = "idle" /\ pc' = [pc EXCEPT ![c] = where] /\ \A t \in Threads \ {c} : arg'[t] = arg[t]
    BY DEF Request, AskStatus, AskRefresh, AskSave, Ask, Threads, CoreInv, TypeOK, disk, worker
  <1> QED
    BY <1>1 DEF CoreInv, LockDiscipline, LockPcs, DownIsQuiet, WorkerRun, StarterRun, OnlyNewestRuns,
                RootsStable, WorkerAlive, RunInProgress, LastRun, TypeOK

LEMMA ProcessCore ==
  ASSUME CoreInv, Process, TypeOK'
  PROVE  CoreInv'
  <1> USE DEF disk, worker, threads
  <1>b. LockDiscipline /\ DownIsQuiet /\ WorkerRun /\ StarterRun /\ OnlyNewestRuns /\ RootsStable /\ TypeOK
    BY DEF CoreInv
  <1>1. CASE Launch
    <2>1. /\ lock = Free /\ wpc = "none" /\ UNCHANGED <<lock, wpc, job, config>>
          /\ \A t \in Threads : pc'[t] \in {"idle", "roots_lock", "start_lock"}
      BY <1>1, <1>b DEF Launch, DownIsQuiet, TypeOK
    <2>2. runs' \in Seq(Rows) /\ \A i \in DOMAIN runs' : runs'[i].state # "running"
      BY <1>1, <1>b, InterruptedRows DEF Launch
    <2>3. (DownIsQuiet)'
      BY <1>1 DEF Launch, DownIsQuiet
    <2> QED
      BY <2>1, <2>2, <2>3 DEF CoreInv, LockDiscipline, LockPcs, WorkerRun, StarterRun, OnlyNewestRuns,
                RootsStable, WorkerAlive
  <1>2. CASE Serve
    BY <1>2, <1>b DEF Serve, CoreInv, LockDiscipline, LockPcs, DownIsQuiet, WorkerRun, StarterRun, OnlyNewestRuns,
                RootsStable, WorkerAlive, RunInProgress, LastRun, TypeOK
  <1>3. CASE Shutdown
    BY <1>3, <1>b DEF Shutdown, CoreInv, LockDiscipline, LockPcs, DownIsQuiet, WorkerRun, StarterRun, OnlyNewestRuns,
                RootsStable, WorkerAlive, RunInProgress, LastRun
  <1>4. CASE Exit \/ Crash
    BY <1>4, <1>b DEF Exit, Crash, NoProcess, CoreInv, LockDiscipline, LockPcs, DownIsQuiet, WorkerRun, StarterRun,
                OnlyNewestRuns, RootsStable, WorkerAlive, RunInProgress, LastRun
  <1> QED
    BY <1>1, <1>2, <1>3, <1>4 DEF Process

LEMMA CoreStep == ASSUME CoreInv, [Next]_vars PROVE CoreInv'
  <1>1. TypeOK'
    BY Types DEF CoreInv
  <1>2. CASE UNCHANGED vars
    BY <1>1, <1>2 DEF vars, CoreInv, LockDiscipline, DownIsQuiet, WorkerRun, StarterRun, OnlyNewestRuns,
                RootsStable, WorkerAlive, RunInProgress, LastRun
  <1> QED
    BY <1>1, <1>2, NextSplit, RequestCore, ThreadCore, WorkerCore, ProcessCore

(* The variables keep their types and the rows of import_run the contract of
   ImportStatus, whatever operations fail and wherever the process dies. *)
THEOREM TypeCorrect == Spec => []TypeOK
  <1>1. CoreInv => TypeOK
    BY DEF CoreInv
  <1> QED
    BY <1>1, CoreInit, CoreStep, PTL DEF Spec

(* set_roots and start_import never let the saved sources and the sources of
   the live import drift apart, whatever operations fail. *)
THEOREM RootsStayStable == Spec => []RootsStable
  <1>1. CoreInv => RootsStable
    BY DEF CoreInv
  <1> QED
    BY <1>1, CoreInit, CoreStep, PTL DEF Spec

-----------------------------------------------------------------------------
(* Where no run is stranded: neither the start of the thread nor the write
   that ends a run fails. *)
NoStranding == "spawn" \notin Faults /\ "finish" \notin Faults

LEMMA OwnedStep ==
  ASSUME NoStranding, CoreInv, CoreInv', RunningIsOwned, [Next]_vars
  PROVE  RunningIsOwned'
  <1> USE DEF disk, worker, threads
  <1>a. /\ pc \in [Threads -> ThreadPcs] /\ Free \notin Threads
        /\ LockDiscipline /\ DownIsQuiet /\ WorkerRun /\ StarterRun
    BY RunConstants DEF CoreInv, TypeOK, Free, Threads
  <1> SUFFICES ASSUME RunInProgress', proc' # "down"
               PROVE  \/ wpc' \notin {"none", "exit"} /\ job'.run = LastRun'
                      \/ \E t \in Threads : StartsRun(t)'
    BY DEF RunningIsOwned
  <1>w. wpc' \notin {"none", "exit"} => job'.run = LastRun'
    BY DEF CoreInv, WorkerRun, WorkerAlive
  <1>1. CASE Request \/ Serve \/ Shutdown \/ UNCHANGED vars
    <2>1. /\ UNCHANGED <<runs, lock, wpc, job>> /\ proc # "down"
          /\ \A t \in Threads : pc[t] \in {"publish", "spawn"} => pc'[t] = pc[t]
      BY <1>1, <1>a DEF Request, AskStatus, AskRefresh, AskSave, Ask, Serve, Shutdown, vars, DownIsQuiet, Threads
    <2> QED
      BY <2>1 DEF RunningIsOwned, RunInProgress, LastRun, StartsRun
  <1>2. CASE Launch
    BY <1>2, InterruptedRows DEF Launch, RunInProgress, LastRun, CoreInv
  <1>3. CASE Exit \/ Crash
    BY <1>3 DEF Exit, Crash, NoProcess
  <1>4. CASE WorkerStep
    <2>1. wpc \in {"exit", "finish"} \/ wpc' \notin {"none", "exit"}
      BY <1>4 DEF WorkerStep, EnterScan, Walk, CheckFile, CommitBatch, AdvanceImport, Finalize, MarkMissing,
           Cleanup, AssignProjects, FinishImport, WorkerExit, Failing
    <2>2. CASE wpc = "finish"
      <3>1. FinishImport
        BY <1>4, <2>2 DEF WorkerStep, EnterScan, Walk, CheckFile, CommitBatch, AdvanceImport, Finalize,
             MarkMissing, Cleanup, AssignProjects, WorkerExit
      <3>2. /\ runs \in Seq(Rows) /\ job.run = LastRun /\ LastRun \in DOMAIN runs /\ Updatable
        BY <1>a, <2>2, NewestRun DEF WorkerRun, WorkerAlive, CoreInv, TypeOK, Updatable, RunInProgress
      <3>3. runs' \in Seq(Rows)
        BY DEF CoreInv, TypeOK
      <3>4. LastRun' = LastRun /\ runs'[LastRun].state # "running"
        <4> DEFINE old == runs[job.run]
                   new == [state |-> IF job.error = "none" THEN "succeeded" ELSE "failed",
                           processed |-> job.processed, error |-> job.error,
                           roots |-> old.roots, committed |-> old.committed]
        <4>1. old \in Rows
          BY <3>2
        <4>2. runs' = [runs EXCEPT ![job.run] = new]
          BY <3>1, <3>2, <4>1 DEF FinishImport, NoStranding, Rows
        <4>3. new.state # "running"
          OBVIOUS
        <4> HIDE DEF new
        <4> QED
          BY <3>2, <4>2, <4>3 DEF LastRun
      <3> QED
        BY <3>4 DEF RunInProgress
    <2>3. CASE wpc = "exit"
      <3>1. WorkerExit
        BY <1>4, <2>3 DEF WorkerStep, EnterScan, Walk, CheckFile, CommitBatch, AdvanceImport, Finalize,
             MarkMissing, Cleanup, AssignProjects, FinishImport
      <3>2. \A t \in Threads : ~StartsRun(t)
        BY <1>a, <2>3 DEF LockDiscipline, StartsRun, WorkerAlive
      <3>3. ~RunInProgress \/ proc = "down"
        BY <2>3, <3>2 DEF RunningIsOwned
      <3> QED
        BY <3>1, <3>3 DEF WorkerExit, RunInProgress, LastRun
    <2> QED
      BY <1>w, <2>1, <2>2, <2>3
  <1>5. ASSUME NEW t \in Threads, ThreadStep(t) PROVE \/ wpc' \notin {"none", "exit"}
                                                      \/ \E u \in Threads : StartsRun(u)'
    <2>1. CASE BeginImport(t) \/ PublishProgress(t)
      <3>1. lock = t
        BY <2>1, <1>a DEF BeginImport, PublishProgress, LockDiscipline, LockPcs
      <3>2. CASE StartsRun(t)'
        BY <3>2
      <3>3. CASE ~StartsRun(t)'
        BY <2>1, <3>1, <3>3, <1>a DEF BeginImport, PublishProgress, Goto, StartsRun, Returned, Raised, Forget,
           RunningIsOwned, RunInProgress, LastRun, DownIsQuiet
      <3> QED
        BY <3>2, <3>3
    <2>2. CASE SpawnWorker(t)
      BY <2>2 DEF SpawnWorker, NoStranding
    <2>3. CASE ~BeginImport(t) /\ ~PublishProgress(t) /\ ~SpawnWorker(t)
      <3>1. /\ UNCHANGED <<runs, proc, wpc, job>>
            /\ \A u \in Threads : StartsRun(u) => StartsRun(u)'
        BY <1>5, <1>a, <2>3 DEF ThreadStep, RootsLock, RootsCheck, RootsWrite, StartLock, StartCheck, Acquire,
           ReadRow, AttachProgress, Raised, Returned, Forget, Goto, StartsRun, LockDiscipline, LockPcs
      <3> QED
        BY <3>1 DEF RunningIsOwned, RunInProgress, LastRun
    <2> QED
      BY <2>1, <2>2, <2>3
  <1> QED
    BY <1>w, <1>1, <1>2, <1>3, <1>4, <1>5, NextSplit DEF Process

(* A run shown as running in a live process has a thread that will end it. *)
THEOREM RunningStaysOwned == ASSUME NoStranding PROVE Spec => []RunningIsOwned
  <1>1. Init => RunningIsOwned
    BY DEF Init, RunningIsOwned
  <1>2. CoreInv /\ CoreInv' /\ RunningIsOwned /\ [Next]_vars => RunningIsOwned'
    BY OwnedStep
  <1> QED
    BY <1>1, <1>2, CoreInit, CoreStep, PTL DEF Spec

-----------------------------------------------------------------------------
(* The threads and requests implement RunLedger. *)

LEMMA ServiceInit == Init => Service!Init
  BY DEF Init, Service!Init, History, Alive

(* History is a sequence that shows the rows one by one. *)
LEMMA HistoryView ==
  ASSUME runs \in Seq(Rows)
  PROVE  /\ Len(History) = LastRun /\ DOMAIN History = 1 .. LastRun /\ LastRun \in Nat
         /\ \A i \in 1 .. LastRun : runs[i] \in Rows /\ History[i] = RowView(runs[i])
         /\ Service!Running(History) <=> RunInProgress
  <1>1. /\ Len(History) = LastRun /\ DOMAIN History = 1 .. LastRun /\ LastRun \in Nat
        /\ \A i \in 1 .. LastRun : runs[i] \in Rows /\ History[i] = RowView(runs[i])
    BY DEF History, LastRun
  <1>2. History # <<>> <=> runs # <<>>
    BY <1>1 DEF LastRun, History
  <1>3. runs # <<>> => History[LastRun].state = runs[LastRun].state
    BY <1>1 DEF RowView, LastRun
  <1> QED
    BY <1>1, <1>2, <1>3 DEF Service!Running, RunInProgress

(* Replacing the newest row by one over the same roots that counts no fewer
   files is a step of RunLedger or none. *)
LEMMA ServiceUpdate ==
  ASSUME runs \in Seq(Rows), RunInProgress, Alive, UNCHANGED <<config, Alive>>,
         NEW r \in Rows, runs' = [runs EXCEPT ![LastRun] = r],
         r.roots = runs[LastRun].roots, r.processed >= runs[LastRun].processed,
         r.state \in {"running", "succeeded", "failed"}
  PROVE  Service!Advance \/ Service!Finish
  <1>1. LastRun \in 1 .. LastRun /\ LastRun = Len(runs)
    BY DEF RunInProgress, LastRun
  <1>2. /\ runs' \in Seq(Rows) /\ LastRun' = LastRun /\ runs'[LastRun] = r
        /\ \A k \in 1 .. LastRun : k # LastRun => runs'[k] = runs[k]
        /\ DOMAIN runs' = 1 .. LastRun /\ DOMAIN runs = 1 .. LastRun
    BY <1>1, ReplacedRow DEF LastRun
  <1>3. /\ Len(History) = LastRun /\ DOMAIN History = 1 .. LastRun
        /\ \A i \in 1 .. LastRun : History[i] = RowView(runs[i])
        /\ Service!Running(History)
    BY HistoryView
  <1>4. /\ Len(History') = LastRun /\ DOMAIN History' = 1 .. LastRun
        /\ \A i \in 1 .. LastRun : History'[i] = RowView(runs'[i])
    <2>1. History' = [i \in DOMAIN runs' |-> RowView(runs'[i])]
      BY DEF History
    <2> QED
      BY <1>2, <2>1, HistoryView
  <1>5. History' = [History EXCEPT ![LastRun] = RowView(r)]
    <2>1. History = [i \in 1 .. LastRun |-> RowView(runs[i])]
          /\ History' = [i \in 1 .. LastRun |-> RowView(runs'[i])]
      BY <1>2 DEF History
    <2> QED
      BY <1>1, <1>2, <2>1
  <1>6. History'[LastRun] = RowView(r) /\ History[LastRun] = RowView(runs[LastRun])
    BY <1>1, <1>2, <1>3, <1>4
  <1>7. Service!Counted(History, History')
    <2>1. RowView(r).processed >= RowView(runs[LastRun]).processed
      BY DEF RowView
    <2>2. RowView(r) = [state |-> RowView(r).state, roots |-> RowView(runs[LastRun]).roots,
                        processed |-> RowView(r).processed]
      BY DEF RowView
    <2>3. History' = [History EXCEPT ![LastRun] = [state |-> History'[LastRun].state,
                        roots |-> History[LastRun].roots, processed |-> History'[LastRun].processed]]
      BY <1>5, <1>6, <2>2
    <2> QED
      BY <1>3, <1>4, <1>6, <2>1, <2>3 DEF Service!Counted
  <1>8. History'[LastRun].state = r.state /\ History' # <<>>
    BY <1>1, <1>4, <1>6 DEF RowView
  <1>9. CASE r.state = "running"
    <2>1. Service!Running(History')
      BY <1>4, <1>8, <1>9 DEF Service!Running
    <2> QED
      BY <1>3, <1>7, <2>1 DEF Service!Advance
  <1>10. CASE r.state \in {"succeeded", "failed"}
    BY <1>3, <1>7, <1>8, <1>10 DEF Service!Finish
  <1> QED
    BY <1>9, <1>10

(* A thread on its way to writing roots carries roots. *)
LEMMA SavesRootsStep == ASSUME TypeOK, SavesRoots, [Next]_vars PROVE SavesRoots'
  <1>1. CASE Request \/ Process \/ WorkerStep \/ UNCHANGED vars
    BY <1>1 DEF SavesRoots, Request, AskStatus, AskRefresh, AskSave, Ask, Process, Launch, Serve, Shutdown, Exit, Crash,
       NoProcess, vars, TypeOK, Threads, threads, WorkerStep, EnterScan, Walk, CheckFile, CommitBatch, AdvanceImport,
       Finalize, MarkMissing, Cleanup, AssignProjects, FinishImport, WorkerExit
  <1>2. CASE \E t \in Threads : ThreadStep(t)
    BY <1>2 DEF SavesRoots, TypeOK, ThreadStep, RootsLock, RootsCheck, RootsWrite, StartLock, StartCheck, Acquire,
       BeginImport, PublishProgress, SpawnWorker, ReadRow, AttachProgress, Raised, Returned, Forget, Goto
  <1> QED
    BY <1>1, <1>2, NextSplit

LEMMA ServiceStep ==
  ASSUME NoStranding, CoreInv, CoreInv', RunningIsOwned, SavesRoots, [Next]_vars
  PROVE  [Service!Next]_(Service!ledgerVars)
  <1> USE DEF disk, worker, threads
  <1>a. /\ pc \in [Threads -> ThreadPcs] /\ Free \notin Threads
        /\ LockDiscipline /\ DownIsQuiet /\ WorkerRun /\ StarterRun /\ RootsStable
        /\ arg \in [Threads -> Roots \cup {NoRoots}]
    BY RunConstants DEF CoreInv, TypeOK, Free, Threads
  <1>b. runs \in Seq(Rows) /\ runs' \in Seq(Rows) /\ config' \in Roots \cup {NoRoots} /\ job \in Jobs /\ job' \in Jobs
    BY DEF CoreInv, TypeOK
  <1>s. UNCHANGED <<runs, config, Alive>> => UNCHANGED Service!ledgerVars
    BY DEF Service!ledgerVars, History
  <1>1. CASE Request \/ Serve \/ Shutdown \/ UNCHANGED vars
    <2>1. UNCHANGED <<runs, config, Alive>>
      BY <1>1, <1>a DEF Request, AskStatus, AskRefresh, AskSave, Ask, Serve, Shutdown, vars, Alive
    <2> QED
      BY <2>1, <1>s
  <1>2. CASE Exit \/ Crash
    <2>1. UNCHANGED <<History, config>> /\ Alive /\ Alive' = FALSE
      BY <1>2 DEF Exit, Crash, NoProcess, Alive, History
    <2> QED
      BY <2>1 DEF Service!Next, Service!Stop
  <1>3. CASE Launch
    <2> DEFINE last == [History EXCEPT ![Len(History)].state = "interrupted"]
    <2>1. UNCHANGED config /\ ~Alive /\ Alive' = TRUE
      BY <1>3 DEF Launch, Alive
    <2>2. runs' = [i \in DOMAIN runs |-> IF runs[i].state = "running"
                            THEN [runs[i] EXCEPT !.state = "interrupted", !.error = "process_interrupted"]
                            ELSE runs[i]]
      BY <1>3 DEF Launch, InterruptRuns
    <2>3. \A i \in DOMAIN runs : runs[i].state = "running" <=> RunInProgress /\ i = LastRun
      BY <1>b DEF CoreInv, OnlyNewestRuns, RunInProgress, LastRun
    <2>4. CASE ~RunInProgress
      <3>0. \A i \in DOMAIN runs : runs'[i] = runs[i]
        BY <2>2, <2>3, <2>4
      <3>1. runs' = runs
        <4>1. DOMAIN runs' = DOMAIN runs /\ Len(runs') = Len(runs)
          <5>1. CoreInv => TypeOK
            BY DEF CoreInv
          <5>2. Len(runs') = Len(runs)
            BY <1>3, <5>1, InterruptedRows DEF Launch
          <5> QED
            BY <5>2, <1>b
        <4> QED
          BY <3>0, <4>1, <1>b
      <3> QED
        BY <2>1, <2>4, <3>1, <1>b, HistoryView DEF Service!Next, Service!Launch, History
    <2>5. CASE RunInProgress
      <3>1. LastRun \in 1 .. LastRun /\ DOMAIN runs = 1 .. LastRun /\ runs[LastRun] \in Rows
        BY <2>5, <1>b DEF RunInProgress, LastRun
      <3>2. /\ DOMAIN runs' = 1 .. LastRun
            /\ \A i \in 1 .. LastRun : i # LastRun => runs'[i] = runs[i]
        BY <2>2, <2>3, <3>1
      <3>3. RowView(runs'[LastRun]) = [RowView(runs[LastRun]) EXCEPT !.state = "interrupted"]
        <4>1. runs'[LastRun] = [runs[LastRun] EXCEPT !.state = "interrupted", !.error = "process_interrupted"]
          BY <2>2, <2>3, <2>5, <3>1
        <4> QED
          BY <3>1, <4>1 DEF RowView, Rows
      <3>4. History' = [i \in 1 .. LastRun |-> RowView(runs'[i])]
            /\ History = [i \in 1 .. LastRun |-> RowView(runs[i])]
        BY <3>1, <3>2 DEF History
      <3>5. History' = [History EXCEPT ![LastRun].state = "interrupted"]
        BY <3>1, <3>2, <3>3, <3>4
      <3>6. Len(History) = LastRun /\ Service!Running(History)
        BY <2>5, <1>b, HistoryView
      <3> QED
        BY <2>1, <3>5, <3>6 DEF Service!Next, Service!Launch
    <2> QED
      BY <2>4, <2>5
  <1>4. ASSUME NEW t \in Threads, ThreadStep(t) PROVE [Service!Next]_(Service!ledgerVars)
    <2>0. Alive /\ UNCHANGED Alive
      BY <1>4, <1>a DEF DownIsQuiet, ThreadStep, RootsLock, RootsCheck, RootsWrite, StartLock, StartCheck,
                  Acquire, BeginImport, PublishProgress, SpawnWorker, ReadRow, AttachProgress, Alive
    <2>1. CASE RootsWrite(t)
      <3>1. lock = t /\ ~StartsRun(t) /\ UNCHANGED runs
        BY <2>1, <1>a DEF RootsWrite, LockDiscipline, LockPcs, StartsRun
      <3>2. CASE config' = config
        BY <2>0, <3>1, <3>2, <1>s
      <3>3. CASE config' # config
        <4>1. config' = arg[t] /\ ~WorkerAlive
          BY <2>1, <3>3, <1>a DEF RootsWrite, LockDiscipline
        <4>2. ~RunInProgress
          BY <2>0, <3>1, <4>1 DEF RunningIsOwned, StartsRun, WorkerAlive, Alive
        <4>3. config' \in Roots
          BY <4>1, <2>1 DEF SavesRoots, RootsWrite
        <4> QED
          BY <2>0, <3>1, <4>2, <4>3, <1>b, HistoryView DEF Service!Next, Service!Configure, History
      <3> QED
        BY <3>2, <3>3
    <2>2. CASE BeginImport(t) /\ runs' # runs
      <3> DEFINE new == [state |-> "running", processed |-> 0, error |-> "none",
                         roots |-> arg[t], committed |-> 0]
      <3>1. ~RunInProgress /\ runs' = Append(runs, new) /\ UNCHANGED config /\ arg[t] = config
        BY <2>2, <1>a DEF BeginImport, LockDiscipline
      <3>2. RowView(new) = [state |-> "running", roots |-> config, processed |-> 0] /\ new \in Rows
        BY <3>1, <1>a DEF RowView, Rows, RunStates, Errors
      <3> HIDE DEF new
      <3>3. /\ DOMAIN runs' = 1 .. LastRun + 1 /\ runs'[LastRun + 1] = new
            /\ \A i \in 1 .. LastRun : runs'[i] = runs[i]
        BY <3>1, <3>2, <1>b, AppendedRow DEF LastRun
      <3>4. History' = [i \in 1 .. LastRun + 1 |-> IF i = LastRun + 1 THEN RowView(new) ELSE RowView(runs[i])]
        <4>1. History' = [i \in DOMAIN runs' |-> RowView(runs'[i])]
          BY DEF History
        <4> QED
          BY <3>3, <4>1, <1>b, HistoryView
      <3>5. /\ History \in Seq({RowView(r) : r \in Rows}) /\ Len(History) = LastRun
            /\ \A i \in 1 .. LastRun : History[i] = RowView(runs[i])
        BY <1>b, HistoryView DEF History, LastRun
      <3>6. History' = Append(History, RowView(new))
        <4>1. RowView(new) \in {RowView(r) : r \in Rows}
          BY <3>2
        <4>2. Append(History, RowView(new)) =
                [i \in 1 .. LastRun + 1 |-> IF i = LastRun + 1 THEN RowView(new) ELSE History[i]]
          BY <3>5, <4>1, AppendIsFunction
        <4>3. LastRun \in Nat
          BY <1>b, HistoryView
        <4> QED
          BY <3>4, <3>5, <4>2, <4>3
      <3> QED
        BY <2>0, <3>1, <3>2, <3>6, <1>b, HistoryView DEF Service!Next, Service!Begin
    <2>3. CASE ~RootsWrite(t) /\ ~(BeginImport(t) /\ runs' # runs)
      <3>1. UNCHANGED <<runs, config>>
        BY <1>4, <2>3 DEF ThreadStep, RootsLock, RootsCheck, StartLock, StartCheck,
                  Acquire, BeginImport, PublishProgress, SpawnWorker, ReadRow, AttachProgress
      <3> QED
        BY <2>0, <3>1, <1>s
    <2> QED
      BY <2>1, <2>2, <2>3
  <1>5. CASE WorkerStep
    <2>0. Alive /\ UNCHANGED <<config, Alive>> /\ wpc # "none"
      BY <1>5, <1>a DEF DownIsQuiet, Alive, WorkerStep, EnterScan, Walk, CheckFile, CommitBatch, AdvanceImport,
           Finalize, MarkMissing, Cleanup, AssignProjects, FinishImport, WorkerExit
    <2>1. CASE runs' = runs
      BY <2>0, <2>1, <1>s
    <2>2. CASE runs' # runs
      <3>1. wpc \in {"commit", "advance", "finish"} /\ (CommitBatch \/ AdvanceImport \/ FinishImport)
        BY <1>5, <2>2 DEF WorkerStep, EnterScan, Walk, CheckFile, CommitBatch, AdvanceImport, Finalize, MarkMissing,
           Cleanup, AssignProjects, FinishImport, WorkerExit
      <3>2. /\ RunInProgress /\ job.run = LastRun /\ LastRun \in DOMAIN runs /\ runs[LastRun] \in Rows
            /\ runs[LastRun].processed <= job.processed
        BY <3>1, <1>a, <1>b, NewestRun DEF WorkerRun, WorkerAlive, CoreInv, TypeOK, RunInProgress
      <3> DEFINE old == runs[LastRun]
      <3>3. old.committed \in Nat /\ old.processed \in Nat /\ job.batch \in Nat /\ job.processed \in Nat
            /\ old.state = "running"
        BY <3>2, <1>b DEF Rows, Jobs, RunInProgress
      <3>4. \E r \in Rows : /\ runs' = [runs EXCEPT ![LastRun] = r]
                            /\ r.roots = old.roots /\ r.processed >= old.processed
                            /\ r.state \in {"running", "succeeded", "failed"}
        <4>1. CASE CommitBatch
          <5> DEFINE r == [old EXCEPT !.committed = @ + job.batch]
          <5>0. old.committed + job.batch \in Nat
            BY <3>3
          <5>1. r \in Rows /\ r.state = "running" /\ r.processed = old.processed /\ r.roots = old.roots
            BY <3>2, <3>3, <5>0 DEF Rows
          <5>2. runs' = [runs EXCEPT ![LastRun] = r]
            BY <4>1, <2>2, <3>2 DEF CommitBatch
          <5> HIDE DEF r
          <5> QED
            <6>1. r.processed >= old.processed
              BY <5>1, <3>3
            <6> QED
              BY <5>1, <5>2, <6>1
        <4>2. CASE AdvanceImport
          <5> DEFINE r == [old EXCEPT !.processed = job.processed]
          <5>1. r \in Rows /\ r.state = "running" /\ r.processed = job.processed /\ r.roots = old.roots
            BY <3>2, <3>3 DEF Rows
          <5>2. runs' = [runs EXCEPT ![LastRun] = r]
            BY <4>2, <2>2, <3>2 DEF AdvanceImport
          <5> HIDE DEF r
          <5> QED
            BY <5>1, <5>2, <3>2, <3>3
        <4>3. CASE FinishImport
          <5> DEFINE r == [state |-> IF job.error = "none" THEN "succeeded" ELSE "failed",
                           processed |-> job.processed, error |-> job.error,
                           roots |-> old.roots, committed |-> old.committed]
          <5>1. r \in Rows /\ r.state \in {"succeeded", "failed"} /\ r.processed = job.processed
                /\ r.roots = old.roots
            BY <3>2, <3>3, <1>b DEF Rows, RunStates, Jobs
          <5>2. runs' = [runs EXCEPT ![LastRun] = r]
            BY <4>3, <2>2, <3>2, ZenonT(60) DEF FinishImport, Rows
          <5> HIDE DEF r
          <5> QED
            BY <5>1, <5>2, <3>2, <3>3
        <4> QED
          BY <3>1, <4>1, <4>2, <4>3
      <3> QED
        BY <2>0, <3>2, <3>4, <1>b, ServiceUpdate DEF Service!Next
    <2> QED
      BY <2>1, <2>2
  <1> QED
    BY <1>1, <1>2, <1>3, <1>4, <1>5, NextSplit DEF Process

(* Where no run is stranded, what the process does to its table and its saved
   sources is what RunLedger promises. *)
THEOREM RunsImplementLedger == ASSUME NoStranding PROVE Spec => Promise
  <1>1. CoreInv /\ CoreInv' /\ RunningIsOwned /\ SavesRoots /\ [Next]_vars => [Service!Next]_(Service!ledgerVars)
    BY ServiceStep
  <1>2. Init => RunningIsOwned
    BY DEF Init, RunningIsOwned
  <1>3. CoreInv /\ CoreInv' /\ RunningIsOwned /\ [Next]_vars => RunningIsOwned'
    BY OwnedStep
  <1>4. Init => SavesRoots
    BY DEF Init, SavesRoots
  <1>5. CoreInv /\ SavesRoots /\ [Next]_vars => SavesRoots'
    BY SavesRootsStep DEF CoreInv
  <1> QED
    BY <1>1, <1>2, <1>3, <1>4, <1>5, ServiceInit, CoreInit, CoreStep, PTL DEF Spec, Promise, Service!Spec

-----------------------------------------------------------------------------
(* What is counted. *)

(* The worker's step touches the newest row at most: a commit, an advance and a
   finish write it as they say, every other step leaves the table alone. *)
LEMMA WorkerRows ==
  ASSUME CoreInv, TypeOK', WorkerStep
  PROVE  /\ wpc # "none" /\ runs # <<>> /\ job.run = LastRun /\ LastRun \in DOMAIN runs
         /\ LastRun' = LastRun /\ DOMAIN runs' = DOMAIN runs /\ runs[LastRun] \in Rows
         /\ \A k \in DOMAIN runs : k # LastRun => runs'[k] = runs[k]
         /\ runs'[LastRun].roots = runs[LastRun].roots
         /\ UNCHANGED <<config, proc, lock, pc, arg, row, answer>>
         /\ \/ /\ CommitBatch /\ wpc' = "advance"
               /\ job'.batch = 0 /\ job'.processed = job.processed + job.batch
               /\ job'.checked = job.checked /\ job'.total = job.total /\ job'.scan = job.scan
               /\ job'.error = job.error /\ job'.roots = job.roots
               /\ runs'[LastRun].committed = runs[LastRun].committed + job.batch
               /\ runs'[LastRun].processed = runs[LastRun].processed
               /\ runs'[LastRun].state = runs[LastRun].state
            \/ /\ AdvanceImport /\ wpc' \in {"finalize", "check"} /\ UNCHANGED job
               /\ runs'[LastRun].committed = runs[LastRun].committed
               /\ runs'[LastRun].processed = job.processed
               /\ runs'[LastRun].state = runs[LastRun].state
            \/ /\ FinishImport
               /\ runs'[LastRun].committed = runs[LastRun].committed
               /\ runs'[LastRun].processed = job.processed
               /\ runs'[LastRun].state = IF job.error = "none" THEN "succeeded" ELSE "failed"
            \/ /\ UNCHANGED runs
               /\ CommitBatch \/ AdvanceImport => Failing("import_failed")
<1> USE DEF disk, worker, threads
<1>1. wpc # "none"
  BY DEF WorkerStep, EnterScan, Walk, CheckFile, CommitBatch, AdvanceImport, Finalize, MarkMissing,
         Cleanup, AssignProjects, FinishImport, WorkerExit
<1>2. /\ runs # <<>> /\ job.run = LastRun /\ LastRun \in DOMAIN runs /\ runs[LastRun] \in Rows
      /\ runs \in Seq(Rows) /\ runs' \in Seq(Rows) /\ job \in Jobs
  BY <1>1, NewestRun DEF CoreInv, WorkerRun, WorkerAlive, TypeOK
<1>3. UNCHANGED <<config, proc, lock, pc, arg, row, answer>>
  BY DEF WorkerStep, EnterScan, Walk, CheckFile, CommitBatch, AdvanceImport, Finalize, MarkMissing,
         Cleanup, AssignProjects, FinishImport, WorkerExit
<1> DEFINE old == runs[LastRun]
<1>4. ASSUME NEW r \in Rows, runs' = [runs EXCEPT ![job.run] = r]
      PROVE  /\ LastRun' = LastRun /\ DOMAIN runs' = DOMAIN runs /\ runs'[LastRun] = r
             /\ \A k \in DOMAIN runs : k # LastRun => runs'[k] = runs[k]
  BY <1>2, <1>4, ReplacedRow DEF LastRun
<1>5. CASE UNCHANGED runs /\ (CommitBatch \/ AdvanceImport => Failing("import_failed"))
  BY <1>1, <1>2, <1>3, <1>5 DEF LastRun
<1>6. CASE CommitBatch /\ ~(UNCHANGED runs /\ Failing("import_failed"))
  <2> DEFINE r == [old EXCEPT !.committed = @ + job.batch]
  <2>1. /\ runs' = [runs EXCEPT ![job.run] = r] /\ wpc' = "advance"
        /\ job' = [job EXCEPT !.batch = 0, !.processed = job.processed + job.batch]
    BY <1>2, <1>6 DEF CommitBatch
  <2>4. /\ job'.batch = 0 /\ job'.processed = job.processed + job.batch
        /\ job'.checked = job.checked /\ job'.total = job.total /\ job'.scan = job.scan
        /\ job'.error = job.error /\ job'.roots = job.roots
    BY <1>2, <2>1 DEF Jobs
  <2>2. old.committed + job.batch \in Nat
    BY <1>2 DEF Rows, Jobs
  <2>3. /\ r \in Rows /\ r.committed = old.committed + job.batch /\ r.processed = old.processed
        /\ r.state = old.state /\ r.roots = old.roots
    BY <1>2, <2>2 DEF Rows
  <2> HIDE DEF r
  <2> QED BY <1>1, <1>2, <1>3, <1>4, <1>6, <2>1, <2>3, <2>4
<1>7. CASE AdvanceImport /\ ~(UNCHANGED runs /\ Failing("import_failed"))
  <2> DEFINE r == [old EXCEPT !.processed = job.processed]
  <2>1. /\ runs' = [runs EXCEPT ![job.run] = r] /\ wpc' \in {"finalize", "check"} /\ UNCHANGED job
    BY <1>2, <1>7 DEF AdvanceImport
  <2>2. /\ r \in Rows /\ r.committed = old.committed /\ r.processed = job.processed
        /\ r.state = old.state /\ r.roots = old.roots
    BY <1>2 DEF Rows, Jobs
  <2> HIDE DEF r
  <2> QED BY <1>1, <1>2, <1>3, <1>4, <1>7, <2>1, <2>2
<1>8. CASE FinishImport /\ ~UNCHANGED runs
  <2> DEFINE r == [state |-> IF job.error = "none" THEN "succeeded" ELSE "failed",
                   processed |-> job.processed, error |-> job.error,
                   roots |-> old.roots, committed |-> old.committed]
  <2>1. runs' = [runs EXCEPT ![job.run] = r]
    BY <1>2, <1>8 DEF FinishImport, Rows
  <2>2. /\ r \in Rows /\ r.committed = old.committed /\ r.processed = job.processed
        /\ r.state = IF job.error = "none" THEN "succeeded" ELSE "failed"
        /\ r.roots = old.roots
    BY <1>2 DEF Rows, Jobs, RunStates
  <2> HIDE DEF r
  <2> QED BY <1>1, <1>2, <1>3, <1>4, <1>8, <2>1, <2>2
<1>9. CASE ~CommitBatch /\ ~AdvanceImport /\ ~FinishImport
  <2>1. UNCHANGED runs
    BY <1>9 DEF WorkerStep, EnterScan, Walk, CheckFile, Finalize, MarkMissing, Cleanup,
                AssignProjects, WorkerExit
  <2> QED BY <1>5, <1>9, <2>1
<1>10. CommitBatch => wpc = "commit"
  BY DEF CommitBatch
<1>11. AdvanceImport => wpc = "advance"
  BY DEF AdvanceImport
<1>12. FinishImport => wpc = "finish"
  BY DEF FinishImport
<1> QED BY <1>5, <1>6, <1>7, <1>8, <1>9, <1>10, <1>11, <1>12

(* A thread's step appends a running row over the saved sources, or leaves the
   table alone. *)
LEMMA ThreadRows ==
  ASSUME CoreInv, NEW t \in Threads, ThreadStep(t)
  PROVE  /\ UNCHANGED proc /\ proc # "down"
         /\ \/ UNCHANGED runs
            \/ /\ BeginImport(t) /\ ~RunInProgress /\ pc[t] = "begin" /\ lock = t
               /\ pc' = [pc EXCEPT ![t] = "publish"]
               /\ UNCHANGED <<arg, row, config, progress, answer, wpc, job, lock>>
               /\ LastRun' = LastRun + 1 /\ DOMAIN runs' = DOMAIN runs \cup {LastRun + 1}
               /\ \A k \in DOMAIN runs : runs'[k] = runs[k]
               /\ LastRun + 1 \notin DOMAIN runs
               /\ runs'[LastRun + 1].state = "running"
               /\ runs'[LastRun + 1].processed = 0 /\ runs'[LastRun + 1].committed = 0
               /\ runs'[LastRun + 1].roots = arg[t] /\ arg[t] = config
<1> USE DEF disk, worker, threads
<1>1. UNCHANGED proc /\ proc # "down"
  BY DEF CoreInv, DownIsQuiet, ThreadStep, RootsLock, RootsCheck, RootsWrite, StartLock, StartCheck,
                Acquire, BeginImport, PublishProgress, SpawnWorker, ReadRow, AttachProgress
<1>2. CASE BeginImport(t) /\ ~UNCHANGED runs
  <2> DEFINE new == [state |-> "running", processed |-> 0, error |-> "none",
                     roots |-> arg[t], committed |-> 0]
  <2>1. runs \in Seq(Rows) /\ new \in Rows
    BY DEF CoreInv, TypeOK, Rows, RunStates, Errors
  <2>2. /\ runs' = Append(runs, new) /\ ~RunInProgress /\ pc[t] = "begin"
        /\ pc' = [pc EXCEPT ![t] = "publish"]
        /\ UNCHANGED <<arg, row, config, progress, answer, wpc, job, lock>>
    BY <1>2 DEF BeginImport, Goto
  <2>3. lock = t /\ arg[t] = config
    BY <2>2 DEF CoreInv, LockDiscipline, LockPcs
  <2>4. /\ new.state = "running" /\ new.processed = 0 /\ new.committed = 0 /\ new.roots = arg[t]
    OBVIOUS
  <2> HIDE DEF new
  <2>5. LastRun' = LastRun + 1 /\ LastRun + 1 \notin DOMAIN runs
    BY <2>1, <2>2, AppendedRow DEF LastRun
  <2>6. /\ DOMAIN runs' = DOMAIN runs \cup {LastRun + 1} /\ runs'[LastRun + 1] = new
        /\ \A k \in DOMAIN runs : runs'[k] = runs[k]
    BY <2>1, <2>2, AppendedRow DEF LastRun
  <2> QED BY <1>1, <1>2, <2>2, <2>3, <2>4, <2>5, <2>6
<1>3. CASE ~BeginImport(t)
  BY <1>1, <1>3 DEF ThreadStep, RootsLock, RootsCheck, RootsWrite, StartLock, StartCheck,
                Acquire, PublishProgress, SpawnWorker, ReadRow, AttachProgress
<1> QED BY <1>1, <1>2, <1>3

(* What Launch leaves of each row. *)
LEMMA LaunchRows ==
  ASSUME CoreInv, Launch
  PROVE  /\ LastRun' = LastRun /\ DOMAIN runs' = DOMAIN runs
         /\ \A i \in DOMAIN runs : /\ runs'[i].processed = runs[i].processed
                                   /\ runs'[i].committed = runs[i].committed
                                   /\ runs'[i].state = IF runs[i].state = "running" THEN "interrupted"
                                                       ELSE runs[i].state
<1>0. runs \in Seq(Rows)
  BY DEF CoreInv, TypeOK
<1>1. /\ runs' = [i \in DOMAIN runs |->
                    IF runs[i].state = "running"
                    THEN [runs[i] EXCEPT !.state = "interrupted", !.error = "process_interrupted"]
                    ELSE runs[i]]
  BY DEF CoreInv, TypeOK, Launch, InterruptRuns
<1>2. \A i \in DOMAIN runs : runs[i] \in Rows
  BY <1>0
<1>3. ASSUME NEW i \in DOMAIN runs
      PROVE  /\ runs'[i].processed = runs[i].processed
             /\ runs'[i].committed = runs[i].committed
             /\ runs'[i].state = IF runs[i].state = "running" THEN "interrupted" ELSE runs[i].state
  <2> DEFINE r == runs[i]
             new == [r EXCEPT !.state = "interrupted", !.error = "process_interrupted"]
  <2>1. r \in Rows /\ runs'[i] = IF r.state = "running" THEN new ELSE r
    BY <1>1, <1>2
  <2>2. /\ new.processed = r.processed /\ new.committed = r.committed /\ new.state = "interrupted"
    BY <2>1 DEF Rows
  <2> HIDE DEF new
  <2> QED BY <2>1, <2>2
<1>4. LastRun' = LastRun /\ DOMAIN runs' = DOMAIN runs
  <2>1. CoreInv => TypeOK
    BY DEF CoreInv
  <2>2. Len(runs') = Len(runs) /\ runs' \in Seq(Rows)
    BY <2>1, InterruptedRows DEF Launch
  <2> QED BY <1>0, <2>2 DEF LastRun
<1> QED BY <1>3, <1>4

(* Where a run is stranded nothing but the next launch moves it. *)
LEMMA StrandedStep ==
  ASSUME CoreInv, CoreInv', [Next]_vars, NEW i \in DOMAIN runs, runs[i].state = "running", ~Owned(i)
  PROVE  \/ runs' = runs /\ ~Owned(i)'
         \/ proc = "down" /\ proc' # "down" /\ runs'[i].state = "interrupted"
<1> USE DEF disk, worker, threads
<1>1. /\ i = LastRun /\ RunInProgress /\ pc \in [Threads -> ThreadPcs] /\ Free \notin Threads
      /\ LockDiscipline /\ WorkerRun /\ DownIsQuiet /\ TypeOK /\ TypeOK'
  BY RunConstants DEF CoreInv, OnlyNewestRuns, RunInProgress, TypeOK, Threads, Free
<1>2. wpc \in {"none", "exit"} /\ \A t \in Threads : pc[t] \notin {"publish", "spawn"}
  BY <1>1 DEF Owned, StartsRun, WorkerRun, WorkerAlive, LockDiscipline, LockPcs
<1>3. ASSUME runs' = runs, wpc' \in {"none", "exit"}, \A t \in Threads : pc'[t] \notin {"publish", "spawn"}
      PROVE  runs' = runs /\ ~Owned(i)'
  BY <1>3 DEF Owned, StartsRun
<1>4. CASE Request \/ UNCHANGED vars
  BY <1>1, <1>2, <1>3, <1>4 DEF Request, AskStatus, AskRefresh, AskSave, Ask, vars
<1>5. ASSUME NEW t \in Threads, ThreadStep(t) PROVE runs' = runs /\ ~Owned(i)'
  <2>1. runs' = runs
    BY <1>1, <1>5, ThreadRows
  <2>2. /\ pc[t] \notin {"publish", "spawn"} /\ ~PublishProgress(t) /\ ~SpawnWorker(t)
    BY <1>2 DEF PublishProgress, SpawnWorker
  <2>3. wpc' = wpc /\ \A u \in Threads : u # t => pc'[u] = pc[u]
    BY <1>1, <1>5, <2>2 DEF ThreadStep, RootsLock, RootsCheck, RootsWrite, StartLock, StartCheck, Acquire,
       BeginImport, ReadRow, AttachProgress, Raised, Returned, Forget, Goto
  <2>4. pc'[t] \notin {"publish", "spawn"}
    <3>1. CASE BeginImport(t)
      BY <1>1, <2>1, <3>1 DEF BeginImport, Returned, Raised, Forget
    <3>2. CASE ~BeginImport(t)
      BY <1>1, <1>5, <2>2, <3>2 DEF ThreadStep, RootsLock, RootsCheck, RootsWrite, StartLock, StartCheck, Acquire,
         ReadRow, AttachProgress, Raised, Returned, Forget, Goto
    <3> QED BY <3>1, <3>2
  <2> QED BY <1>2, <1>3, <2>1, <2>3, <2>4
<1>6. CASE WorkerStep
  <2>1. WorkerExit
    BY <1>2, <1>6 DEF WorkerStep, EnterScan, Walk, CheckFile, CommitBatch, AdvanceImport, Finalize, MarkMissing,
       Cleanup, AssignProjects, FinishImport
  <2> QED BY <1>2, <1>3, <2>1 DEF WorkerExit
<1>7. CASE Launch
  <2>1. proc = "down" /\ proc' # "down"
    BY <1>7 DEF Launch
  <2> QED BY <1>7, <2>1, LaunchRows
<1>8. CASE Serve \/ Shutdown \/ Exit \/ Crash
  BY <1>1, <1>2, <1>3, <1>8 DEF Serve, Shutdown, Exit, Crash, NoProcess
<1> QED BY <1>4, <1>5, <1>6, <1>7, <1>8, NextSplit DEF Process

(* A run whose thread did not start or whose end could not be written is left
   to the next launch, whatever is asked or fails meanwhile. *)
THEOREM StrandedRunsWait == Spec => StrandedWaits
<1>1. CoreInv /\ CoreInv' /\ [Next]_vars =>
        [\A i \in DOMAIN runs : runs[i].state = "running" /\ ~Owned(i) =>
           \/ runs' = runs /\ ~Owned(i)'
           \/ proc = "down" /\ proc' # "down" /\ runs'[i].state = "interrupted"]_vars
  BY StrandedStep
<1> QED BY <1>1, CoreInit, CoreStep, PTL DEF Spec, StrandedWaits

(* Until its thread ends the run has committed what the worker has counted, and
   its row is behind by the last batch at most. *)
Working == wpc \notin {"none", "exit"}
Counted ==
  /\ ProcessedIsCommitted
  /\ Working => runs[LastRun].committed = job.processed
  /\ wpc \in {"enter", "walk", "check", "commit", "finalize", "missing"} =>
       runs[LastRun].processed = job.processed
  /\ wpc \in {"enter", "walk"} => job.batch = 0
  /\ wpc = "check" => job.batch < BatchSize
  /\ wpc = "commit" => job.batch <= BatchSize
  /\ wpc = "advance" => job.batch = 0
  /\ \A t \in Threads : pc[t] \in {"publish", "spawn"} => runs[LastRun].committed = 0

LEMMA WorkerCounts ==
  ASSUME CoreInv, CoreInv', Counted, WorkerStep
  PROVE  Counted'
<1> USE DEF disk, worker, threads
<1>0. /\ TypeOK' /\ job \in Jobs /\ job' \in Jobs /\ runs \in Seq(Rows)
      /\ LockDiscipline /\ WorkerRun /\ BatchSize \in Nat \ {0} /\ MaxFiles \in Nat
  BY RunConstants DEF CoreInv, TypeOK
<1>1. /\ wpc # "none" /\ runs # <<>> /\ job.run = LastRun /\ LastRun \in DOMAIN runs
      /\ LastRun' = LastRun /\ DOMAIN runs' = DOMAIN runs /\ runs[LastRun] \in Rows
      /\ \A k \in DOMAIN runs : k # LastRun => runs'[k] = runs[k]
      /\ UNCHANGED pc
  BY <1>0, WorkerRows
<1>2. \A t \in Threads : pc[t] \notin {"publish", "spawn"}
  BY <1>0, <1>1 DEF LockDiscipline, WorkerAlive
<1>3. runs[LastRun].committed \in Nat /\ runs[LastRun].processed \in Nat
      /\ job.processed \in Nat /\ job.batch \in Nat
  BY <1>0, <1>1 DEF Rows, Jobs
<1>4. Working => /\ runs[LastRun].state = "running"
                 /\ runs[LastRun].processed <= runs[LastRun].committed
                 /\ runs[LastRun].committed <= runs[LastRun].processed + BatchSize
  BY <1>0, <1>1 DEF WorkerRun, RunInProgress, Working, Counted, ProcessedIsCommitted
<1> DEFINE Bounded(r) == IF r.state \in {"succeeded", "failed"}
                         THEN r.processed = r.committed
                         ELSE r.processed <= r.committed /\ r.committed <= r.processed + BatchSize
<1>5. Bounded(runs'[LastRun]) => ProcessedIsCommitted'
  BY <1>1 DEF Counted, ProcessedIsCommitted
<1>6. CASE UNCHANGED runs /\ (CommitBatch \/ AdvanceImport => Failing("import_failed"))
  <2>1. ProcessedIsCommitted'
    BY <1>6 DEF Counted, ProcessedIsCommitted
  <2>2. CASE EnterScan \/ Finalize \/ MarkMissing \/ Cleanup \/ AssignProjects \/ FinishImport \/ WorkerExit
    <3>1. /\ Working => job'.processed = job.processed /\ job'.batch = job.batch
          /\ Working' => Working
          /\ wpc' \in {"enter", "walk", "check", "commit", "finalize", "missing"} =>
               wpc \in {"enter", "walk", "check", "commit", "finalize", "missing"}
          /\ wpc' \in {"enter", "walk"} => wpc \in {"enter", "walk"}
          /\ wpc' \notin {"check", "commit", "advance"}
      BY <1>0, <2>2 DEF EnterScan, Finalize, MarkMissing, Cleanup, AssignProjects, FinishImport, WorkerExit,
                        Failing, Working, Jobs
    <3> QED BY <1>1, <1>2, <1>6, <2>1, <3>1 DEF Counted, Working
  <2>3. CASE Walk
    <3>1. /\ wpc = "walk" /\ wpc' \in {"finalize", "check", "cleanup"}
          /\ job'.processed = job.processed /\ job'.batch = job.batch
      BY <1>0, <2>3 DEF Walk, Failing, Jobs
    <3>2. wpc' = "check" => job'.batch < BatchSize
      BY <1>0, <3>1 DEF Counted
    <3> QED BY <1>1, <1>2, <1>6, <2>1, <3>1, <3>2 DEF Counted, Working
  <2>4. CASE CheckFile
    <3>1. CASE Failing("source")
      <4>1. /\ wpc = "check" /\ wpc' = "cleanup" /\ job'.processed = job.processed
        BY <1>0, <2>4, <3>1 DEF CheckFile, Failing, Jobs
      <4> QED BY <1>1, <1>2, <1>6, <2>1, <4>1 DEF Counted, Working
    <3>2. CASE ~Failing("source")
      <4>1. PICK payload \in {0, 1} :
              LET done == job.checked + 1
                  size == job.batch + payload
                  over == done = job.total
              IN /\ job' = [job EXCEPT !.checked = done, !.batch = size]
                 /\ wpc' = IF size = BatchSize \/ (over /\ size > 0) THEN "commit"
                           ELSE IF over THEN "finalize" ELSE "check"
        BY <2>4, <3>2 DEF CheckFile
      <4> DEFINE size == job.batch + payload
      <4>2. size \in Nat /\ size <= BatchSize
        BY <1>0, <1>3, <2>4 DEF Counted, CheckFile
      <4>3. /\ job' = [job EXCEPT !.checked = job.checked + 1, !.batch = size]
            /\ wpc' \in {"commit", "finalize", "check"}
            /\ wpc' = "check" => size # BatchSize
        BY <4>1
      <4> HIDE DEF size
      <4>4. job'.batch = size /\ job'.processed = job.processed
        BY <1>0, <4>3 DEF Jobs
      <4>5. /\ wpc = "check"
            /\ wpc' = "check" => job'.batch < BatchSize
            /\ wpc' = "commit" => job'.batch <= BatchSize
        BY <1>0, <2>4, <4>2, <4>3, <4>4 DEF CheckFile
      <4> QED BY <1>1, <1>2, <1>6, <2>1, <4>3, <4>4, <4>5 DEF Counted, Working
    <3> QED BY <3>1, <3>2
  <2>5. CASE (CommitBatch \/ AdvanceImport) /\ Failing("import_failed")
    <3>1. /\ Working /\ wpc' = "cleanup" /\ job'.processed = job.processed
      BY <1>0, <2>5 DEF CommitBatch, AdvanceImport, Failing, Working, Jobs
    <3> QED BY <1>1, <1>2, <1>6, <2>1, <3>1 DEF Counted, Working
  <2> QED BY <1>6, <2>2, <2>3, <2>4, <2>5 DEF WorkerStep
<1>7. CASE /\ CommitBatch /\ wpc' = "advance"
           /\ job'.batch = 0 /\ job'.processed = job.processed + job.batch
           /\ runs'[LastRun].committed = runs[LastRun].committed + job.batch
           /\ runs'[LastRun].processed = runs[LastRun].processed
           /\ runs'[LastRun].state = runs[LastRun].state
  <2>1. /\ wpc = "commit" /\ Working
    BY <1>7 DEF CommitBatch, Working
  <2>2. runs[LastRun].processed = job.processed /\ job.batch <= BatchSize
        /\ runs[LastRun].committed = job.processed
    BY <2>1 DEF Counted
  <2>3. Bounded(runs'[LastRun])
    BY <1>0, <1>3, <1>4, <1>7, <2>1, <2>2
  <2> QED BY <1>1, <1>2, <1>5, <1>7, <2>2, <2>3 DEF Counted, Working
<1>8. CASE /\ AdvanceImport /\ wpc' \in {"finalize", "check"} /\ UNCHANGED job
           /\ runs'[LastRun].committed = runs[LastRun].committed
           /\ runs'[LastRun].processed = job.processed
           /\ runs'[LastRun].state = runs[LastRun].state
  <2>1. Working /\ wpc = "advance"
    BY <1>8 DEF AdvanceImport, Working
  <2>2. runs[LastRun].committed = job.processed
    BY <2>1 DEF Counted
  <2>3. Bounded(runs'[LastRun])
    BY <1>0, <1>3, <1>4, <1>8, <2>1, <2>2
  <2>4. job.batch < BatchSize
    BY <1>0, <2>1 DEF Counted
  <2> QED BY <1>1, <1>2, <1>5, <1>8, <2>2, <2>3, <2>4 DEF Counted, Working
<1>9. CASE /\ FinishImport
           /\ runs'[LastRun].committed = runs[LastRun].committed
           /\ runs'[LastRun].processed = job.processed
           /\ runs'[LastRun].state = IF job.error = "none" THEN "succeeded" ELSE "failed"
  <2>1. Working /\ wpc' = "exit"
    BY <1>9 DEF FinishImport, Working
  <2>2. runs[LastRun].committed = job.processed
    BY <2>1 DEF Counted
  <2>3. Bounded(runs'[LastRun])
    BY <1>9, <2>2
  <2> QED BY <1>1, <1>2, <1>5, <2>1, <2>3 DEF Counted, Working
<1> QED BY <1>0, <1>6, <1>7, <1>8, <1>9, WorkerRows

LEMMA CountedStep ==
  ASSUME CoreInv, CoreInv', Counted, [Next]_vars
  PROVE  Counted'
<1> USE DEF disk, worker, threads
<1>0. /\ runs \in Seq(Rows) /\ job \in Jobs /\ LockDiscipline /\ DownIsQuiet /\ StarterRun
      /\ pc \in [Threads -> ThreadPcs] /\ BatchSize \in Nat \ {0}
  BY RunConstants DEF CoreInv, TypeOK
<1>1. ASSUME UNCHANGED <<runs, wpc, job>>,
             \A t \in Threads : pc'[t] \in {"publish", "spawn"} => pc[t] \in {"publish", "spawn"}
      PROVE  Counted'
  BY <1>1 DEF Counted, ProcessedIsCommitted, Working, LastRun
<1>2. CASE Request \/ Serve \/ Shutdown \/ UNCHANGED vars
  <2>1. UNCHANGED <<runs, wpc, job>>
    BY <1>2 DEF Request, AskStatus, AskRefresh, AskSave, Ask, Serve, Shutdown, vars
  <2>2. \A t \in Threads : pc'[t] \in {"publish", "spawn"} => pc[t] \in {"publish", "spawn"}
    BY <1>0, <1>2 DEF Request, AskStatus, AskRefresh, AskSave, Ask, Serve, Shutdown, vars, Threads
  <2> QED BY <1>1, <2>1, <2>2
<1>3. CASE Launch
  <2>1. wpc = "none" /\ wpc' = "none"
    BY <1>0, <1>3 DEF Launch, DownIsQuiet
  <2>2. \A t \in Threads : pc'[t] \notin {"publish", "spawn"}
    BY <1>0, <1>3 DEF Launch, DownIsQuiet
  <2>3. ProcessedIsCommitted'
    BY <1>3, LaunchRows DEF Counted, ProcessedIsCommitted
  <2> QED BY <2>1, <2>2, <2>3 DEF Counted, Working
<1>4. CASE Exit \/ Crash
  <2>1. UNCHANGED runs /\ wpc' = "none" /\ \A t \in Threads : pc'[t] = "idle"
    BY <1>4 DEF Exit, Crash, NoProcess
  <2> QED BY <2>1 DEF Counted, ProcessedIsCommitted, Working
<1>5. CASE WorkerStep
  BY <1>5, WorkerCounts
<1>6. ASSUME NEW t \in Threads, ThreadStep(t) PROVE Counted'
  <2>1. CASE SpawnWorker(t)
    <3>1. CASE wpc' = "enter"
      <4>1. /\ UNCHANGED runs /\ job'.processed = 0 /\ job'.batch = 0
            /\ pc[t] = "spawn" /\ \A u \in Threads \ {t} : pc'[u] = pc[u]
            /\ pc'[t] = "idle"
        BY <1>0, <2>1, <3>1 DEF SpawnWorker, NewJob, Returned, Raised, Forget, LockDiscipline, WorkerAlive
      <4>2. runs[LastRun].committed = 0 /\ runs[LastRun].processed = 0
        BY <1>0, <4>1 DEF Counted, StarterRun
      <4> QED BY <1>0, <3>1, <4>1, <4>2 DEF Counted, ProcessedIsCommitted, Working, LastRun
    <3>2. CASE wpc' # "enter"
      <4>1. UNCHANGED <<runs, wpc, job>>
        BY <2>1, <3>2 DEF SpawnWorker
      <4>2. \A u \in Threads : pc'[u] \in {"publish", "spawn"} => pc[u] \in {"publish", "spawn"}
        BY <1>0, <2>1, <3>2 DEF SpawnWorker, Raised, Forget
      <4> QED BY <1>1, <4>1, <4>2
    <3> QED BY <3>1, <3>2
  <2>2. CASE BeginImport(t) /\ ~UNCHANGED runs
    <3>1. /\ pc[t] = "begin" /\ UNCHANGED <<wpc, job>> /\ LastRun' = LastRun + 1
          /\ DOMAIN runs' = DOMAIN runs \cup {LastRun + 1}
          /\ \A k \in DOMAIN runs : runs'[k] = runs[k]
          /\ runs'[LastRun + 1].state = "running"
          /\ runs'[LastRun + 1].processed = 0 /\ runs'[LastRun + 1].committed = 0
      BY <1>6, <2>2, ThreadRows
    <3>2. wpc = "none"
      BY <1>0, <3>1 DEF LockDiscipline, WorkerAlive
    <3>3. ProcessedIsCommitted'
      BY <1>0, <3>1 DEF Counted, ProcessedIsCommitted
    <3> QED BY <3>1, <3>2, <3>3 DEF Counted, Working
  <2>3. CASE ~SpawnWorker(t) /\ UNCHANGED runs
    <3>1. UNCHANGED <<wpc, job>>
      BY <1>6, <2>3 DEF ThreadStep, RootsLock, RootsCheck, RootsWrite, StartLock, StartCheck, Acquire,
         BeginImport, PublishProgress, ReadRow, AttachProgress
    <3>2. \A u \in Threads : pc'[u] \in {"publish", "spawn"} => pc[u] \in {"publish", "spawn"}
      <4>1. CASE BeginImport(t)
        BY <1>0, <1>6, <2>3, <4>1 DEF BeginImport, Returned, Raised, Forget, Goto
      <4>2. CASE ~BeginImport(t)
        BY <1>0, <1>6, <2>3, <4>2 DEF ThreadStep, RootsLock, RootsCheck, RootsWrite, StartLock, StartCheck, Acquire,
           PublishProgress, ReadRow, AttachProgress, Returned, Raised, Forget, Goto
      <4> QED BY <4>1, <4>2
    <3> QED BY <1>1, <2>3, <3>1, <3>2
  <2>4. UNCHANGED runs \/ BeginImport(t)
    BY <1>6, ThreadRows
  <2> QED BY <2>1, <2>2, <2>3, <2>4
<1> QED BY <1>2, <1>3, <1>4, <1>5, <1>6, NextSplit DEF Process

(* files_processed is what was committed: to the file in a run that finished,
   at most one batch short in a run the process died under or cannot finish. *)
THEOREM CommittedIsCounted == Spec => []ProcessedIsCommitted
<1>1. Init => Counted
  BY DEF Init, Counted, ProcessedIsCommitted, Working
<1>2. CoreInv /\ CoreInv' /\ Counted /\ [Next]_vars => Counted'
  BY CountedStep
<1>3. Counted => ProcessedIsCommitted
  BY DEF Counted
<1> QED BY <1>1, <1>2, <1>3, CoreInit, CoreStep, PTL DEF Spec

-----------------------------------------------------------------------------
(* What is checked. *)

(* The published progress is the worker's own as soon as the walk has counted
   the files: nothing is committed before it is checked, nothing is checked
   that was not counted, and a run that succeeds has checked every file. *)
TotalKnown == progress.total # NoTotal
Checked ==
  /\ progress.run = 0 => ~TotalKnown
  /\ progress.run <= LastRun
  /\ \A t \in Threads : /\ pc[t] = "publish" => progress.run < LastRun
                        /\ pc[t] = "spawn" => progress.run = LastRun /\ ~TotalKnown
  /\ WorkerAlive => progress.run = LastRun /\ (wpc # "enter" => job.scan = LastRun)
  /\ wpc \in {"enter", "walk"} => ~TotalKnown /\ job.checked = 0
  /\ wpc \in {"check", "commit", "advance", "finalize", "missing"} => TotalKnown
  /\ Working => job.processed + job.batch <= job.checked
  /\ Working /\ TotalKnown => progress.total = job.total /\ progress.checked = job.checked
  /\ wpc = "check" => job.checked < job.total
  /\ wpc \in {"finalize", "missing"} => job.checked = job.total
  /\ wpc \in {"cleanup", "attribute", "finish"} /\ job.error = "none" =>
       TotalKnown /\ job.checked = job.total
  /\ TotalKnown => /\ progress.checked <= progress.total
                   /\ runs[progress.run].processed <= progress.checked
                   /\ runs[progress.run].state = "succeeded" => progress.checked = progress.total

Progresses == [run : Nat, phase : Phases, checked : Nat, total : Nat \cup {NoTotal}]

LEMMA WorkerChecks ==
  ASSUME CoreInv, CoreInv', Counted, Checked, WorkerStep
  PROVE  Checked'
<1> USE DEF disk, worker, threads
<1>0. /\ TypeOK' /\ job \in Jobs /\ job' \in Jobs /\ progress \in Progresses
      /\ LockDiscipline /\ WorkerRun /\ MaxFiles \in Nat /\ NoTotal \notin Nat
  BY RunConstants DEF CoreInv, TypeOK, NoTotal, Progresses
<1>1. /\ wpc # "none" /\ runs # <<>> /\ job.run = LastRun /\ LastRun \in DOMAIN runs
      /\ LastRun' = LastRun /\ runs[LastRun] \in Rows /\ LastRun \in Nat \ {0}
      /\ UNCHANGED pc
  BY <1>0, WorkerRows, NewestRun DEF CoreInv
<1>2. \A t \in Threads : pc[t] \notin {"publish", "spawn"}
  BY <1>0, <1>1 DEF LockDiscipline, WorkerAlive
<1>3. /\ runs[LastRun].processed \in Nat /\ job.processed \in Nat /\ job.batch \in Nat
      /\ job.checked \in Nat /\ job.total \in Nat /\ progress.checked \in Nat
      /\ progress.total \in Nat \cup {NoTotal} /\ progress.run = LastRun
      /\ wpc # "enter" => job.scan = LastRun
  BY <1>0, <1>1 DEF Rows, Jobs, Progresses, Checked, WorkerAlive
<1>4. Working => runs[LastRun].state = "running"
  BY <1>0, <1>1 DEF WorkerRun, RunInProgress, Working
<1>5. \A ph : \A n \in Nat, m \in Nat :
        Moved(LastRun, ph, n, m) = [run |-> LastRun, phase |-> ph, checked |-> n, total |-> m]
  BY <1>1, <1>3 DEF Moved
<1>6. CASE EnterScan
  <2>1. /\ UNCHANGED <<runs, progress>> /\ wpc = "enter" /\ wpc' = "walk" /\ job'.scan = LastRun
        /\ job'.checked = job.checked /\ job'.processed = job.processed /\ job'.batch = job.batch
    BY <1>0, <1>3, <1>6 DEF EnterScan, Jobs
  <2> QED BY <1>1, <1>2, <1>3, <2>1 DEF Checked, TotalKnown, Working, WorkerAlive
<1>a. ASSUME NEW code \in {"source", "import_failed"}, Failing(code), Working, UNCHANGED <<runs, progress>>,
             wpc # "enter"
      PROVE  Checked'
  <2>1. /\ wpc' = "cleanup" /\ job'.scan = job.scan /\ job'.error # "none"
        /\ job'.checked = job.checked /\ job'.processed = job.processed /\ job'.batch = job.batch
        /\ job'.total = job.total
    BY <1>0, <1>a DEF Failing, Jobs
  <2> QED BY <1>1, <1>2, <1>3, <1>a, <2>1 DEF Checked, TotalKnown, Working, WorkerAlive
<1>7. CASE Walk
  <2>1. CASE Failing("source") /\ UNCHANGED progress
    BY <1>7, <1>a, <2>1 DEF Walk, Working
  <2>2. CASE ~(Failing("source") /\ UNCHANGED progress)
    <3>1. PICK n \in 0 .. MaxFiles :
            /\ job' = [job EXCEPT !.total = n]
            /\ progress' = Moved(job.scan, IF n = 0 THEN "finalizing" ELSE "checking", 0, n)
            /\ wpc' = IF n = 0 THEN "finalize" ELSE "check"
      BY <1>7, <2>2 DEF Walk
    <3>2. n \in Nat /\ wpc = "walk" /\ UNCHANGED runs
      BY <1>0, <1>7 DEF Walk
    <3>3. progress'.run = LastRun /\ progress'.checked = 0 /\ progress'.total = n
      <4>1. PICK ph : progress' = Moved(job.scan, ph, 0, n)
        BY <3>1
      <4>2. job.scan = LastRun
        BY <1>3, <3>2
      <4> QED BY <1>5, <3>2, <4>1, <4>2
    <3>4. /\ job'.total = n /\ job'.scan = job.scan /\ job'.checked = job.checked
          /\ job'.processed = job.processed /\ job'.batch = job.batch /\ job'.error = job.error
      BY <1>0, <3>1 DEF Jobs
    <3>5. job.checked = 0 /\ runs[LastRun].processed = job.processed /\ job.processed + job.batch <= 0
      BY <3>2 DEF Checked, Counted, Working
    <3> QED BY <1>0, <1>1, <1>2, <1>3, <1>4, <3>1, <3>2, <3>3, <3>4, <3>5 DEF Checked, TotalKnown, Working, WorkerAlive
  <2> QED BY <2>1, <2>2
<1>8. CASE CheckFile
  <2>1. CASE Failing("source") /\ UNCHANGED progress
    BY <1>8, <1>a, <2>1 DEF CheckFile, Working
  <2>2. CASE ~(Failing("source") /\ UNCHANGED progress)
    <3> DEFINE done == job.checked + 1
               over == done = job.total
    <3>1. PICK payload \in {0, 1} :
            /\ job' = [job EXCEPT !.checked = done, !.batch = job.batch + payload]
            /\ progress' = Moved(job.scan, IF over THEN "finalizing" ELSE "checking", done, job.total)
            /\ wpc' = IF job.batch + payload = BatchSize \/ (over /\ job.batch + payload > 0) THEN "commit"
                      ELSE IF over THEN "finalize" ELSE "check"
      BY <1>8, <2>2 DEF CheckFile
    <3>2. wpc = "check" /\ UNCHANGED runs /\ done \in Nat
      BY <1>3, <1>8 DEF CheckFile
    <3>3. progress'.run = LastRun /\ progress'.checked = done /\ progress'.total = job.total
      BY <1>3, <1>5, <3>1, <3>2
    <3>4. /\ job'.total = job.total /\ job'.scan = job.scan /\ job'.checked = done
          /\ job'.processed = job.processed /\ job'.batch = job.batch + payload /\ job'.error = job.error
      BY <1>0, <3>1 DEF Jobs
    <3>5. wpc' \in {"commit", "finalize", "check"} /\ (wpc' = "finalize" => over) /\ (wpc' = "check" => ~over)
      BY <3>1
    <3>6. /\ job.checked < job.total /\ runs[LastRun].processed <= job.checked
          /\ job.processed + job.batch <= job.checked
      BY <1>3, <3>2 DEF Checked, Working, TotalKnown
    <3>7. done <= job.total /\ runs[LastRun].processed <= done /\ job.processed + (job.batch + payload) <= done
      BY <1>3, <3>6
    <3>8. wpc' = "check" => done < job.total
      BY <1>3, <3>5, <3>7
    <3> QED BY <1>0, <1>1, <1>2, <1>3, <1>4, <3>2, <3>3, <3>4, <3>5, <3>7, <3>8 DEF Checked, TotalKnown, Working, WorkerAlive
  <2> QED BY <2>1, <2>2
<1>9. CASE Finalize \/ Cleanup
  <2>0. Working /\ wpc # "enter"
    BY <1>9 DEF Finalize, Cleanup, Working
  <2>1. /\ UNCHANGED <<runs, job>> /\ progress'.run = LastRun /\ progress'.checked = progress.checked
        /\ progress'.total = progress.total
    BY <1>0, <1>1, <1>3, <1>9 DEF Finalize, Cleanup, Moved
  <2>2. CASE Finalize
    BY <1>1, <1>2, <1>3, <2>1, <2>2 DEF Finalize, Checked, TotalKnown, Working, WorkerAlive
  <2>3. CASE Cleanup
    BY <1>1, <1>2, <1>3, <2>1, <2>3 DEF Cleanup, Checked, TotalKnown, Working, WorkerAlive
  <2> QED BY <1>9, <2>2, <2>3
<1>10. CASE MarkMissing
  <2>1. CASE Failing("import_failed")
    BY <1>10, <1>a, <2>1 DEF MarkMissing, Working
  <2>2. CASE wpc' = "cleanup" /\ UNCHANGED job
    BY <1>1, <1>2, <1>3, <1>10, <2>2 DEF MarkMissing, Checked, TotalKnown, Working, WorkerAlive
  <2> QED BY <1>10, <2>1, <2>2 DEF MarkMissing
<1>11. CASE AssignProjects
  <2>1. /\ job'.scan = job.scan /\ job'.checked = job.checked /\ job'.total = job.total
        /\ job'.processed = job.processed /\ job'.batch = job.batch
        /\ job'.error = "none" => job.error = "none"
    BY <1>0, <1>11 DEF AssignProjects, Jobs
  <2>2. wpc = "attribute" /\ wpc' = "finish" /\ UNCHANGED <<runs, progress>>
    BY <1>11 DEF AssignProjects
  <2> QED BY <1>1, <1>2, <1>3, <2>1, <2>2 DEF Checked, TotalKnown, Working, WorkerAlive
<1>12. CASE WorkerExit
  BY <1>1, <1>2, <1>3, <1>12 DEF WorkerExit, Checked, TotalKnown, Working, WorkerAlive
<1>13. CASE CommitBatch
  <2>1. CASE UNCHANGED runs /\ Failing("import_failed")
    BY <1>13, <1>a, <2>1 DEF CommitBatch, Working
  <2>2. CASE /\ wpc' = "advance" /\ job'.batch = 0 /\ job'.processed = job.processed + job.batch
             /\ job'.checked = job.checked /\ job'.total = job.total /\ job'.scan = job.scan
             /\ job'.error = job.error
             /\ runs'[LastRun].processed = runs[LastRun].processed
             /\ runs'[LastRun].state = runs[LastRun].state
    <3>1. wpc = "commit" /\ UNCHANGED progress
      BY <1>13 DEF CommitBatch
    <3> QED BY <1>1, <1>2, <1>3, <2>2, <3>1 DEF Checked, TotalKnown, Working, WorkerAlive
  <2>3. wpc = "commit" /\ ~AdvanceImport /\ ~FinishImport
    BY <1>13 DEF CommitBatch, AdvanceImport, FinishImport
  <2> QED BY <1>0, <1>13, <2>1, <2>2, <2>3, WorkerRows
<1>14. CASE AdvanceImport
  <2>1. CASE UNCHANGED runs /\ Failing("import_failed")
    BY <1>14, <1>a, <2>1 DEF AdvanceImport, Working
  <2>2. CASE /\ wpc' \in {"finalize", "check"} /\ UNCHANGED job
             /\ runs'[LastRun].processed = job.processed
             /\ runs'[LastRun].state = runs[LastRun].state
    <3>1. wpc = "advance" /\ UNCHANGED progress
      BY <1>14 DEF AdvanceImport
    <3>2. wpc' = IF job.checked = job.total THEN "finalize" ELSE "check"
      BY <1>14, <2>2 DEF AdvanceImport, Failing
    <3>3. job.processed + job.batch <= job.checked /\ progress.total = job.total /\ progress.checked = job.checked
          /\ progress.checked <= progress.total
      BY <3>1 DEF Checked, Working, TotalKnown
    <3>4. job.processed <= job.checked /\ job.checked <= job.total
      BY <1>3, <3>3
    <3> QED BY <1>1, <1>2, <1>3, <1>4, <2>2, <3>1, <3>2, <3>3, <3>4 DEF Checked, TotalKnown, Working, WorkerAlive
  <2>3. wpc = "advance" /\ ~CommitBatch /\ ~FinishImport
    BY <1>14 DEF CommitBatch, AdvanceImport, FinishImport
  <2> QED BY <1>0, <1>14, <2>1, <2>2, <2>3, WorkerRows
<1>15. CASE FinishImport
  <2>0. wpc = "finish" /\ wpc' = "exit" /\ UNCHANGED <<job, progress>>
    BY <1>15 DEF FinishImport
  <2>1. CASE UNCHANGED runs
    BY <1>1, <1>2, <1>3, <2>0, <2>1 DEF Checked, TotalKnown, Working, WorkerAlive
  <2>2. CASE /\ runs'[LastRun].processed = job.processed
             /\ runs'[LastRun].state = IF job.error = "none" THEN "succeeded" ELSE "failed"
    <3>1. job.processed + job.batch <= job.checked
          /\ (TotalKnown => progress.total = job.total /\ progress.checked = job.checked)
          /\ (job.error = "none" => TotalKnown /\ job.checked = job.total)
      BY <2>0 DEF Checked, Working
    <3>2. job.processed <= job.checked
      BY <1>3, <3>1
    <3> QED BY <1>1, <1>2, <1>3, <2>0, <2>2, <3>1, <3>2 DEF Checked, TotalKnown, Working, WorkerAlive
  <2>3. ~CommitBatch /\ ~AdvanceImport
    BY <2>0 DEF CommitBatch, AdvanceImport
  <2> QED BY <1>0, <1>15, <2>1, <2>2, <2>3, WorkerRows
<1> QED BY <1>6, <1>7, <1>8, <1>9, <1>10, <1>11, <1>12, <1>13, <1>14, <1>15 DEF WorkerStep

LEMMA CheckedStep ==
  ASSUME CoreInv, CoreInv', Counted, Checked, [Next]_vars
  PROVE  Checked'
<1> USE DEF disk, worker, threads
<1>0. /\ runs \in Seq(Rows) /\ job \in Jobs /\ LockDiscipline /\ DownIsQuiet /\ StarterRun
      /\ pc \in [Threads -> ThreadPcs] /\ progress \in Progresses /\ LastRun \in Nat
      /\ DOMAIN runs = 1 .. LastRun /\ NoTotal \notin Nat
  BY NewestRun DEF CoreInv, TypeOK, NoTotal, Progresses
<1>1. ASSUME UNCHANGED <<runs, wpc, job, progress>>,
             \A t \in Threads : pc'[t] \in {"publish", "spawn"} => pc[t] = pc'[t]
      PROVE  Checked'
  BY <1>1 DEF Checked, TotalKnown, Working, WorkerAlive, LastRun
<1>2. CASE Request \/ Serve \/ Shutdown \/ UNCHANGED vars
  <2>1. UNCHANGED <<runs, wpc, job, progress>>
    BY <1>2 DEF Request, AskStatus, AskRefresh, AskSave, Ask, Serve, Shutdown, vars
  <2>2. \A t \in Threads : pc'[t] \in {"publish", "spawn"} => pc[t] = pc'[t]
    BY <1>0, <1>2 DEF Request, AskStatus, AskRefresh, AskSave, Ask, Serve, Shutdown, vars, Threads
  <2> QED BY <1>1, <2>1, <2>2
<1>3. CASE Launch
  <2>1. wpc = "none" /\ wpc' = "none" /\ UNCHANGED progress
    BY <1>0, <1>3 DEF Launch, DownIsQuiet
  <2>2. \A t \in Threads : pc'[t] \notin {"publish", "spawn"}
    BY <1>0, <1>3 DEF Launch, DownIsQuiet
  <2>3. TotalKnown => progress.run \in DOMAIN runs
    BY <1>0 DEF Checked, Progresses
  <2> QED BY <1>0, <1>3, <2>1, <2>2, <2>3, LaunchRows DEF Checked, TotalKnown, Working, WorkerAlive
<1>4. CASE Exit \/ Crash
  <2>1. /\ UNCHANGED runs /\ wpc' = "none" /\ progress' = NoProgress
        /\ \A t \in Threads : pc'[t] = "idle"
    BY <1>4 DEF Exit, Crash, NoProcess
  <2> QED BY <1>0, <2>1 DEF Checked, TotalKnown, Working, WorkerAlive, NoProgress, LastRun
<1>5. CASE WorkerStep
  BY <1>5, WorkerChecks
<1>6. ASSUME NEW t \in Threads, ThreadStep(t) PROVE Checked'
  <2>1. CASE SpawnWorker(t) /\ wpc' = "enter"
    <3>1. /\ UNCHANGED <<runs, progress>> /\ job' = NewJob(LastRun, arg[t])
          /\ pc[t] = "spawn" /\ \A u \in Threads \ {t} : pc'[u] = pc[u]
          /\ pc'[t] = "idle"
      BY <1>0, <2>1 DEF SpawnWorker, Returned, Raised, Forget, LockDiscipline, WorkerAlive
    <3> QED BY <1>0, <2>1, <3>1 DEF Checked, TotalKnown, Working, WorkerAlive, LastRun, NewJob
  <2>2. CASE BeginImport(t) /\ ~UNCHANGED runs
    <3>1. /\ pc[t] = "begin" /\ UNCHANGED <<wpc, job, progress>> /\ LastRun' = LastRun + 1
          /\ \A k \in DOMAIN runs : runs'[k] = runs[k]
          /\ pc' = [pc EXCEPT ![t] = "publish"]
      BY <1>6, <2>2, ThreadRows
    <3>2. wpc = "none" /\ \A u \in Threads \ {t} : pc'[u] \notin {"publish", "spawn"}
      BY <1>0, <3>1, RunConstants DEF LockDiscipline, LockPcs, WorkerAlive
    <3>3. progress.run <= LastRun /\ progress.run \in Nat
      BY <1>0 DEF Checked, Progresses
    <3>4. TotalKnown => runs'[progress.run] = runs[progress.run]
      BY <1>0, <3>1, <3>3 DEF Checked
    <3> QED BY <1>0, <3>1, <3>2, <3>3, <3>4 DEF Checked, TotalKnown, Working, WorkerAlive
  <2>3. CASE PublishProgress(t)
    <3>1. /\ pc[t] = "publish" /\ UNCHANGED <<wpc, job, runs>>
          /\ progress' = [run |-> LastRun, phase |-> "discovering", checked |-> 0, total |-> NoTotal]
          /\ pc' = [pc EXCEPT ![t] = "spawn"]
      BY <2>3 DEF PublishProgress, Goto
    <3>2. wpc = "none" /\ \A u \in Threads \ {t} : pc'[u] \notin {"publish", "spawn"}
      BY <1>0, <3>1, RunConstants DEF LockDiscipline, LockPcs, WorkerAlive
    <3> QED BY <1>0, <3>1, <3>2 DEF Checked, TotalKnown, Working, WorkerAlive, LastRun
  <2>4. CASE ~(SpawnWorker(t) /\ wpc' = "enter") /\ ~PublishProgress(t) /\ UNCHANGED runs
    <3>1. UNCHANGED <<wpc, job, progress>>
      BY <1>6, <2>4 DEF ThreadStep, RootsLock, RootsCheck, RootsWrite, StartLock, StartCheck, Acquire,
         BeginImport, SpawnWorker, ReadRow, AttachProgress
    <3>2. \A u \in Threads : pc'[u] \in {"publish", "spawn"} => pc[u] = pc'[u]
      <4>1. CASE BeginImport(t)
        BY <1>0, <1>6, <2>4, <4>1 DEF BeginImport, Returned, Raised, Forget, Goto
      <4>2. CASE ~BeginImport(t)
        BY <1>0, <1>6, <2>4, <4>2 DEF ThreadStep, RootsLock, RootsCheck, RootsWrite, StartLock, StartCheck, Acquire,
           SpawnWorker, ReadRow, AttachProgress, Returned, Raised, Forget, Goto
      <4> QED BY <4>1, <4>2
    <3> QED BY <1>1, <2>4, <3>1, <3>2
  <2>5. UNCHANGED runs \/ BeginImport(t)
    BY <1>6, ThreadRows
  <2> QED BY <2>1, <2>2, <2>3, <2>4, <2>5
<1> QED BY <1>2, <1>3, <1>4, <1>5, <1>6, NextSplit DEF Process

-----------------------------------------------------------------------------
(* What a poller is told. *)

(* No step takes anything back from the table: rows stay, their counts grow and
   a run that ended stays as it ended. *)
LEMMA RunsGrow ==
  ASSUME CoreInv, CoreInv', [Next]_vars
  PROVE  /\ LastRun \in Nat /\ LastRun' \in Nat /\ LastRun <= LastRun'
         /\ \A k \in 1 .. LastRun : /\ runs[k] \in Rows /\ runs'[k] \in Rows
                                    /\ runs[k].processed <= runs'[k].processed
                                    /\ runs[k].state # "running" => runs'[k].state = runs[k].state
<1> USE DEF disk, worker, threads
<1>0. /\ runs \in Seq(Rows) /\ runs' \in Seq(Rows) /\ LastRun \in Nat /\ LastRun' \in Nat
      /\ DOMAIN runs = 1 .. LastRun /\ DOMAIN runs' = 1 .. LastRun' /\ WorkerRun /\ job \in Jobs
  BY DEF CoreInv, TypeOK, LastRun
<1>1. /\ \A k \in 1 .. LastRun : runs[k] \in Rows /\ runs[k].processed \in Nat
      /\ \A k \in 1 .. LastRun' : runs'[k] \in Rows
  <2>1. \A k \in 1 .. LastRun : runs[k] \in Rows
    BY <1>0
  <2>2. \A k \in 1 .. LastRun' : runs'[k] \in Rows
    BY <1>0
  <2>3. \A r \in Rows : r.processed \in Nat
    BY DEF Rows
  <2> QED BY <2>1, <2>2, <2>3
<1>2. SUFFICES /\ LastRun <= LastRun'
               /\ \A k \in 1 .. LastRun : /\ runs[k].processed <= runs'[k].processed
                                          /\ runs[k].state # "running" => runs'[k].state = runs[k].state
  BY <1>0, <1>1
<1>3. CASE UNCHANGED runs
  BY <1>0, <1>1, <1>3 DEF LastRun
<1>4. CASE Launch
  BY <1>0, <1>1, <1>4, LaunchRows
<1>5. ASSUME NEW t \in Threads, ThreadStep(t), ~UNCHANGED runs
      PROVE  LastRun <= LastRun' /\ \A k \in 1 .. LastRun : runs'[k] = runs[k]
  BY <1>0, <1>5, ThreadRows
<1>6. CASE WorkerStep /\ ~UNCHANGED runs
  <2>1. /\ LastRun' = LastRun /\ LastRun \in DOMAIN runs
        /\ \A k \in DOMAIN runs : k # LastRun => runs'[k] = runs[k]
        /\ \/ /\ CommitBatch
              /\ runs'[LastRun].processed = runs[LastRun].processed
              /\ runs'[LastRun].state = runs[LastRun].state
           \/ (AdvanceImport \/ FinishImport) /\ runs'[LastRun].processed = job.processed
    BY <1>6, WorkerRows DEF CoreInv
  <2>2. CASE CommitBatch /\ runs'[LastRun].processed = runs[LastRun].processed
             /\ runs'[LastRun].state = runs[LastRun].state
    BY <1>0, <1>1, <2>1, <2>2
  <2>3. CASE (AdvanceImport \/ FinishImport) /\ runs'[LastRun].processed = job.processed
    <3>1. runs[LastRun].processed <= job.processed /\ runs[LastRun].state = "running"
      BY <1>0, <2>3 DEF AdvanceImport, FinishImport, WorkerRun, RunInProgress
    <3> QED BY <1>0, <1>1, <2>1, <2>3, <3>1
  <2> QED BY <2>1, <2>2, <2>3
<1>7. CASE Request \/ Serve \/ Shutdown \/ Exit \/ Crash \/ UNCHANGED vars
  <2>1. UNCHANGED runs
    BY <1>7 DEF Request, AskStatus, AskRefresh, AskSave, Ask, Serve, Shutdown, Exit, Crash, NoProcess, vars
  <2> QED BY <1>3, <2>1
<1>8. CASE \E t \in Threads : ThreadStep(t)
  BY <1>1, <1>3, <1>5, <1>8
<1> QED BY <1>3, <1>4, <1>6, <1>7, <1>8, NextSplit DEF Process

(* While the process lives the published progress goes on: to a newer run, or
   to more checked files of the same one. *)
LEMMA ProgressGrows ==
  ASSUME CoreInv, CoreInv', Checked, [Next]_vars, ~Exit, ~Crash
  PROVE  /\ progress.run <= progress'.run
         /\ progress'.run = progress.run /\ TotalKnown =>
              TotalKnown' /\ progress.checked <= progress'.checked
<1> USE DEF disk, worker, threads
<1>0. /\ progress \in Progresses /\ job \in Jobs /\ progress.run \in Nat /\ progress.checked \in Nat
      /\ job.checked \in Nat /\ job.total \in Nat /\ NoTotal \notin Nat /\ WorkerRun
  BY DEF CoreInv, TypeOK, Progresses, Jobs, NoTotal
<1>1. CASE UNCHANGED progress
  BY <1>0, <1>1 DEF TotalKnown
<1>2. CASE \E t \in Threads : PublishProgress(t)
  BY <1>0, <1>2 DEF PublishProgress, Checked
<1>3. CASE Walk /\ ~UNCHANGED progress
  <2>1. wpc = "walk" /\ ~TotalKnown /\ \E n, ph : progress' = Moved(job.scan, ph, 0, n)
    BY <1>3 DEF Walk, Checked
  <2>2. progress'.run = progress.run
    BY <2>1 DEF Moved
  <2> QED BY <1>0, <2>1, <2>2
<1>4. CASE CheckFile /\ ~UNCHANGED progress
  <2>1. PICK ph : progress' = Moved(job.scan, ph, job.checked + 1, job.total)
    BY <1>4 DEF CheckFile
  <2>2. TotalKnown => progress.checked = job.checked
    BY <1>4 DEF CheckFile, Checked, Working
  <2>3. /\ progress'.run = progress.run
        /\ progress'.checked = job.checked + 1 /\ progress'.total = job.total
    BY <1>4, <2>1 DEF Moved
  <2> QED BY <1>0, <2>2, <2>3 DEF TotalKnown
<1>5. CASE Finalize \/ Cleanup
  <2>1. PICK ph : progress' = Moved(job.run, ph, progress.checked, progress.total)
    BY <1>5 DEF Finalize, Cleanup
  <2>2. progress'.run = progress.run /\ progress'.checked = progress.checked /\ progress'.total = progress.total
    BY <2>1 DEF Moved
  <2> QED BY <1>0, <2>2 DEF TotalKnown
<1>6. CASE WorkerStep
  <2>1. CASE ~(Walk \/ CheckFile \/ Finalize \/ Cleanup)
    <3>1. UNCHANGED progress
      BY <1>6, <2>1 DEF WorkerStep, EnterScan, CommitBatch, AdvanceImport, MarkMissing, AssignProjects,
         FinishImport, WorkerExit
    <3> QED BY <1>1, <3>1
  <2> QED BY <1>1, <1>3, <1>4, <1>5, <2>1
<1>7. ASSUME NEW t \in Threads, ThreadStep(t), ~PublishProgress(t)
      PROVE  UNCHANGED progress
  BY <1>7 DEF ThreadStep, RootsLock, RootsCheck, RootsWrite, StartLock, StartCheck, Acquire,
     BeginImport, SpawnWorker, ReadRow, AttachProgress
<1>8. CASE Request \/ Process \/ UNCHANGED vars
  <2>1. UNCHANGED progress
    BY <1>8 DEF Request, AskStatus, AskRefresh, AskSave, Ask, Process, Launch, Serve, Shutdown, vars
  <2> QED BY <1>1, <2>1
<1>9. CASE \E t \in Threads : ThreadStep(t)
  BY <1>1, <1>2, <1>7, <1>9
<1> QED BY <1>6, <1>8, <1>9, NextSplit

(* What was read of the table was true when it was read: the row read by a
   thread and the answer given to a poller are past states of their runs. *)
Past(r, table) ==
  /\ r.run <= Len(table)
  /\ r.run = 0 => r.processed = 0 /\ r.state = "idle"
  /\ r.run # 0 => /\ r.processed <= table[r.run].processed
                  /\ r.state # "running" => r.state = table[r.run].state
RowsArePast == \A t \in Threads : Past(row[t], runs)

(* A poller's next answer, once its row is read, is no older than its last. *)
AnswersArePast ==
  \A t \in Pollers : LET a == answer[t] IN
    /\ Past(a, runs)
    /\ a.total # NoTotal => a.run <= progress.run
    /\ a.total # NoTotal /\ a.run = progress.run => TotalKnown /\ a.checked <= progress.checked
    /\ pc[t] = "attach" =>
         /\ row[t].run >= a.run
         /\ row[t].run = a.run => /\ row[t].processed >= a.processed
                                  /\ a.state \notin {"running", "idle"} => row[t].state = a.state
Told == AnswersConsistent /\ RowsArePast /\ AnswersArePast

(* The past stays the past. *)
LEMMA StaysPast ==
  ASSUME CoreInv, CoreInv', [Next]_vars,
         NEW r, r.run \in Nat, r.processed \in Nat, Past(r, runs)
  PROVE  Past(r, runs')
<1>0. Len(runs) = LastRun /\ Len(runs') = LastRun'
  BY DEF LastRun
<1>1. CASE r.run = 0
  BY <1>0, <1>1, RunsGrow DEF Past
<1>2. CASE r.run # 0
  <2>1. r.run \in 1 .. LastRun
    BY <1>0, <1>2, RunsGrow DEF Past
  <2>2. runs[r.run].processed \in Nat /\ runs'[r.run].processed \in Nat
    BY <2>1, RunsGrow DEF Rows
  <2> QED BY <1>0, <1>2, <2>1, <2>2, RunsGrow DEF Past
<1> QED BY <1>1, <1>2

(* A thread that attaches the progress of the run whose row it has read tells
   what is coherent, past, and no older than what it told before. *)
LEMMA ToldIsPast ==
  ASSUME CoreInv, Checked, Told, NEW t \in Pollers, pc[t] = "attach"
  PROVE  LET b == Attached(row[t], progress) IN
         /\ Past(b, runs)
         /\ b.phase # "none" => b.state = "running"
         /\ b.total # NoTotal => /\ b.run = progress.run /\ TotalKnown /\ b.checked = progress.checked
                                 /\ b.processed <= b.checked
                                 /\ b.checked <= b.total
                                 /\ b.state = "succeeded" => b.checked = b.total
         /\ NoRegress(answer[t], b)
<1> DEFINE r == row[t]
           a == answer[t]
           b == Attached(r, progress)
<1>0. /\ progress \in Progresses /\ r \in StatusRows /\ a \in Statuses /\ NoTotal \notin Nat /\ t \in Threads
      /\ runs \in Seq(Rows) /\ LastRun \in Nat /\ DOMAIN runs = 1 .. LastRun
  BY NewestRun DEF CoreInv, TypeOK, Progresses, NoTotal, Threads
<1>1. /\ Past(r, runs) /\ Past(a, runs) /\ r.run >= a.run
      /\ r.run = a.run => /\ r.processed >= a.processed
                          /\ a.state \notin {"running", "idle"} => r.state = a.state
      /\ a.total # NoTotal /\ a.run = progress.run => TotalKnown /\ a.checked <= progress.checked
  BY <1>0 DEF Told, RowsArePast, AnswersArePast
<1>2. /\ b.run = r.run /\ b.state = r.state /\ b.processed = r.processed
      /\ b.phase # "none" => b.state = "running"
      /\ b.total # NoTotal => /\ r.run # 0 /\ r.run = progress.run /\ TotalKnown
                              /\ b.checked = progress.checked /\ b.total = progress.total
  BY DEF Attached, Bare, Shown, TotalKnown
<1> HIDE DEF b, r, a
<1>3. Past(b, runs)
  BY <1>1, <1>2 DEF Past
<1>4. ASSUME b.total # NoTotal
      PROVE  /\ b.processed <= b.checked /\ b.checked <= b.total
             /\ b.state = "succeeded" => b.checked = b.total
  <2>1. /\ progress.checked <= progress.total
        /\ runs[progress.run].processed <= progress.checked
        /\ runs[progress.run].state = "succeeded" => progress.checked = progress.total
    BY <1>2, <1>4 DEF Checked
  <2>2. r.processed <= runs[r.run].processed /\ (r.state # "running" => r.state = runs[r.run].state)
    BY <1>1, <1>2, <1>4 DEF Past
  <2>3. r.run \in DOMAIN runs
    BY <1>0, <1>1, <1>2, <1>4 DEF Past, LastRun, StatusRows
  <2>4. runs[r.run] \in Rows
    BY <1>0, <2>3
  <2>5. runs[r.run].processed \in Nat /\ r.processed \in Nat /\ progress.checked \in Nat
    BY <1>0, <2>4 DEF Rows, StatusRows, Progresses
  <2> QED BY <1>2, <1>4, <2>1, <2>2, <2>5
<1>5. NoRegress(a, b)
  BY <1>1, <1>2 DEF NoRegress
<1> QED BY <1>2, <1>3, <1>4, <1>5 DEF b, r, a

(* What happens to rows and answers: a row is read or forgotten, an answer is
   replaced by the one attached, and both go with the process. *)
LEMMA AnswerMoves ==
  ASSUME CoreInv, [Next]_vars
  PROVE  /\ \A t \in Threads : \/ row'[t] = row[t] /\ (pc'[t] = "attach" => pc[t] = "attach")
                               \/ row'[t] = IdleRow /\ pc'[t] # "attach"
                               \/ row'[t] = LastRow /\ pc'[t] = "attach" /\ UNCHANGED <<runs, progress, answer>>
         /\ \A t \in Pollers : \/ answer'[t] = answer[t]
                               \/ /\ pc[t] = "attach" /\ pc'[t] = "idle" /\ UNCHANGED <<runs, progress>>
                                  /\ answer'[t] = Attached(row[t], progress)
                               \/ Exit \/ Crash
<1> USE DEF disk, worker, threads
<1>0. /\ pc \in [Threads -> ThreadPcs] /\ row \in [Threads -> StatusRows] /\ answer \in [Pollers -> Statuses]
      /\ Main \in Threads /\ Pollers \subseteq Threads /\ Clients \subseteq Threads
  BY DEF CoreInv, TypeOK, Threads
<1>1. CASE Request \/ Launch \/ Serve \/ Shutdown \/ UNCHANGED vars
  BY <1>0, <1>1 DEF Request, AskStatus, AskRefresh, AskSave, Ask, Launch, Serve, Shutdown, vars
<1>2. CASE Exit \/ Crash
  BY <1>0, <1>2 DEF Exit, Crash, NoProcess
<1>3. CASE WorkerStep
  BY <1>3 DEF WorkerStep, EnterScan, Walk, CheckFile, CommitBatch, AdvanceImport, Finalize, MarkMissing,
     Cleanup, AssignProjects, FinishImport, WorkerExit
<1>4. ASSUME NEW t \in Threads, ThreadStep(t), ~ReadRow(t), ~AttachProgress(t)
      PROVE  /\ UNCHANGED answer
             /\ \A u \in Threads : \/ row'[u] = row[u] /\ (pc'[u] = "attach" => pc[u] = "attach")
                                   \/ row'[u] = IdleRow /\ pc'[u] # "attach"
  <2>1. CASE RootsLock(t) \/ StartLock(t) \/ StartCheck(t) \/ PublishProgress(t)
    BY <1>0, <2>1 DEF RootsLock, StartLock, StartCheck, Acquire, PublishProgress, Goto
  <2>2. CASE RootsCheck(t) \/ RootsWrite(t) \/ SpawnWorker(t)
    BY <1>0, <2>2 DEF RootsCheck, RootsWrite, SpawnWorker, Raised, Returned, Forget, Goto
  <2>3. CASE BeginImport(t)
    BY <1>0, <2>3 DEF BeginImport, Raised, Returned, Forget, Goto
  <2> QED BY <1>4, <2>1, <2>2, <2>3 DEF ThreadStep
<1>5. ASSUME NEW t \in Threads, ReadRow(t)
      PROVE  /\ UNCHANGED <<runs, progress, answer>>
             /\ row'[t] = LastRow /\ pc'[t] = "attach"
             /\ \A u \in Threads \ {t} : row'[u] = row[u] /\ pc'[u] = pc[u]
  BY <1>0, <1>5 DEF ReadRow
<1>6. ASSUME NEW t \in Threads, AttachProgress(t)
      PROVE  /\ UNCHANGED <<runs, progress>>
             /\ row'[t] = IdleRow /\ pc[t] = "attach" /\ pc'[t] = "idle"
             /\ \A u \in Threads \ {t} : row'[u] = row[u] /\ pc'[u] = pc[u]
             /\ \A u \in Pollers : \/ answer'[u] = answer[u]
                                   \/ u = t /\ answer'[u] = Attached(row[t], progress)
  BY <1>0, <1>6 DEF AttachProgress, Returned, Forget
<1>7. CASE \E t \in Threads : ThreadStep(t)
  BY <1>4, <1>5, <1>6, <1>7
<1> QED BY <1>1, <1>2, <1>3, <1>7, NextSplit DEF Process

LEMMA ToldStep ==
  ASSUME CoreInv, CoreInv', Checked, Checked', Told, [Next]_vars
  PROVE  Told' /\ (proc' # "down" => \A t \in Pollers : NoRegress(answer[t], answer'[t]))
<1>0. /\ row \in [Threads -> StatusRows] /\ answer \in [Pollers -> Statuses] /\ Pollers \subseteq Threads
      /\ NoTotal \notin Nat /\ progress.run \in Nat /\ progress'.run \in Nat
      /\ progress.checked \in Nat /\ progress'.checked \in Nat
      /\ AnswersConsistent /\ RowsArePast /\ AnswersArePast
  BY DEF CoreInv, TypeOK, Threads, NoTotal, Told
<1>1. /\ \A t \in Threads : row[t].run \in Nat /\ row[t].processed \in Nat
      /\ \A t \in Pollers : answer[t].run \in Nat /\ answer[t].processed \in Nat /\ answer[t].checked \in Nat
  BY <1>0 DEF StatusRows, Statuses
<1>2. /\ IdleRow.run = 0 /\ IdleRow.processed = 0 /\ IdleRow.state = "idle"
      /\ Bare(IdleRow).run = 0 /\ Bare(IdleRow).processed = 0 /\ Bare(IdleRow).state = "idle"
      /\ Bare(IdleRow).total = NoTotal /\ Bare(IdleRow).phase = "none"
      /\ LastRow.run = LastRun
      /\ LastRun = 0 => LastRow.processed = 0 /\ LastRow.state = "idle"
      /\ LastRun # 0 => LastRow.processed = runs[LastRun].processed /\ LastRow.state = runs[LastRun].state
  BY DEF IdleRow, Bare, Shown, LastRow, LastRun, CoreInv, TypeOK
<1>3. LastRun \in Nat /\ LastRun' \in Nat /\ (LastRun # 0 => runs[LastRun].processed \in Nat)
  <2>1. LastRun # 0 => runs[LastRun] \in Rows
    BY RunsGrow
  <2> QED BY <2>1, RunsGrow DEF Rows
<1>4. RowsArePast'
  <2> SUFFICES ASSUME NEW t \in Threads PROVE Past(row'[t], runs')
    BY DEF RowsArePast
  <2>1. CASE row'[t] = row[t]
    BY <1>0, <1>1, <2>1, StaysPast DEF RowsArePast
  <2>2. CASE row'[t] = IdleRow
    BY <1>2, <1>3, <2>2 DEF Past, LastRun
  <2>3. CASE row'[t] = LastRow /\ UNCHANGED runs
    BY <1>2, <1>3, <2>3 DEF Past, LastRun
  <2> QED BY <2>1, <2>2, <2>3, AnswerMoves
<1>5. CASE Exit \/ Crash
  <2>1. /\ proc' = "down" /\ \A t \in Pollers : answer'[t] = Bare(IdleRow)
        /\ \A t \in Threads : pc'[t] = "idle"
    BY <1>5 DEF Exit, Crash, NoProcess
  <2>2. AnswersConsistent'
    BY <1>0, <1>2, <2>1 DEF AnswersConsistent
  <2>3. AnswersArePast'
    <3>1. \A t \in Pollers : pc'[t] # "attach"
      BY <1>0, <2>1
    <3>2. Past(Bare(IdleRow), runs')
      BY <1>2, <1>3 DEF Past, LastRun
    <3> QED BY <1>2, <2>1, <3>1, <3>2 DEF AnswersArePast
  <2> QED BY <1>4, <2>1, <2>2, <2>3 DEF Told
<1>6. CASE ~Exit /\ ~Crash
  <2> DEFINE Coherent(b) ==
        /\ b.phase # "none" => b.state = "running"
        /\ b.total # NoTotal => /\ b.processed <= b.checked
                                /\ b.checked <= b.total
                                /\ b.state = "succeeded" => b.checked = b.total
        /\ Past(b, runs')
        /\ b.total # NoTotal => b.run <= progress'.run
        /\ b.total # NoTotal /\ b.run = progress'.run => TotalKnown' /\ b.checked <= progress'.checked
  <2>1. ASSUME NEW t \in Pollers, answer'[t] = answer[t]
        PROVE  Coherent(answer'[t]) /\ NoRegress(answer[t], answer'[t])
    <3>1. Past(answer[t], runs')
      BY <1>0, <1>1, StaysPast DEF AnswersArePast
    <3>2. NoRegress(answer[t], answer'[t])
      BY <1>1, <2>1 DEF NoRegress
    <3>3. /\ answer[t].total # NoTotal => answer[t].run <= progress.run
          /\ answer[t].total # NoTotal /\ answer[t].run = progress.run =>
               TotalKnown /\ answer[t].checked <= progress.checked
      BY <1>0 DEF AnswersArePast
    <3>4. /\ progress.run <= progress'.run
          /\ progress'.run = progress.run /\ TotalKnown => TotalKnown' /\ progress.checked <= progress'.checked
      BY <1>6, ProgressGrows
    <3>5. /\ answer[t].total # NoTotal => answer[t].run <= progress'.run
          /\ answer[t].total # NoTotal /\ answer[t].run = progress'.run =>
               TotalKnown' /\ answer[t].checked <= progress'.checked
      BY <1>0, <1>1, <3>3, <3>4
    <3> QED BY <1>0, <2>1, <3>1, <3>2, <3>5 DEF AnswersConsistent
  <2>2. ASSUME NEW t \in Pollers, pc[t] = "attach", UNCHANGED <<runs, progress>>,
               answer'[t] = Attached(row[t], progress)
        PROVE  Coherent(answer'[t]) /\ NoRegress(answer[t], answer'[t])
    <3> DEFINE b == Attached(row[t], progress)
    <3>1. /\ Past(b, runs)
          /\ b.phase # "none" => b.state = "running"
          /\ b.total # NoTotal => /\ b.run = progress.run /\ TotalKnown /\ b.checked = progress.checked
                                  /\ b.processed <= b.checked
                                  /\ b.checked <= b.total
                                  /\ b.state = "succeeded" => b.checked = b.total
          /\ NoRegress(answer[t], b)
      BY <2>2, ToldIsPast
    <3> HIDE DEF b
    <3>2. Coherent(b)
      BY <1>0, <2>2, <3>1 DEF TotalKnown
    <3> QED BY <2>2, <3>1, <3>2 DEF b
  <2>3. \A t \in Pollers : Coherent(answer'[t]) /\ NoRegress(answer[t], answer'[t])
    BY <1>6, <2>1, <2>2, AnswerMoves
  <2>4. ASSUME NEW t \in Pollers, pc'[t] = "attach"
        PROVE  /\ row'[t].run >= answer'[t].run
               /\ row'[t].run = answer'[t].run =>
                    /\ row'[t].processed >= answer'[t].processed
                    /\ answer'[t].state \notin {"running", "idle"} => row'[t].state = answer'[t].state
    <3>1. answer'[t] = answer[t]
      BY <1>6, <2>4, AnswerMoves
    <3>2. CASE row'[t] = row[t] /\ pc[t] = "attach"
      BY <1>0, <3>1, <3>2 DEF AnswersArePast
    <3>3. CASE row'[t] = LastRow /\ UNCHANGED runs
      <4>1. Past(answer[t], runs)
        BY <1>0 DEF AnswersArePast
      <4> QED BY <1>1, <1>2, <1>3, <3>1, <3>3, <4>1 DEF Past, LastRun
    <3>4. t \in Threads
      BY <1>0
    <3> QED BY <2>4, <3>2, <3>3, <3>4, AnswerMoves
  <2> HIDE DEF Coherent
  <2>5. AnswersConsistent'
    BY <2>3 DEF Coherent, AnswersConsistent
  <2>6. AnswersArePast'
    BY <2>3, <2>4 DEF Coherent, AnswersArePast
  <2> QED BY <1>4, <2>3, <2>5, <2>6 DEF Told
<1> QED BY <1>5, <1>6

LEMMA ToldInit == Init => Counted /\ Checked /\ Told
BY DEF Init, Counted, ProcessedIsCommitted, Working, Checked, TotalKnown, WorkerAlive, NoProgress, LastRun, NoTotal, Told,
   AnswersConsistent, RowsArePast, AnswersArePast, Past, Threads, IdleRow, Bare, Shown

(* A status that shows progress is coherent although the row and the progress
   are read at two instants: nothing is committed before it is checked, a phase
   is shown of a running run only, and a run shown as succeeded has checked
   every file it counted. *)
THEOREM AnswersAreConsistent == Spec => []AnswersConsistent
<1>1. Init => Counted /\ Checked /\ Told
  BY ToldInit
<1>2. CoreInv /\ CoreInv' /\ Counted /\ [Next]_vars => Counted'
  BY CountedStep
<1>3. CoreInv /\ CoreInv' /\ Counted /\ Checked /\ [Next]_vars => Checked'
  BY CheckedStep
<1>4. CoreInv /\ CoreInv' /\ Checked /\ Checked' /\ Told /\ [Next]_vars => Told'
  BY ToldStep
<1>5. Told => AnswersConsistent
  BY DEF Told
<1> QED BY <1>1, <1>2, <1>3, <1>4, <1>5, CoreInit, CoreStep, PTL DEF Spec

(* No poller is told an older story than before: an older run, an ended run
   running again, or fewer files of the same run. *)
THEOREM AnswersNeverRegress == Spec => AnswersMonotone
<1>1. Init => Counted /\ Checked /\ Told
  BY ToldInit
<1>2. CoreInv /\ CoreInv' /\ Counted /\ [Next]_vars => Counted'
  BY CountedStep
<1>3. CoreInv /\ CoreInv' /\ Counted /\ Checked /\ [Next]_vars => Checked'
  BY CheckedStep
<1>4. CoreInv /\ CoreInv' /\ Checked /\ Checked' /\ Told /\ [Next]_vars =>
        Told' /\ [proc' # "down" => \A t \in Pollers : NoRegress(answer[t], answer'[t])]_vars
  BY ToldStep
<1> QED BY <1>1, <1>2, <1>3, <1>4, CoreInit, CoreStep, PTL DEF Spec, AnswersMonotone

-----------------------------------------------------------------------------
(* Saved sources are imported. *)

(* Where, besides, the insert of a run does not fail. *)
NoneLost == NoStranding /\ "begin" \notin Faults

(* Saved sources have their run, or a thread is on its way to begin it; the
   worker reads the sources its run was begun for. *)
Served == runs # <<>> /\ runs[LastRun].roots = config
Starting == \E t \in Threads : pc[t] \in {"start_lock", "start_check", "begin"}
Launching == proc = "boot" /\ pc[Main] \in {"roots_lock", "roots_check", "roots_write", "failed"}
SavedAreServed ==
  /\ WorkerAlive => job.roots = runs[LastRun].roots
  /\ \A t \in Threads : pc[t] \in {"publish", "spawn"} => arg[t] = runs[LastRun].roots
  /\ proc \in {"boot", "up"} /\ config # NoRoots => Served \/ Starting \/ Launching

LEMMA ServedByThread ==
  ASSUME NoneLost, CoreInv, RunningIsOwned, SavedAreServed,
         NEW t \in Threads, ThreadStep(t)
  PROVE  SavedAreServed'
<1> USE DEF disk, worker, threads
<1>0. /\ pc \in [Threads -> ThreadPcs] /\ arg \in [Threads -> Roots \cup {NoRoots}] /\ Free \notin Threads
      /\ runs \in Seq(Rows) /\ LastRun \in Nat /\ DOMAIN runs = 1 .. LastRun /\ Main \in Threads
      /\ LockDiscipline /\ WorkerRun /\ RootsStable /\ UNCHANGED proc /\ proc # "down"
  BY RunConstants, NewestRun, ThreadRows DEF CoreInv, TypeOK, Free, Threads
<1>1. CASE RootsLock(t) \/ StartLock(t) \/ ReadRow(t) \/ AttachProgress(t) \/ PublishProgress(t)
  <2>1. /\ UNCHANGED <<runs, config, wpc, job>> /\ \A u \in Threads \ {t} : pc'[u] = pc[u] /\ arg'[u] = arg[u]
        /\ \/ pc[t] = "roots_lock" /\ pc'[t] = "roots_check"
           \/ pc[t] = "start_lock" /\ pc'[t] = "start_check"
           \/ pc[t] \in {"read_row", "attach"} /\ pc'[t] \in {"attach", "idle"}
           \/ pc[t] = "publish" /\ pc'[t] = "spawn" /\ arg'[t] = arg[t]
    BY <1>0, <1>1 DEF RootsLock, StartLock, Acquire, ReadRow, AttachProgress, PublishProgress, Goto, Returned, Forget
  <2>2. Served => Served'
    BY <2>1 DEF Served, LastRun
  <2>3. Starting => Starting'
    BY <1>0, <2>1 DEF Starting
  <2>4. Launching => Launching'
    BY <1>0, <2>1 DEF Launching
  <2> QED BY <1>0, <2>1, <2>2, <2>3, <2>4 DEF SavedAreServed, WorkerAlive, LastRun
<1>2. CASE RootsCheck(t) \/ RootsWrite(t)
  <2>1. /\ UNCHANGED <<runs, wpc, job>> /\ \A u \in Threads \ {t} : pc'[u] = pc[u] /\ arg'[u] = arg[u]
        /\ pc[t] \in {"roots_check", "roots_write"}
        /\ \/ pc'[t] = "start_lock"
           \/ UNCHANGED config /\ pc'[t] \in {"roots_write", IF t = Main THEN "failed" ELSE "idle"}
    BY <1>0, <1>2 DEF RootsCheck, RootsWrite, Goto, Raised, Forget
  <2>2. UNCHANGED config /\ Served => Served'
    BY <2>1 DEF Served, LastRun
  <2>3. Starting \/ pc'[t] = "start_lock" => Starting'
    BY <1>0, <2>1 DEF Starting
  <2>4. Launching /\ pc'[t] # "start_lock" => Launching'
    BY <1>0, <2>1 DEF Launching
  <2>5. \A u \in Threads : pc'[u] \in {"publish", "spawn"} => pc'[u] = pc[u] /\ arg'[u] = arg[u]
    BY <1>0, <2>1
  <2> QED BY <1>0, <2>1, <2>2, <2>3, <2>4, <2>5 DEF SavedAreServed, WorkerAlive, LastRun
<1>3. CASE StartCheck(t)
  <2>1. /\ UNCHANGED <<runs, config, wpc, job>> /\ \A u \in Threads \ {t} : pc'[u] = pc[u] /\ arg'[u] = arg[u]
        /\ pc[t] = "start_check"
        /\ pc'[t] = IF WorkerAlive THEN "read_row" ELSE "begin"
    BY <1>0, <1>3 DEF StartCheck
  <2>2. Served => Served'
    BY <2>1 DEF Served, LastRun
  <2>3. Launching => Launching'
    BY <1>0, <2>1 DEF Launching
  <2>4. CASE WorkerAlive
    <3>1. Served
      BY <1>0, <2>4 DEF Served, SavedAreServed, RootsStable, WorkerRun
    <3> QED BY <1>0, <2>1, <2>2, <2>4, <3>1 DEF SavedAreServed, WorkerAlive, LastRun
  <2>5. CASE ~WorkerAlive
    <3>1. Starting'
      BY <2>1, <2>5 DEF Starting
    <3> QED BY <1>0, <2>1, <2>5, <3>1 DEF SavedAreServed, WorkerAlive, LastRun
  <2> QED BY <2>4, <2>5
<1>4. CASE BeginImport(t)
  <2>1. pc[t] = "begin" /\ lock = t /\ ~WorkerAlive
    BY <1>0, <1>4 DEF BeginImport, LockDiscipline, LockPcs
  <2>2. ~RunInProgress
    BY <1>0, <2>1 DEF RunningIsOwned, StartsRun, WorkerAlive
  <2>3. ~UNCHANGED runs
    BY <1>0, <1>4, <2>2, AppendedRow DEF BeginImport, NoneLost, NoStranding, LastRun, Rows, RunStates, Errors
  <2>4. /\ pc' = [pc EXCEPT ![t] = "publish"] /\ UNCHANGED <<arg, config, wpc, job>>
        /\ LastRun' = LastRun + 1 /\ DOMAIN runs' = DOMAIN runs \cup {LastRun + 1}
        /\ runs'[LastRun + 1].roots = arg[t] /\ arg[t] = config
    BY <1>0, <1>4, <2>3, ThreadRows
  <2>5. Served'
    <3>1. runs' # <<>>
      BY <1>0, <2>4 DEF LastRun
    <3>2. runs'[LastRun'].roots = config'
      BY <2>4
    <3> QED BY <3>1, <3>2 DEF Served
  <2>6. \A u \in Threads \ {t} : pc'[u] \notin {"publish", "spawn"}
    BY <1>0, <2>1, <2>4 DEF LockDiscipline, LockPcs
  <2> QED BY <1>0, <2>1, <2>4, <2>5, <2>6 DEF SavedAreServed, WorkerAlive
<1>5. CASE SpawnWorker(t)
  <2>1. /\ UNCHANGED <<runs, config>> /\ \A u \in Threads \ {t} : pc'[u] = pc[u] /\ arg'[u] = arg[u]
        /\ pc[t] = "spawn" /\ pc'[t] = "idle" /\ job' = NewJob(LastRun, arg[t]) /\ wpc' = "enter"
    BY <1>0, <1>5 DEF SpawnWorker, Returned, Forget, NoneLost, NoStranding
  <2>2. Served => Served'
    BY <2>1 DEF Served, LastRun
  <2>3. Starting => Starting'
    BY <1>0, <2>1 DEF Starting
  <2>4. Launching => Launching'
    BY <1>0, <2>1 DEF Launching
  <2>5. job'.roots = arg[t]
    BY <2>1 DEF NewJob
  <2> QED BY <1>0, <2>1, <2>2, <2>3, <2>4, <2>5 DEF SavedAreServed, WorkerAlive, LastRun
<1> QED BY <1>1, <1>2, <1>3, <1>4, <1>5 DEF ThreadStep

LEMMA ServedStep ==
  ASSUME NoneLost, CoreInv, CoreInv', RunningIsOwned, SavedAreServed, [Next]_vars
  PROVE  SavedAreServed'
<1> USE DEF disk, worker, threads
<1>0. /\ pc \in [Threads -> ThreadPcs] /\ arg \in [Threads -> Roots \cup {NoRoots}]
      /\ Main \in Threads /\ Main \notin Clients \cup Pollers /\ DownIsQuiet /\ job \in Jobs
  BY RunConstants DEF CoreInv, TypeOK, Threads
<1>1. CASE Request \/ Shutdown \/ Serve \/ UNCHANGED vars
  <2>1. /\ UNCHANGED <<runs, config, wpc, job>>
        /\ \A t \in Threads : \/ pc'[t] = pc[t] /\ arg'[t] = arg[t]
                              \/ /\ pc[t] \in {"idle", "failed"} /\ pc'[t] \notin {"publish", "spawn"}
    BY <1>0, <1>1 DEF Request, AskStatus, AskRefresh, AskSave, Ask, Shutdown, Serve, vars, Threads
  <2>2. Served => Served'
    BY <2>1 DEF Served, LastRun
  <2>3. Starting => Starting'
    BY <1>0, <2>1 DEF Starting
  <2>4. Launching /\ proc' \in {"boot", "up"} => Launching'
    BY <1>0, <1>1 DEF Request, AskStatus, AskRefresh, AskSave, Ask, Shutdown, Serve, vars, Threads, Launching
  <2>5. proc' \in {"boot", "up"} => proc \in {"boot", "up"}
    BY <1>1 DEF Request, AskStatus, AskRefresh, AskSave, Ask, Shutdown, Serve, vars
  <2> QED BY <1>0, <2>1, <2>2, <2>3, <2>4, <2>5 DEF SavedAreServed, WorkerAlive, LastRun
<1>2. CASE Launch
  <2>1. /\ wpc' = "none" /\ proc' = "boot" /\ UNCHANGED config
        /\ \A t \in Threads : pc'[t] \notin {"publish", "spawn"}
        /\ config # NoRoots => pc'[Main] \in {"roots_lock", "start_lock"}
    BY <1>0, <1>2 DEF Launch, DownIsQuiet
  <2> QED BY <1>0, <2>1 DEF SavedAreServed, WorkerAlive, Starting, Launching
<1>3. CASE Exit \/ Crash
  BY <1>3 DEF Exit, Crash, NoProcess, SavedAreServed, WorkerAlive
<1>4. CASE WorkerStep
  <2>1. /\ UNCHANGED <<config, proc, pc, arg>> /\ LastRun' = LastRun
        /\ runs # <<>> /\ runs' # <<>> /\ runs'[LastRun].roots = runs[LastRun].roots
    BY <1>4, WorkerRows DEF CoreInv, LastRun
  <2>2. WorkerAlive' => job'.roots = job.roots /\ WorkerAlive
    BY <1>0, <1>4 DEF WorkerStep, EnterScan, Walk, CheckFile, CommitBatch, AdvanceImport, Finalize, MarkMissing,
       Cleanup, AssignProjects, FinishImport, WorkerExit, Failing, WorkerAlive, Jobs
  <2> QED BY <2>1, <2>2 DEF SavedAreServed, Served, Starting, Launching
<1>5. CASE \E t \in Threads : ThreadStep(t)
  BY <1>5, ServedByThread
<1> QED BY <1>1, <1>2, <1>3, <1>4, <1>5, NextSplit DEF Process

(* Sources that were saved get imported: once no request is between saving and
   starting, the newest run is over the saved sources. *)
THEOREM SavedRootsAreServed == ASSUME NoneLost PROVE Spec => []SavedRootsServed
<1>1. Init => RunningIsOwned /\ SavedAreServed
  BY DEF Init, RunningIsOwned, SavedAreServed, WorkerAlive, Threads
<1>2. CoreInv /\ CoreInv' /\ RunningIsOwned /\ [Next]_vars => RunningIsOwned'
  BY OwnedStep DEF NoneLost
<1>3. CoreInv /\ CoreInv' /\ RunningIsOwned /\ SavedAreServed /\ [Next]_vars => SavedAreServed'
  BY ServedStep
<1>4. SavedAreServed => SavedRootsServed
  BY DEF SavedAreServed, SavedRootsServed, Served, Starting, Launching
<1> QED BY <1>1, <1>2, <1>3, <1>4, CoreInit, CoreStep, PTL DEF Spec
=============================================================================
