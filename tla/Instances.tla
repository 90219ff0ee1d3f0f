----------------------------- MODULE Instances -----------------------------
(* Launches of the program on one data directory: the data lock, the ledger's
   connection that any thread opens when it finds none, the close at the end of
   the server and again at the end of main, and the threads that are still at
   work then.  What imports do is the business of ImportRuns. *)
EXTENDS Naturals, Sequences, FiniteSets

CONSTANTS Processes, Requests, \* the launches, and the threads that serve each
          Worker, None,
          Late,    \* requests may outlive the time the server gives them to end
          MaxRuns  \* bound

InstanceConstants == Worker \notin Requests /\ None \notin Processes /\ Late \in BOOLEAN /\ MaxRuns \in Nat

VARIABLES stage,  \* where main is
          holder, \* of runtime.lock
          db,     \* Storage._db: none, open, or closed but not yet none
          closes, \* calls of Application.close that have ended
          seen,   \* close has found a live worker
          thread, \* what each thread is at
          runs    \* import_run
vars == <<stage, holder, db, closes, seen, thread, runs>>

Threads == Requests \cup {Worker}
Idle == [op |-> "none", step |-> "idle"]
To(op, step) == [op |-> op, step |-> step]
Busy(p) == {t \in Threads : thread[p][t] # Idle}
Alive(p) == Worker \in Busy(p)
(* DuckDB: a process holds the file while it has a connection or a cursor. *)
Holds(p) == db[p] = "open" \/ \E t \in Threads : thread[p][t].step = "inside"
Barred(p) == \E q \in Processes \ {p} : Holds(q)
Running(i) == runs[i].state = "running"
InProgress == runs # <<>> /\ Running(Len(runs))
Goes(p, t, where) == thread' = [thread EXCEPT ![p][t] = where]
Moves(p, to) == stage' = [stage EXCEPT ![p] = to]

-----------------------------------------------------------------------------
(* Launch: data_lock, then Application, whose first transaction ends the runs
   that another process left.  A launch that cannot open the ledger ends.
   Slip: main goes on when another process has the lock. *)
LockAnyway(p) == /\ stage[p] = "off" /\ holder' = p /\ Moves(p, "launching")
                 /\ UNCHANGED <<db, closes, seen, thread, runs>>
Lock(p) == /\ stage[p] = "off" /\ holder = None
           /\ holder' = p /\ Moves(p, "launching")
           /\ UNCHANGED <<db, closes, seen, thread, runs>>

(* Slip: the runs are left as they are. *)
InterruptNothing == runs
Interrupted == [i \in DOMAIN runs |-> IF Running(i) THEN [runs[i] EXCEPT !.state = "interrupted"] ELSE runs[i]]
Launch(p) ==
  /\ stage[p] = "launching"
  /\ IF Barred(p) THEN Moves(p, "unlocking") /\ UNCHANGED <<db, runs>>
     ELSE Moves(p, "serving") /\ db' = [db EXCEPT ![p] = "open"] /\ runs' = Interrupted
  /\ UNCHANGED <<holder, closes, seen, thread>>

-----------------------------------------------------------------------------
(* Requests read reports or start an import, one at a time under _lock; with a
   live worker start_import only reads. *)
Ask(p, t) ==
  /\ stage[p] = "serving" /\ thread[p][t] = Idle /\ t # Worker
  /\ \/ Goes(p, t, To("read", "connect"))
     \/ Len(runs) < MaxRuns /\ Goes(p, t, To("start", "connect"))
  /\ UNCHANGED <<stage, holder, db, closes, seen, runs>>
(* Slip: whether the worker lives or not. *)
StartAnyway(p, t) ==
  /\ thread[p][t] = To("start", "connect")
  /\ \A u \in Requests : thread[p][u].op \notin {"begin", "spawn"}
  /\ Goes(p, t, To("begin", "connect"))
  /\ UNCHANGED <<stage, holder, db, closes, seen, runs>>
Start(p, t) ==
  /\ thread[p][t] = To("start", "connect")
  /\ \A u \in Requests : thread[p][u].op \notin {"begin", "spawn"}
  /\ Goes(p, t, To(IF Alive(p) THEN "read" ELSE "begin", "connect"))
  /\ UNCHANGED <<stage, holder, db, closes, seen, runs>>

(* Storage.connect: what fails is answered with an error, or ends the import,
   or, when finish_import fails, the worker. *)
Fails(p, t) == Goes(p, t, IF thread[p][t].op = "batch" THEN To("finish", "connect") ELSE Idle)
Connect(p, t) ==
  /\ thread[p][t].step = "connect" /\ thread[p][t].op # "start"
  /\ IF db[p] = "none" /\ Barred(p) THEN Fails(p, t) /\ UNCHANGED db
     ELSE /\ Goes(p, t, To(thread[p][t].op, "cursor"))
          /\ db' = IF db[p] = "none" THEN [db EXCEPT ![p] = "open"] ELSE db
  /\ UNCHANGED <<stage, holder, closes, seen, runs>>
Cursor(p, t) ==
  /\ thread[p][t].step = "cursor"
  /\ IF db[p] = "open" THEN Goes(p, t, To(thread[p][t].op, "inside")) ELSE Fails(p, t)
  /\ UNCHANGED <<stage, holder, db, closes, seen, runs>>

Inside(p, t, op) == thread[p][t] = To(op, "inside") /\ UNCHANGED <<stage, holder, db, closes, seen>>
Read(p, t) == Inside(p, t, "read") /\ Goes(p, t, Idle) /\ UNCHANGED runs
Begin(p, t) ==
  /\ Inside(p, t, "begin")
  /\ IF InProgress THEN Goes(p, t, Idle) /\ UNCHANGED runs
     ELSE /\ Goes(p, t, To("spawn", "idle"))
          /\ runs' = Append(runs, [owner |-> p, state |-> "running"])
Spawn(p, t) ==
  /\ thread[p][t].op = "spawn"
  /\ thread' = [thread EXCEPT ![p][t] = Idle, ![p][Worker] = To("batch", "connect")]
  /\ UNCHANGED <<stage, holder, db, closes, seen, runs>>

(* The worker imports batch after batch, then ends its run. *)
Batch(p, t) == /\ Inside(p, t, "batch") /\ UNCHANGED runs
               /\ \E op \in {"batch", "finish"} : Goes(p, t, To(op, "connect"))
(* Slip: finish_import ends the run whatever its state. *)
LastOf(p) == CHOOSE i \in DOMAIN runs : runs[i].owner = p /\ \A j \in DOMAIN runs : runs[j].owner = p => j <= i
EndAny(p) == [runs EXCEPT ![LastOf(p)].state = "ended"]
End(p) == [i \in DOMAIN runs |-> IF i = LastOf(p) /\ Running(i) THEN [runs[i] EXCEPT !.state = "ended"] ELSE runs[i]]
Finish(p, t) == Inside(p, t, "finish") /\ Goes(p, t, Idle) /\ runs' = End(p)

-----------------------------------------------------------------------------
(* The server waits for the requests it has, three seconds at most; the lifespan
   closes the application, and so does main.  Slip: close does not wait for the
   worker. *)
Stop(p) == /\ stage[p] = "serving" /\ Moves(p, "draining")
           /\ UNCHANGED <<holder, db, closes, seen, thread, runs>>
Drained(p) == Late \/ Busy(p) \subseteq {Worker}
Close(p) == /\ stage[p] = "draining" /\ Drained(p)
            /\ Moves(p, "joining") /\ seen' = [seen EXCEPT ![p] = Alive(p)]
            /\ UNCHANGED <<holder, db, closes, thread, runs>>
NoJoin(p) == TRUE
Joined(p) == seen[p] => ~Alive(p)
Join(p) == /\ stage[p] = "joining" /\ Joined(p)
           /\ Moves(p, "closing") /\ UNCHANGED <<holder, db, closes, seen, thread, runs>>
(* _db.close() and _db = None are two steps. *)
CloseDb(p) == /\ stage[p] = "closing" /\ db[p] = "open" /\ db' = [db EXCEPT ![p] = "closed"]
              /\ UNCHANGED <<stage, holder, closes, seen, thread, runs>>
Closed(p) == /\ stage[p] = "closing" /\ db[p] # "open"
             /\ db' = [db EXCEPT ![p] = "none"] /\ closes' = [closes EXCEPT ![p] = @ + 1]
             /\ Moves(p, IF closes[p] = 0 THEN "draining" ELSE "unlocking")
             /\ UNCHANGED <<holder, seen, thread, runs>>
Unlock(p) == /\ stage[p] = "unlocking" /\ holder' = None /\ Moves(p, "unlocked")
             /\ UNCHANGED <<db, closes, seen, thread, runs>>

(* The interpreter waits for its threads; or the process is killed. *)
Gone(p, to) == /\ Moves(p, to) /\ db' = [db EXCEPT ![p] = "none"]
               /\ thread' = [thread EXCEPT ![p] = [t \in Threads |-> Idle]]
               /\ UNCHANGED <<closes, seen, runs>>
Exit(p) == stage[p] = "unlocked" /\ Busy(p) = {} /\ Gone(p, "ended") /\ UNCHANGED holder
Kill(p) == /\ stage[p] \notin {"off", "ended", "killed"} /\ Gone(p, "killed")
           /\ holder' = IF holder = p THEN None ELSE holder

Init == /\ stage = [p \in Processes |-> "off"] /\ holder = None
        /\ db = [p \in Processes |-> "none"] /\ closes = [p \in Processes |-> 0]
        /\ seen = [p \in Processes |-> FALSE] /\ runs = <<>>
        /\ thread = [p \in Processes |-> [t \in Threads |-> Idle]]
Next == \E p \in Processes :
  \/ Lock(p) \/ Launch(p) \/ Stop(p) \/ Close(p) \/ Join(p) \/ CloseDb(p) \/ Closed(p) \/ Unlock(p) \/ Exit(p) \/ Kill(p)
  \/ \E t \in Threads : \/ Ask(p, t) \/ Start(p, t) \/ Connect(p, t) \/ Cursor(p, t)
                        \/ Read(p, t) \/ Begin(p, t) \/ Spawn(p, t) \/ Batch(p, t) \/ Finish(p, t)
Spec == Init /\ [][Next]_vars

-----------------------------------------------------------------------------
(* Properties. *)

(* Types; an import is started by one thread at a time, and by none while the
   worker lives. *)
TypeOK ==
  /\ stage \in [Processes -> {"off", "launching", "serving", "draining", "joining", "closing",
                              "unlocking", "unlocked", "ended", "killed"}]
  /\ holder \in Processes \cup {None}
  /\ db \in [Processes -> {"none", "open", "closed"}]
  /\ closes \in [Processes -> 0 .. 2] /\ seen \in [Processes -> BOOLEAN]
  /\ \A p \in Processes : thread[p][Worker].op \in {"none", "batch", "finish"}
  /\ \A p \in Processes : Cardinality({t \in Threads : thread[p][t].op \in {"begin", "spawn", "batch", "finish"}}) <= 1
  /\ \A i \in DOMAIN runs : runs[i].state \in {"running", "ended", "interrupted"}

(* Requests that end in time (Late = FALSE): the data lock covers all use of the
   ledger.  When it is let go nothing is open and nothing at work, so that the
   next launch opens the ledger. *)
LockCovers == \A p \in Processes : holder # p => db[p] = "none" /\ Busy(p) = {}

(* And an import is cut off by the death of its process only, never by a
   shutdown: what a launch interrupts was killed. *)
OnlyKilledInterrupted ==
  \A i \in DOMAIN runs : runs[i].state = "running" /\ runs'[i].state = "interrupted" => stage[runs[i].owner] = "killed"

(* Even with late requests, which may open the ledger and start an import after
   close: a process that serves finds no run but its own in progress, since no
   other can open the ledger before its last use of it. *)
ServesOwnRuns ==
  \A p \in Processes : stage[p] \in {"serving", "draining", "joining"} /\ closes[p] = 0 =>
    \A i \in DOMAIN runs : Running(i) => runs[i].owner = p

(* Even then a run that has ended, or was ended by another process, stays so. *)
EndsOnce == \A i \in DOMAIN runs : ~Running(i) => runs'[i] = runs[i]
=============================================================================
