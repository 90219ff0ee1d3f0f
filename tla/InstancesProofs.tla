-------------------------- MODULE InstancesProofs --------------------------
(* Proofs about Instances for any number of processes, requests and runs. *)
EXTENDS Instances, FiniteSetTheorems, TLAPS

-----------------------------------------------------------------------------
(* Types. *)

Stages == {"off", "launching", "serving", "draining", "joining", "closing", "unlocking", "unlocked", "ended", "killed"}
Imports == {"begin", "spawn", "batch", "finish"}
Jobs == [op : {"none", "read", "start"} \cup Imports, step : {"idle", "connect", "cursor", "inside"}]
Rows == [owner : Processes, state : {"running", "ended", "interrupted"}]

Types ==
  /\ stage \in [Processes -> Stages]
  /\ holder \in Processes \cup {None}
  /\ db \in [Processes -> {"none", "open", "closed"}]
  /\ closes \in [Processes -> 0 .. 2] /\ seen \in [Processes -> BOOLEAN]
  /\ thread \in [Processes -> [Threads -> Jobs]]
  /\ runs \in Seq(Rows)

(* Application.close is called twice, in the end. *)
Closings(p) == /\ stage[p] \in {"off", "launching", "serving"} => closes[p] = 0
               /\ stage[p] \in {"draining", "joining", "closing"} => closes[p] <= 1

(* The worker imports, requests do all else, and one thread is at an import. *)
Roles(p) == /\ thread[p][Worker].op \in {"none", "batch", "finish"}
            /\ \A t \in Requests : thread[p][t].op \notin {"batch", "finish"}
            /\ \A t, u \in Threads : thread[p][t].op \in Imports /\ thread[p][u].op \in Imports => t = u

(* A process that serves has the ledger open, until it closes it first. *)
Serves(p) == stage[p] \in {"serving", "draining", "joining"} /\ closes[p] = 0
Opened(p) == Serves(p) => db[p] = "open"
OneHolds == \A p, q \in Processes : Holds(p) /\ Holds(q) => p = q

CoreInv == Types /\ (\A p \in Processes : Closings(p) /\ Roles(p) /\ Opened(p)) /\ OneHolds

LEMMA JobTypes == Idle \in Jobs /\ (\A op \in {"none", "read", "start"} \cup Imports, step \in {"idle", "connect", "cursor", "inside"} :
                                      To(op, step) \in Jobs /\ To(op, step).op = op /\ To(op, step).step = step)
                  /\ Idle.op = "none" /\ Idle.step = "idle"
BY DEF Idle, To, Jobs, Imports

LEMMA ThreadMoves ==
  ASSUME Types, NEW p \in Processes, NEW t \in Threads, NEW w \in Jobs, Goes(p, t, w)
  PROVE  /\ thread' \in [Processes -> [Threads -> Jobs]] /\ thread'[p][t] = w
         /\ \A q \in Processes, u \in Threads : q # p \/ u # t => thread'[q][u] = thread[q][u]
BY DEF Goes, Types

Thread(p, t) == Ask(p, t) \/ Start(p, t) \/ Connect(p, t) \/ Cursor(p, t) \/ Read(p, t) \/ Begin(p, t)
                  \/ Batch(p, t) \/ Finish(p, t)
Main(p) == Lock(p) \/ Launch(p) \/ Stop(p) \/ Close(p) \/ Join(p) \/ CloseDb(p) \/ Closed(p) \/ Unlock(p)

(* What a thread goes on to, and what lets it. *)
Follows(p, t, w) ==
  /\ t = Worker => w.op \in {"none", "batch", "finish"}
  /\ t \in Requests => w.op \notin {"batch", "finish"}
  /\ w.op \in Imports => \/ thread[p][t].op \in Imports
                         \/ ~Alive(p) /\ \A u \in Requests : thread[p][u].op \notin {"begin", "spawn"}
  /\ w.step = "inside" => db[p] = "open"
  /\ thread[p][t] = Idle => stage[p] = "serving"

LEMMA ThreadFollows ==
  ASSUME InstanceConstants, CoreInv, NEW p \in Processes, NEW t \in Threads, Thread(p, t)
  PROVE  /\ \E w \in Jobs : Goes(p, t, w) /\ Follows(p, t, w)
         /\ UNCHANGED <<stage, holder, closes, seen>>
<1> DEFINE Found(w) == w \in Jobs /\ Goes(p, t, w) /\ Follows(p, t, w)
<1>0. thread[p][t] \in Jobs /\ thread[p][t].op \in {"none", "read", "start"} \cup Imports /\ Worker \in Threads
      /\ thread[p][t].step \in {"idle", "connect", "cursor", "inside"} /\ Roles(p)
      /\ (t \in Requests \/ t = Worker) /\ Worker \notin Requests
  BY DEF CoreInv, Types, Jobs, Threads, InstanceConstants
<1>1. UNCHANGED <<stage, holder, closes, seen>>
  BY DEF Thread, Ask, Start, Connect, Cursor, Read, Begin, Batch, Finish, Inside
<1>2. ASSUME Ask(p, t) PROVE \E w : Found(w)
  <2>1. PICK op \in {"read", "start"} : Goes(p, t, To(op, "connect"))
    BY <1>2 DEF Ask
  <2>2. Found(To(op, "connect"))
    BY <1>0, <1>2, <2>1, JobTypes DEF Ask, Follows, Imports
  <2> QED BY <2>2
<1>3. ASSUME Start(p, t) PROVE \E w : Found(w)
  <2>1. thread[p][t].op = "start" /\ t \in Requests /\ thread[p][t] # Idle
    BY <1>0, <1>3, JobTypes DEF Start, Roles
  <2>2. PICK op \in {"read", "begin"} : Goes(p, t, To(op, "connect")) /\ (op = "begin" => ~Alive(p))
    BY <1>3 DEF Start
  <2>3. Found(To(op, "connect"))
    BY <1>0, <1>3, <2>1, <2>2, JobTypes DEF Start, Follows, Imports
  <2> QED BY <2>2, <2>3
<1>4. ASSUME thread[p][t] # Idle, Fails(p, t) PROVE \E w : Found(w)
  <2>1. CASE thread[p][t].op = "batch"
    <3>1. Goes(p, t, To("finish", "connect")) /\ t = Worker
      BY <1>0, <1>4, <2>1 DEF Fails, Roles
    <3>2. /\ To("finish", "connect") \in Jobs /\ To("finish", "connect").op = "finish"
          /\ To("finish", "connect").step = "connect"
      BY JobTypes DEF Imports
    <3>3. Found(To("finish", "connect"))
      BY <1>0, <1>4, <2>1, <3>1, <3>2 DEF Follows, Imports
    <3> QED BY <3>3
  <2>2. CASE thread[p][t].op # "batch"
    <3>1. Found(Idle)
      BY <1>4, <2>2, JobTypes DEF Fails, Follows, Imports
    <3> QED BY <3>1
  <2> QED BY <2>1, <2>2
<1>5. ASSUME thread[p][t] # Idle, NEW step \in {"cursor", "inside"}, step = "inside" => db[p] = "open",
             Goes(p, t, To(thread[p][t].op, step))
      PROVE  \E w : Found(w)
  <2>1. PICK op \in {"none", "read", "start"} \cup Imports : op = thread[p][t].op
    BY <1>0
  <2>2. To(op, step) \in Jobs /\ To(op, step).op = op /\ To(op, step).step = step
    BY JobTypes
  <2>3. Found(To(op, step))
    BY <1>0, <1>5, <2>1, <2>2 DEF Follows, Roles
  <2> QED BY <2>3
<1>6. ASSUME Connect(p, t) \/ Cursor(p, t) PROVE \E w : Found(w)
  <2>1. thread[p][t] # Idle
    BY <1>6, JobTypes DEF Connect, Cursor
  <2>2. \/ Fails(p, t)
        \/ Goes(p, t, To(thread[p][t].op, "cursor"))
        \/ db[p] = "open" /\ Goes(p, t, To(thread[p][t].op, "inside"))
    BY <1>6 DEF Connect, Cursor
  <2> QED BY <1>4, <1>5, <2>1, <2>2
<1>7. ASSUME Read(p, t) \/ Finish(p, t) \/ (Begin(p, t) /\ InProgress) PROVE \E w : Found(w)
  <2>1. Goes(p, t, Idle) /\ thread[p][t] \in {To("read", "inside"), To("finish", "inside"), To("begin", "inside")}
    BY <1>7 DEF Read, Finish, Begin, Inside
  <2>3. thread[p][t] # Idle
    BY <2>1, JobTypes DEF Imports
  <2>2. Found(Idle)
    BY <1>0, <2>1, <2>3, JobTypes DEF Follows, Imports
  <2> QED BY <2>2
<1>8. ASSUME Begin(p, t), ~InProgress PROVE \E w : Found(w)
  <2>1. thread[p][t] = To("begin", "inside") /\ Goes(p, t, To("spawn", "idle"))
    BY <1>8 DEF Begin, Inside
  <2>2. Found(To("spawn", "idle"))
    BY <1>0, <2>1, JobTypes DEF Follows, Imports, Roles
  <2> QED BY <2>2
<1>9. ASSUME Batch(p, t) PROVE \E w : Found(w)
  <2>1. PICK op \in {"batch", "finish"} : Goes(p, t, To(op, "connect"))
    BY <1>9 DEF Batch
  <2>2. Found(To(op, "connect"))
    BY <1>0, <1>9, <2>1, JobTypes DEF Batch, Inside, Follows, Imports, Roles
  <2> QED BY <2>2
<1>10. \E w : Found(w)
  BY <1>2, <1>3, <1>6, <1>7, <1>8, <1>9 DEF Thread
<1> QED BY <1>1, <1>10

-----------------------------------------------------------------------------
(* The rows of import_run. *)

LEMMA EndType == ASSUME Types, NEW p \in Processes
                 PROVE  /\ End(p) \in Seq(Rows) /\ Len(End(p)) = Len(runs) /\ DOMAIN End(p) = DOMAIN runs
                        /\ \A i \in DOMAIN runs : End(p)[i] = IF i = LastOf(p) /\ Running(i)
                                                              THEN [owner |-> runs[i].owner, state |-> "ended"] ELSE runs[i]
<1>1. runs \in Seq(Rows) /\ DOMAIN runs = 1 .. Len(runs) /\ Len(runs) \in Nat
  BY DEF Types
<1>2. \A i \in DOMAIN runs : /\ runs[i] \in Rows
                             /\ [runs[i] EXCEPT !.state = "ended"] = [owner |-> runs[i].owner, state |-> "ended"]
                             /\ [owner |-> runs[i].owner, state |-> "ended"] \in Rows
  <2> SUFFICES ASSUME NEW i \in DOMAIN runs
               PROVE  /\ runs[i] \in Rows
                      /\ [runs[i] EXCEPT !.state = "ended"] = [owner |-> runs[i].owner, state |-> "ended"]
                      /\ [owner |-> runs[i].owner, state |-> "ended"] \in Rows
    OBVIOUS
  <2>1. runs[i] \in Rows
    BY <1>1
  <2> QED BY <2>1 DEF Rows
<1>3. \A i \in DOMAIN runs : End(p)[i] = IF i = LastOf(p) /\ Running(i)
                                         THEN [owner |-> runs[i].owner, state |-> "ended"] ELSE runs[i]
  BY <1>2 DEF End
<1>4. DOMAIN End(p) = DOMAIN runs /\ \A i \in DOMAIN runs : End(p)[i] \in Rows
  BY <1>2, <1>3 DEF End
<1>5. End(p) \in [1 .. Len(runs) -> Rows]
  BY <1>1, <1>4 DEF End
<1> QED BY <1>1, <1>3, <1>4, <1>5

LEMMA InterruptedType == ASSUME Types
                         PROVE  /\ Interrupted \in Seq(Rows) /\ Len(Interrupted) = Len(runs) /\ DOMAIN Interrupted = DOMAIN runs
                                /\ \A i \in DOMAIN runs : Interrupted[i] = IF Running(i)
                                                              THEN [owner |-> runs[i].owner, state |-> "interrupted"] ELSE runs[i]
<1>1. runs \in Seq(Rows) /\ DOMAIN runs = 1 .. Len(runs) /\ Len(runs) \in Nat
  BY DEF Types
<1>2. \A i \in DOMAIN runs : /\ runs[i] \in Rows
                             /\ [runs[i] EXCEPT !.state = "interrupted"] = [owner |-> runs[i].owner, state |-> "interrupted"]
                             /\ [owner |-> runs[i].owner, state |-> "interrupted"] \in Rows
  <2> SUFFICES ASSUME NEW i \in DOMAIN runs
               PROVE  /\ runs[i] \in Rows
                      /\ [runs[i] EXCEPT !.state = "interrupted"] = [owner |-> runs[i].owner, state |-> "interrupted"]
                      /\ [owner |-> runs[i].owner, state |-> "interrupted"] \in Rows
    OBVIOUS
  <2>1. runs[i] \in Rows
    BY <1>1
  <2> QED BY <2>1 DEF Rows
<1>3. \A i \in DOMAIN runs : Interrupted[i] = IF Running(i)
                                         THEN [owner |-> runs[i].owner, state |-> "interrupted"] ELSE runs[i]
  BY <1>2 DEF Interrupted
<1>4. DOMAIN Interrupted = DOMAIN runs /\ \A i \in DOMAIN runs : Interrupted[i] \in Rows
  BY <1>2, <1>3 DEF Interrupted
<1>5. Interrupted \in [1 .. Len(runs) -> Rows]
  BY <1>1, <1>4 DEF Interrupted
<1> QED BY <1>1, <1>3, <1>4, <1>5

(* A step leaves the runs as they are, interrupts what runs at a launch, begins
   a run of its process or ends its last one. *)
Begins(p) == /\ runs' = Append(runs, [owner |-> p, state |-> "running"])
             /\ ~InProgress /\ \E t \in Threads : Begin(p, t)
RunsMove == \/ UNCHANGED runs
            \/ \E p \in Processes : Launch(p) /\ ~Barred(p) /\ runs' = Interrupted
            \/ \E p \in Processes : Begins(p)
            \/ \E p \in Processes, t \in Threads : Finish(p, t) /\ runs' = End(p)

LEMMA RunsMoves == ASSUME [Next]_vars PROVE RunsMove
<1>1. CASE UNCHANGED vars
  BY <1>1 DEF vars, RunsMove
<1>2. ASSUME NEW p \in Processes, Main(p) \/ Exit(p) \/ Kill(p) PROVE RunsMove
  BY <1>2 DEF Main, RunsMove, Lock, Launch, Stop, Close, Join, CloseDb, Closed, Unlock, Exit, Kill, Gone
<1>3. ASSUME NEW p \in Processes, NEW t \in Threads, Thread(p, t) \/ Spawn(p, t) PROVE RunsMove
  BY <1>3 DEF Thread, RunsMove, Ask, Start, Connect, Cursor, Read, Begin, Batch, Finish, Spawn, Begins
<1> QED BY <1>1, <1>2, <1>3, Zenon DEF Next, Main, Thread

LEMMA RunTypes == ASSUME Types, RunsMove PROVE runs' \in Seq(Rows)
<1>1. runs \in Seq(Rows)
  BY DEF Types
<1>2. ASSUME NEW p \in Processes, Begins(p) PROVE runs' \in Seq(Rows)
  <2>1. [owner |-> p, state |-> "running"] \in Rows
    BY DEF Rows
  <2> QED BY <1>1, <1>2, <2>1 DEF Begins
<1> QED BY <1>1, <1>2, EndType, InterruptedType DEF RunsMove

-----------------------------------------------------------------------------
(* The invariant that holds whatever requests do. *)

LEMMA CoreInit == ASSUME InstanceConstants PROVE Init => CoreInv
<1> SUFFICES ASSUME Init PROVE CoreInv
  OBVIOUS
<1>1. /\ stage = [p \in Processes |-> "off"] /\ holder = None /\ db = [p \in Processes |-> "none"]
      /\ closes = [p \in Processes |-> 0] /\ seen = [p \in Processes |-> FALSE] /\ runs = <<>>
      /\ thread = [p \in Processes |-> [t \in Threads |-> Idle]]
  BY DEF Init
<1>2. Types
  BY <1>1, JobTypes DEF Types, Stages
<1>3. \A p \in Processes, t \in Threads : thread[p][t].op = "none" /\ thread[p][t].step = "idle"
  BY <1>1, JobTypes
<1>4. \A p \in Processes : stage[p] = "off" /\ closes[p] = 0 /\ db[p] = "none"
  BY <1>1
<1>5. \A p \in Processes : Closings(p) /\ Roles(p) /\ Opened(p) /\ ~Holds(p)
  BY <1>3, <1>4 DEF Closings, Roles, Opened, Serves, Holds, Threads, Imports
<1> QED BY <1>2, <1>5 DEF CoreInv, OneHolds

LEMMA NewConnection ==
  ASSUME NEW p \in Processes, NEW t \in Threads, Thread(p, t)
  PROVE  UNCHANGED db \/ (db[p] = "none" /\ ~Barred(p) /\ db' = [db EXCEPT ![p] = "open"])
BY DEF Thread, Ask, Start, Connect, Cursor, Read, Begin, Batch, Finish, Inside

LEMMA ThreadKeeps ==
  ASSUME InstanceConstants, CoreInv, NEW p \in Processes, NEW t \in Threads, Thread(p, t), runs' \in Seq(Rows)
  PROVE  CoreInv'
<1>1. PICK w \in Jobs : Goes(p, t, w) /\ Follows(p, t, w)
  BY ThreadFollows
<1>2. UNCHANGED <<stage, holder, closes, seen>>
  BY ThreadFollows
<1>3. /\ thread' \in [Processes -> [Threads -> Jobs]] /\ thread'[p][t] = w
      /\ \A q \in Processes, u \in Threads : q # p \/ u # t => thread'[q][u] = thread[q][u]
  BY <1>1, ThreadMoves DEF CoreInv
<1>4. UNCHANGED db \/ (db[p] = "none" /\ ~Barred(p) /\ db' = [db EXCEPT ![p] = "open"])
  BY NewConnection
<1>5. Types'
  BY <1>2, <1>3, <1>4 DEF CoreInv, Types
<1>6. \A q \in Processes : Closings(q)' /\ Opened(q)'
  BY <1>2, <1>4 DEF CoreInv, Types, Closings, Opened, Serves
<1>7. \A q \in Processes : Roles(q)'
  <2>1. Worker \in Threads /\ Requests \subseteq Threads /\ Worker \notin Requests /\ Roles(p)
    BY DEF Threads, CoreInv, InstanceConstants
  <2>2. ASSUME NEW q \in Processes, q # p PROVE Roles(q)'
    BY <1>3, <2>1, <2>2 DEF CoreInv, Roles
  <2>3. thread'[p][Worker].op \in {"none", "batch", "finish"}
        /\ \A u \in Requests : thread'[p][u].op \notin {"batch", "finish"}
    BY <1>1, <1>3, <2>1 DEF Roles, Follows
  <2>4. ASSUME NEW u \in Threads, u # t, thread'[p][u].op \in Imports, w.op \in Imports PROVE FALSE
    <3>1. thread[p][u].op \in Imports
      BY <1>3, <2>4
    <3>2. ~Alive(p) /\ \A v \in Requests : thread[p][v].op \notin {"begin", "spawn"}
      BY <1>1, <2>1, <2>4, <3>1 DEF Follows, Roles
    <3>3. thread[p][Worker].op = "none"
      BY <2>1, <3>2, JobTypes DEF Alive, Busy
    <3> QED BY <2>1, <3>1, <3>2, <3>3 DEF Imports, Roles, Threads
  <2>5. \A u, v \in Threads : thread'[p][u].op \in Imports /\ thread'[p][v].op \in Imports => u = v
    BY <1>3, <2>1, <2>4 DEF Roles
  <2>6. Roles(p)'
    BY <2>3, <2>5 DEF Roles
  <2> QED BY <2>2, <2>6
<1>8. OneHolds'
  <2>1. \A q \in Processes \ {p} : Holds(q)' = Holds(q)
    BY <1>3, <1>4 DEF Holds, CoreInv, Types
  <2>2. Holds(p)' => Holds(p) \/ ~Barred(p)
    BY <1>1, <1>3, <1>4 DEF Holds, CoreInv, Types, Follows
  <2> QED BY <2>1, <2>2 DEF OneHolds, Barred, CoreInv
<1> QED BY <1>5, <1>6, <1>7, <1>8 DEF CoreInv

LEMMA SpawnMoves ==
  ASSUME InstanceConstants, CoreInv, NEW p \in Processes, NEW t \in Threads, Spawn(p, t)
  PROVE  /\ t \in Requests /\ thread[p][t].op = "spawn" /\ thread[p][Worker].op = "none"
         /\ thread' \in [Processes -> [Threads -> Jobs]]
         /\ thread'[p][t] = Idle /\ thread'[p][Worker] = To("batch", "connect")
         /\ \A q \in Processes, u \in Threads : q # p \/ u \notin {t, Worker} => thread'[q][u] = thread[q][u]
         /\ UNCHANGED <<stage, holder, db, closes, seen, runs>>
<1>1. /\ thread[p][t].op = "spawn" /\ UNCHANGED <<stage, holder, db, closes, seen, runs>>
      /\ thread' = [thread EXCEPT ![p][t] = Idle, ![p][Worker] = To("batch", "connect")]
  BY DEF Spawn
<1>2. Types /\ Roles(p) /\ Worker \in Threads /\ Worker \notin Requests
  BY DEF CoreInv, Threads, InstanceConstants
<1>3. t # Worker /\ t \in Requests
  BY <1>1, <1>2 DEF Roles, Threads
<1>4. thread[p][Worker].op = "none"
  BY <1>1, <1>2, <1>3 DEF Roles, Imports
<1> DEFINE batch == To("batch", "connect")
           mine == [u \in Threads |-> IF u = Worker THEN batch ELSE IF u = t THEN Idle ELSE thread[p][u]]
<1>5. batch \in Jobs /\ Idle \in Jobs
  BY JobTypes DEF Imports
<1>6. thread' = [thread EXCEPT ![p] = mine]
  <2>1. thread \in [Processes -> [Threads -> Jobs]]
    BY <1>2 DEF Types
  <2> HIDE DEF batch
  <2> QED BY <1>1, <1>2, <1>3, <2>1 DEF batch
<1> HIDE DEF batch
<1>7. mine \in [Threads -> Jobs]
  BY <1>2, <1>5 DEF Types
<1>8. /\ thread' \in [Processes -> [Threads -> Jobs]] /\ thread'[p] = mine
      /\ \A q \in Processes : q # p => thread'[q] = thread[q]
  BY <1>2, <1>6, <1>7 DEF Types
<1> QED BY <1>1, <1>2, <1>3, <1>4, <1>8 DEF batch

LEMMA SpawnKeeps ==
  ASSUME InstanceConstants, CoreInv, NEW p \in Processes, NEW t \in Threads, Spawn(p, t)
  PROVE  CoreInv'
<1>1. /\ t \in Requests /\ thread[p][t].op = "spawn" /\ thread[p][Worker].op = "none"
      /\ thread' \in [Processes -> [Threads -> Jobs]]
      /\ thread'[p][t] = Idle /\ thread'[p][Worker] = To("batch", "connect")
      /\ \A q \in Processes, u \in Threads : q # p \/ u \notin {t, Worker} => thread'[q][u] = thread[q][u]
      /\ UNCHANGED <<stage, holder, db, closes, seen, runs>>
  BY SpawnMoves
<1>2. Idle.op = "none" /\ Idle.step = "idle" /\ To("batch", "connect").op = "batch" /\ To("batch", "connect").step = "connect"
  BY JobTypes DEF Imports
<1>3. Types'
  BY <1>1 DEF CoreInv, Types
<1>4. \A q \in Processes : Closings(q)' /\ Opened(q)'
  BY <1>1 DEF CoreInv, Closings, Opened, Serves
<1>5. Worker \in Threads /\ Requests \subseteq Threads /\ Worker \notin Requests /\ Roles(p) /\ Threads = Requests \cup {Worker}
  BY DEF Threads, CoreInv, InstanceConstants
<1>6. \A q \in Processes : q # p => Roles(q)'
  BY <1>1, <1>5 DEF CoreInv, Roles
<1>7. \A u \in Threads : thread'[p][u].op \in Imports => u = Worker
  BY <1>1, <1>2, <1>5 DEF Roles, Imports
<1>8. Roles(p)'
  BY <1>1, <1>2, <1>5, <1>7 DEF Roles
<1>9. \A q \in Processes : Holds(q)' => Holds(q)
  BY <1>1, <1>2, <1>5 DEF Holds
<1> QED BY <1>3, <1>4, <1>6, <1>8, <1>9 DEF CoreInv, OneHolds

LEMMA MainKeeps ==
  ASSUME CoreInv, NEW p \in Processes, Main(p), runs' \in Seq(Rows)
  PROVE  CoreInv'
<1>0. Types /\ Closings(p) /\ Roles(p) /\ Opened(p)
  BY DEF CoreInv
<1>1. /\ UNCHANGED thread
      /\ \A q \in Processes \ {p} : stage'[q] = stage[q] /\ closes'[q] = closes[q] /\ db'[q] = db[q]
      /\ stage' \in [Processes -> Stages] /\ holder' \in Processes \cup {None}
      /\ db' \in [Processes -> {"none", "open", "closed"}] /\ seen' \in [Processes -> BOOLEAN]
      /\ closes' \in [Processes -> 0 .. 2]
      /\ db'[p] = "open" => db[p] = "open" \/ ~Barred(p)
      /\ Closings(p)' /\ Opened(p)'
  <2>1. CASE Lock(p)
    BY <1>0, <2>1 DEF Lock, Moves, Types, Stages, Closings, Opened, Serves
  <2>2. CASE Launch(p)
    BY <1>0, <2>2 DEF Launch, Moves, Types, Stages, Closings, Opened, Serves
  <2>3. CASE Stop(p)
    BY <1>0, <2>3 DEF Stop, Moves, Types, Stages, Closings, Opened, Serves
  <2>4. CASE Close(p)
    BY <1>0, <2>4 DEF Close, Moves, Types, Stages, Closings, Opened, Serves, Alive
  <2>5. CASE Join(p)
    BY <1>0, <2>5 DEF Join, Moves, Types, Stages, Closings, Opened, Serves
  <2>6. CASE CloseDb(p)
    BY <1>0, <2>6 DEF CloseDb, Moves, Types, Stages, Closings, Opened, Serves
  <2>7. CASE Closed(p)
    BY <1>0, <2>7 DEF Closed, Moves, Types, Stages, Closings, Opened, Serves
  <2>8. CASE Unlock(p)
    BY <1>0, <2>8 DEF Unlock, Moves, Types, Stages, Closings, Opened, Serves
  <2> QED BY <2>1, <2>2, <2>3, <2>4, <2>5, <2>6, <2>7, <2>8 DEF Main
<1>2. Types'
  BY <1>0, <1>1 DEF Types
<1>3. \A q \in Processes : Closings(q)' /\ Opened(q)' /\ Roles(q)'
  BY <1>1 DEF CoreInv, Closings, Opened, Serves, Roles
<1>4. \A q \in Processes \ {p} : Holds(q)' = Holds(q)
  BY <1>1 DEF Holds
<1>5. Holds(p)' => Holds(p) \/ ~Barred(p)
  BY <1>1 DEF Holds
<1> QED BY <1>2, <1>3, <1>4, <1>5 DEF CoreInv, OneHolds, Barred

LEMMA GoneKeeps ==
  ASSUME CoreInv, NEW p \in Processes, Exit(p) \/ Kill(p)
  PROVE  CoreInv'
<1>1. PICK to \in {"ended", "killed"} : Gone(p, to)
  BY DEF Exit, Kill
<1>2. holder' \in {holder, None} /\ UNCHANGED <<closes, seen, runs>>
  BY <1>1 DEF Exit, Kill, Gone
<1>3. /\ \A q \in Processes \ {p} : stage'[q] = stage[q] /\ thread'[q] = thread[q] /\ db'[q] = db[q]
      /\ stage' \in [Processes -> Stages] /\ stage'[p] = to
      /\ db' \in [Processes -> {"none", "open", "closed"}] /\ db'[p] = "none"
      /\ thread' \in [Processes -> [Threads -> Jobs]] /\ \A t \in Threads : thread'[p][t] = Idle
  BY <1>1, JobTypes DEF CoreInv, Types, Gone, Moves, Stages
<1>4. Types'
  BY <1>2, <1>3 DEF CoreInv, Types
<1>5. \A q \in Processes \ {p} : Closings(q)' /\ Opened(q)' /\ Roles(q)' /\ (Holds(q)' = Holds(q))
  BY <1>2, <1>3 DEF CoreInv, Closings, Opened, Serves, Roles, Holds
<1>6. Closings(p)' /\ Opened(p)' /\ Roles(p)' /\ ~Holds(p)'
  BY <1>2, <1>3, JobTypes DEF Closings, Opened, Serves, Roles, Holds, Threads, Imports
<1> QED BY <1>4, <1>5, <1>6 DEF CoreInv, OneHolds

LEMMA CoreStep == ASSUME InstanceConstants, CoreInv, [Next]_vars PROVE CoreInv'
<1>1. runs' \in Seq(Rows)
  BY RunsMoves, RunTypes DEF CoreInv
<1>2. CASE UNCHANGED vars
  BY <1>2 DEF vars, CoreInv, Types, Closings, Roles, Opened, Serves, OneHolds, Holds
<1>3. ASSUME NEW p \in Processes, Main(p) \/ Exit(p) \/ Kill(p) PROVE CoreInv'
  BY <1>1, <1>3, MainKeeps, GoneKeeps
<1>4. ASSUME NEW p \in Processes, NEW t \in Threads, Thread(p, t) \/ Spawn(p, t) PROVE CoreInv'
  BY <1>1, <1>4, ThreadKeeps, SpawnKeeps
<1> QED BY <1>2, <1>3, <1>4, Zenon DEF Next, Main, Thread

LEMMA CoreAlways == ASSUME InstanceConstants PROVE Spec => []CoreInv
<1>1. Init => CoreInv
  BY CoreInit
<1>2. CoreInv /\ [Next]_vars => CoreInv'
  BY CoreStep
<1> QED BY <1>1, <1>2, PTL DEF Spec

-----------------------------------------------------------------------------
(* Whatever requests do. *)

(* Every variable keeps its type, and an import is started by one thread at a
   time, and by none while the worker lives. *)
THEOREM ProcessTypes == ASSUME InstanceConstants PROVE Spec => []TypeOK
<1>1. CoreInv => TypeOK
  <2> SUFFICES ASSUME CoreInv PROVE TypeOK
    OBVIOUS
  <2>1. /\ stage \in [Processes -> Stages] /\ holder \in Processes \cup {None}
        /\ db \in [Processes -> {"none", "open", "closed"}]
        /\ closes \in [Processes -> 0 .. 2] /\ seen \in [Processes -> BOOLEAN]
        /\ runs \in Seq(Rows) /\ \A p \in Processes : Roles(p)
    BY DEF CoreInv, Types
  <2>2. \A i \in DOMAIN runs : runs[i].state \in {"running", "ended", "interrupted"}
    <3> SUFFICES ASSUME NEW i \in DOMAIN runs PROVE runs[i].state \in {"running", "ended", "interrupted"}
      OBVIOUS
    <3>1. runs[i] \in Rows
      BY <2>1
    <3> QED BY <3>1 DEF Rows
  <2>3. ASSUME NEW p \in Processes
        PROVE  Cardinality({t \in Threads : thread[p][t].op \in {"begin", "spawn", "batch", "finish"}}) <= 1
    <3> DEFINE S == {t \in Threads : thread[p][t].op \in {"begin", "spawn", "batch", "finish"}}
    <3>1. CASE S = {}
      BY <3>1, FS_EmptySet
    <3>2. CASE S # {}
      <4>1. PICK t \in S : S = {t}
        BY <2>1, <3>2 DEF Roles, Imports
      <4>2. Cardinality({t}) = 1
        BY FS_Singleton
      <4> HIDE DEF S
      <4>3. Cardinality(S) = 1
        BY <4>1, <4>2
      <4>4. Cardinality(S) <= 1
        BY <4>3
      <4> QED BY <4>4 DEF S
    <3> QED BY <3>1, <3>2
  <2> QED BY <2>1, <2>2, <2>3 DEF TypeOK, Stages, Roles
<1> QED BY <1>1, CoreAlways, PTL

LEMMA ServesMove ==
  ASSUME CoreInv, [Next]_vars, NEW p \in Processes, Serves(p)'
  PROVE  Serves(p) \/ runs' = Interrupted
<1>1. CASE UNCHANGED vars
  BY <1>1 DEF vars, Serves
<1>2. ASSUME NEW q \in Processes, Main(q) \/ Exit(q) \/ Kill(q) PROVE Serves(p) \/ runs' = Interrupted
  BY <1>2 DEF Main, Lock, Launch, Stop, Close, Join, CloseDb, Closed, Unlock, Exit, Kill, Gone, Moves, Serves,
              CoreInv, Types
<1>3. ASSUME NEW q \in Processes, NEW t \in Threads, Thread(q, t) \/ Spawn(q, t) PROVE Serves(p) \/ runs' = Interrupted
  BY <1>3 DEF Thread, Ask, Start, Connect, Cursor, Read, Begin, Batch, Finish, Inside, Spawn, Serves
<1> QED BY <1>1, <1>2, <1>3, Zenon DEF Next, Main, Thread

(* Storage._db stays open while a process serves, and no other process can
   open the file then: what is in progress was begun by the process itself,
   also when requests outlive the close. *)
THEOREM OwnRunsOnly == ASSUME InstanceConstants PROVE Spec => []ServesOwnRuns
<1>1. Init => ServesOwnRuns
  BY DEF Init, ServesOwnRuns
<1>2. CoreInv /\ ServesOwnRuns /\ [Next]_vars => ServesOwnRuns'
  <2> SUFFICES ASSUME CoreInv, ServesOwnRuns, [Next]_vars, NEW p \in Processes, Serves(p)',
                      NEW i \in DOMAIN runs', Running(i)'
               PROVE  runs'[i].owner = p
    BY DEF ServesOwnRuns, Serves
  <2>0. Types /\ runs \in Seq(Rows)
    BY DEF CoreInv, Types
  <2>1. runs' # Interrupted
    BY <2>0, InterruptedType DEF Running
  <2>2. Serves(p)
    BY <2>1, ServesMove
  <2>3. \A j \in DOMAIN runs : Running(j) => runs[j].owner = p
    BY <2>2 DEF ServesOwnRuns, Serves
  <2>4. CASE UNCHANGED runs
    BY <2>3, <2>4 DEF Running
  <2>5. ASSUME NEW q \in Processes, Begins(q) PROVE runs'[i].owner = p
    <3>1. PICK t \in Threads : Begin(q, t)
      BY <2>5 DEF Begins
    <3>2. thread[q][t].step = "inside"
      BY <3>1, JobTypes DEF Begin, Inside, Imports
    <3>3. Holds(q) /\ Holds(p)
      BY <2>2, <3>2 DEF Holds, CoreInv, Opened
    <3>4. q = p
      BY <3>3 DEF CoreInv, OneHolds
    <3>5. runs' = Append(runs, [owner |-> p, state |-> "running"])
      BY <2>5, <3>4 DEF Begins
    <3>6. CASE i \in DOMAIN runs
      <4>1. runs'[i] = runs[i]
        BY <2>0, <3>5, <3>6
      <4> QED BY <2>3, <3>6, <4>1 DEF Running
    <3>7. CASE i \notin DOMAIN runs
      <4>1. runs'[i] = [owner |-> p, state |-> "running"]
        BY <2>0, <3>5, <3>7
      <4> QED BY <4>1
    <3> QED BY <3>6, <3>7
  <2>6. ASSUME NEW q \in Processes, runs' = End(q) PROVE runs'[i].owner = p
    <3>1. i \in DOMAIN runs /\ End(q)[i] = IF i = LastOf(q) /\ Running(i)
                                            THEN [owner |-> runs[i].owner, state |-> "ended"] ELSE runs[i]
      BY <2>0, <2>6, EndType
    <3>2. Running(i) /\ runs'[i] = runs[i]
      BY <2>6, <3>1 DEF Running
    <3> QED BY <2>3, <3>1, <3>2
  <2> QED BY <2>1, <2>4, <2>5, <2>6, RunsMoves DEF RunsMove
<1> QED BY <1>1, <1>2, CoreAlways, PTL DEF Spec

(* finish_import and the repair at a launch touch running rows only, so a run
   that has ended keeps its end, whoever gave it. *)
THEOREM RunsEndOnce == ASSUME InstanceConstants PROVE Spec => [][EndsOnce]_vars
<1>1. CoreInv /\ [Next]_vars => [EndsOnce]_vars
  <2> SUFFICES ASSUME CoreInv, [Next]_vars, NEW i \in DOMAIN runs, ~Running(i) PROVE runs'[i] = runs[i]
    BY DEF EndsOnce
  <2>0. Types /\ runs \in Seq(Rows)
    BY DEF CoreInv, Types
  <2>1. ASSUME NEW p \in Processes, Begins(p) PROVE runs'[i] = runs[i]
    BY <2>0, <2>1 DEF Begins
  <2> QED BY <2>0, <2>1, RunsMoves, EndType, InterruptedType DEF RunsMove
<1> QED BY <1>1, CoreAlways, PTL DEF Spec

-----------------------------------------------------------------------------
(* Requests that end in time. *)

(* The lock is held from the launch to the second close; between the closes and
   after them nothing is open and nothing at work. *)
Guarded(p) ==
  /\ stage[p] \in {"launching", "serving", "draining", "joining", "closing", "unlocking"} <=> holder = p
  /\ stage[p] \notin {"serving", "draining", "joining", "closing"} => db[p] = "none"
  /\ stage[p] \notin {"serving", "draining", "joining"} => Busy(p) = {}
  /\ stage[p] = "joining" => Busy(p) \subseteq {Worker} /\ (Alive(p) => seen[p])
  /\ stage[p] \in {"draining", "joining"} /\ closes[p] > 0 => Busy(p) = {} /\ db[p] = "none"

(* A run in progress whose process was not killed is the last one of it, and a
   thread of it is at work on the run. *)
IsLast(i) == \A j \in DOMAIN runs : runs[j].owner = runs[i].owner => j <= i
AtWork(p) == \E t \in Threads : thread[p][t].op \in {"spawn", "batch", "finish"}
Owned == \A i \in DOMAIN runs : Running(i) /\ stage[runs[i].owner] # "killed" => IsLast(i) /\ AtWork(runs[i].owner)

PromptInv == CoreInv /\ (\A p \in Processes : Guarded(p)) /\ Owned

LEMMA PromptInit == ASSUME InstanceConstants PROVE Init => PromptInv
<1> SUFFICES ASSUME Init PROVE PromptInv
  OBVIOUS
<1>1. CoreInv
  BY CoreInit
<1>2. /\ stage = [p \in Processes |-> "off"] /\ holder = None /\ db = [p \in Processes |-> "none"]
      /\ runs = <<>> /\ thread = [p \in Processes |-> [t \in Threads |-> Idle]]
  BY DEF Init
<1>3. \A p \in Processes : Guarded(p)
  BY <1>2 DEF Guarded, Busy, InstanceConstants
<1>4. Owned
  BY <1>2 DEF Owned
<1> QED BY <1>1, <1>3, <1>4 DEF PromptInv

LEMMA BusyServes ==
  ASSUME PromptInv, NEW p \in Processes, Busy(p) # {}
  PROVE  Serves(p) /\ db[p] = "open"
<1>1. stage[p] \in {"serving", "draining", "joining"} /\ closes[p] \in 0 .. 2
  BY DEF PromptInv, Guarded, CoreInv, Types
<1>2. closes[p] = 0
  BY <1>1 DEF PromptInv, Guarded, CoreInv, Closings
<1> QED BY <1>1, <1>2 DEF PromptInv, CoreInv, Opened, Serves

LEMMA MainGuards ==
  ASSUME InstanceConstants, ~Late, PromptInv, NEW p \in Processes, Main(p)
  PROVE  \A q \in Processes : Guarded(q)'
<1>0. Types /\ Closings(p) /\ (\A q \in Processes : Guarded(q)) /\ None \notin Processes /\ closes[p] \in 0 .. 2
  BY DEF PromptInv, CoreInv, Types, InstanceConstants
<1>1. /\ \A q \in Processes : Busy(q)' = Busy(q) /\ (Alive(q)' <=> Alive(q))
      /\ \A q \in Processes \ {p} : UNCHANGED <<stage[q], db[q], closes[q], seen[q]>>
      /\ \A q \in Processes \ {p} : holder' = q <=> holder = q
  BY <1>0 DEF Main, Lock, Launch, Stop, Close, Join, CloseDb, Closed, Unlock, Moves, Types, Busy, Alive, Guarded
<1>2. \A q \in Processes \ {p} : Guarded(q)'
  BY <1>0, <1>1 DEF Guarded
<1>3. Guarded(p)'
  <2> USE <1>0, <1>1
  <2>1. CASE Lock(p)
    BY <2>1 DEF Lock, Moves, Types, Guarded
  <2>2. CASE Launch(p)
    BY <2>2 DEF Launch, Moves, Types, Guarded, Closings
  <2>3. CASE Stop(p)
    BY <2>3 DEF Stop, Moves, Types, Guarded, Closings
  <2>4. CASE Close(p)
    BY <2>4 DEF Close, Moves, Types, Guarded, Drained, Alive
  <2>5. CASE Join(p)
    BY <2>5 DEF Join, Moves, Types, Guarded, Joined, Alive
  <2>6. CASE CloseDb(p)
    BY <2>6 DEF CloseDb, Moves, Types, Guarded
  <2>7. CASE Closed(p)
    BY <2>7 DEF Closed, Moves, Types, Guarded
  <2>8. CASE Unlock(p)
    BY <2>8 DEF Unlock, Moves, Types, Guarded
  <2> QED BY <2>1, <2>2, <2>3, <2>4, <2>5, <2>6, <2>7, <2>8 DEF Main
<1> QED BY <1>2, <1>3

LEMMA ThreadGuards ==
  ASSUME InstanceConstants, PromptInv, NEW p \in Processes, NEW t \in Threads, Thread(p, t) \/ Spawn(p, t)
  PROVE  \A q \in Processes : Guarded(q)'
<1>0. Types /\ (\A q \in Processes : Guarded(q))
  BY DEF PromptInv, CoreInv
<1>1. /\ UNCHANGED <<stage, holder, closes, seen>> /\ thread' \in [Processes -> [Threads -> Jobs]]
      /\ \A q \in Processes \ {p} : thread'[q] = thread[q]
      /\ thread[p][t] = Idle => stage[p] = "serving"
      /\ \A u \in Threads \ {t} : thread'[p][u] = thread[p][u] \/ (u = Worker /\ Spawn(p, t))
  <2>1. CASE Thread(p, t)
    <3>1. PICK w \in Jobs : Goes(p, t, w) /\ Follows(p, t, w)
      BY <2>1, ThreadFollows DEF PromptInv
    <3>2. UNCHANGED <<stage, holder, closes, seen>>
      BY <2>1, ThreadFollows DEF PromptInv
    <3> QED BY <1>0, <3>1, <3>2 DEF Goes, Types, Follows
  <2>2. CASE Spawn(p, t)
    <3>1. UNCHANGED <<stage, holder, closes, seen>> /\ thread[p][t] # Idle
      BY <2>2, JobTypes DEF Spawn
    <3>2. /\ thread' \in [Processes -> [Threads -> Jobs]]
          /\ \A q \in Processes, u \in Threads : q # p \/ u \notin {t, Worker} => thread'[q][u] = thread[q][u]
      BY <2>2, SpawnMoves DEF PromptInv
    <3>3. \A q \in Processes \ {p} : thread'[q] = thread[q]
      BY <1>0, <3>2 DEF Types
    <3> QED BY <2>2, <3>1, <3>2, <3>3
  <2> QED BY <2>1, <2>2
<1>2. UNCHANGED db \/ (db[p] = "none" /\ db' = [db EXCEPT ![p] = "open"])
  BY NewConnection DEF Spawn
<1>3. \A q \in Processes \ {p} : Guarded(q)'
  BY <1>0, <1>1, <1>2 DEF Guarded, Busy, Alive, Types
<1>4. CASE stage[p] = "serving"
  <2>1. closes[p] = 0
    BY <1>4 DEF PromptInv, CoreInv, Closings
  <2> QED BY <1>0, <1>1, <1>3, <1>4, <2>1 DEF Guarded
<1>5. CASE stage[p] # "serving"
  <2>1. t \in Busy(p)
    BY <1>1, <1>5 DEF Busy
  <2>2. Serves(p) /\ db[p] = "open" /\ UNCHANGED db
    BY <1>2, <2>1, BusyServes
  <2>3. stage[p] = "joining" => t = Worker /\ seen[p] /\ ~Spawn(p, t)
    <3>1. stage[p] = "joining" => t = Worker /\ seen[p]
      BY <1>0, <2>1 DEF Guarded, Alive
    <3>2. Spawn(p, t) => t # Worker
      BY SpawnMoves DEF PromptInv, InstanceConstants
    <3> QED BY <3>1, <3>2
  <2>4. stage[p] = "joining" => Busy(p)' \subseteq {Worker}
    BY <1>0, <1>1, <2>3 DEF Guarded, Busy
  <2>5. closes'[p] = 0 /\ stage'[p] \in {"serving", "draining", "joining"}
    BY <1>1, <2>2 DEF Serves
  <2>6. Guarded(p)'
    BY <1>0, <1>1, <2>2, <2>3, <2>4, <2>5 DEF Guarded
  <2> QED BY <1>3, <2>6
<1> QED BY <1>4, <1>5

LEMMA GoneGuards ==
  ASSUME InstanceConstants, PromptInv, NEW p \in Processes, Exit(p) \/ Kill(p)
  PROVE  \A q \in Processes : Guarded(q)'
<1>0. Types /\ (\A q \in Processes : Guarded(q)) /\ None \notin Processes
  BY DEF PromptInv, CoreInv, InstanceConstants
<1>1. PICK to \in {"ended", "killed"} : Gone(p, to)
  BY DEF Exit, Kill
<1>2. /\ UNCHANGED <<closes, seen>> /\ holder' # p
      /\ \A q \in Processes \ {p} : holder' = q <=> holder = q
  <2>1. Exit(p) => holder # p /\ UNCHANGED holder
    BY <1>0 DEF Exit, Guarded
  <2>2. Kill(p) => holder' = IF holder = p THEN None ELSE holder
    BY DEF Kill
  <2> QED BY <1>0, <1>1, <2>1, <2>2 DEF Gone
<1>3. /\ \A q \in Processes \ {p} : stage'[q] = stage[q] /\ thread'[q] = thread[q] /\ db'[q] = db[q]
      /\ stage'[p] = to /\ db'[p] = "none" /\ \A t \in Threads : thread'[p][t] = Idle
  BY <1>0, <1>1 DEF Types, Gone, Moves
<1> QED BY <1>0, <1>2, <1>3 DEF Guarded, Busy, Alive

(* With the ledger open a thread that is at an import goes on until the run
   has ended. *)
LEMMA ImportGoesOn ==
  ASSUME InstanceConstants, CoreInv, NEW p \in Processes, NEW t \in Threads, Thread(p, t), db[p] = "open",
         thread[p][t].op \in {"spawn", "batch", "finish"}
  PROVE  thread'[p][t].op \in {"spawn", "batch", "finish"} \/ Finish(p, t)
<1>0. Types /\ thread[p][t].op \in Imports /\ thread[p][t] # Idle
  BY JobTypes DEF CoreInv, Imports
<1>1. \/ \E op \in {"spawn", "batch", "finish"}, step \in {"connect", "cursor", "inside"} : Goes(p, t, To(op, step))
      \/ Finish(p, t)
  <2>1. CASE Connect(p, t)
    BY <2>1 DEF Connect
  <2>2. CASE Cursor(p, t)
    BY <2>2 DEF Cursor
  <2>3. CASE Batch(p, t)
    BY <2>3 DEF Batch
  <2>4. CASE Ask(p, t)
    BY <1>0, <2>4 DEF Ask
  <2>5. CASE Start(p, t) \/ Read(p, t) \/ Begin(p, t)
    <3>1. thread[p][t] \in {To("start", "connect"), To("read", "inside"), To("begin", "inside")}
      BY <2>5 DEF Start, Read, Begin, Inside
    <3> QED BY <3>1, JobTypes DEF Imports
  <2> QED BY <2>1, <2>2, <2>3, <2>4, <2>5 DEF Thread
<1>2. ASSUME NEW op \in {"spawn", "batch", "finish"}, NEW step \in {"connect", "cursor", "inside"}, Goes(p, t, To(op, step))
      PROVE  thread'[p][t].op \in {"spawn", "batch", "finish"}
  <2>1. To(op, step) \in Jobs /\ To(op, step).op = op
    BY JobTypes DEF Imports
  <2> QED BY <1>0, <1>2, <2>1, ThreadMoves
<1> QED BY <1>1, <1>2

LEMMA StaysKilled ==
  ASSUME CoreInv, [Next]_vars, NEW p \in Processes, stage[p] = "killed"
  PROVE  stage'[p] = "killed"
<1>1. CASE UNCHANGED vars
  BY <1>1 DEF vars
<1>2. ASSUME NEW q \in Processes, Main(q) \/ Exit(q) \/ Kill(q) PROVE stage'[p] = "killed"
  BY <1>2 DEF Main, Lock, Launch, Stop, Close, Join, CloseDb, Closed, Unlock, Exit, Kill, Gone, Moves, CoreInv, Types
<1>3. ASSUME NEW q \in Processes, NEW t \in Threads, Thread(q, t) \/ Spawn(q, t) PROVE stage'[p] = "killed"
  BY <1>3 DEF Thread, Ask, Start, Connect, Cursor, Read, Begin, Batch, Finish, Inside, Spawn
<1> QED BY <1>1, <1>2, <1>3, Zenon DEF Next, Main, Thread

(* While its run goes on a process stays at work on it. *)
LEMMA WorkGoesOn ==
  ASSUME InstanceConstants, PromptInv, [Next]_vars, NEW p \in Processes, AtWork(p), stage'[p] # "killed"
  PROVE  AtWork(p)' \/ \E t \in Threads : Finish(p, t)
<1>0. Types /\ stage[p] # "killed"
  BY StaysKilled DEF PromptInv, CoreInv
<1>1. PICK u \in Threads : thread[p][u].op \in {"spawn", "batch", "finish"}
  BY DEF AtWork
<1>2. u \in Busy(p)
  BY <1>1, JobTypes DEF Busy
<1>3. Serves(p) /\ db[p] = "open"
  BY <1>2, BusyServes
<1>4. CASE UNCHANGED vars
  BY <1>4 DEF vars, AtWork
<1>5. ASSUME NEW q \in Processes, Main(q) PROVE AtWork(p)'
  BY <1>5 DEF Main, Lock, Launch, Stop, Close, Join, CloseDb, Closed, Unlock, AtWork
<1>6. ASSUME NEW q \in Processes, Exit(q) \/ Kill(q) PROVE AtWork(p)'
  <2>1. PICK to \in {"ended", "killed"} : Gone(q, to) /\ (to = "ended" => stage[q] = "unlocked")
    BY <1>6 DEF Exit, Kill
  <2>2. stage'[q] = to /\ \A r \in Processes \ {q} : thread'[r] = thread[r]
    BY <1>0, <2>1 DEF Gone, Moves, Types
  <2>3. q # p
    BY <1>3, <2>1, <2>2 DEF Serves
  <2> QED BY <1>1, <2>2, <2>3 DEF AtWork
<1>7. ASSUME NEW q \in Processes, NEW t \in Threads, Thread(q, t) PROVE AtWork(p)' \/ Finish(p, t)
  <2>1. PICK w \in Jobs : Goes(q, t, w)
    BY <1>7, ThreadFollows DEF PromptInv
  <2>2. \A r \in Processes, v \in Threads : r # q \/ v # t => thread'[r][v] = thread[r][v]
    BY <1>0, <2>1, ThreadMoves
  <2>3. CASE q # p \/ u # t
    BY <1>1, <2>2, <2>3 DEF AtWork
  <2>4. CASE q = p /\ u = t
    BY <1>1, <1>3, <1>7, <2>4, ImportGoesOn DEF AtWork, PromptInv
  <2> QED BY <2>3, <2>4
<1>8. ASSUME NEW q \in Processes, NEW t \in Threads, Spawn(q, t) PROVE AtWork(p)'
  <2>1. /\ thread'[q][Worker] = To("batch", "connect") /\ Worker \in Threads
        /\ \A r \in Processes, v \in Threads : r # q \/ v \notin {t, Worker} => thread'[r][v] = thread[r][v]
    BY <1>8, SpawnMoves DEF PromptInv, Threads
  <2>2. q = p => thread'[p][Worker].op = "batch"
    BY <2>1, JobTypes DEF Imports
  <2> QED BY <1>1, <2>1, <2>2 DEF AtWork
<1> QED BY <1>4, <1>5, <1>6, <1>7, <1>8, Zenon DEF Next, Main, Thread

LEMMA OwnedStep ==
  ASSUME InstanceConstants, PromptInv, [Next]_vars
  PROVE  Owned'
<1> SUFFICES ASSUME NEW i \in DOMAIN runs', NEW o, o = runs'[i].owner, Running(i)', stage'[o] # "killed"
             PROVE  IsLast(i)' /\ AtWork(o)'
  BY DEF Owned, AtWork
<1>0. Types /\ runs \in Seq(Rows) /\ CoreInv
  BY DEF PromptInv, CoreInv, Types
<1>1. \A j \in DOMAIN runs : runs[j].owner \in Processes
  <2> SUFFICES ASSUME NEW j \in DOMAIN runs PROVE runs[j].owner \in Processes
    OBVIOUS
  <2>1. runs[j] \in Rows
    BY <1>0
  <2> QED BY <2>1 DEF Rows
(* A row that was there. *)
<1>2. ASSUME i \in DOMAIN runs, Running(i), runs[i].owner = o
      PROVE  /\ IsLast(i) /\ o \in Processes
             /\ AtWork(o) /\ (AtWork(o)' \/ \E t \in Threads : Finish(o, t))
  <2>1. o \in Processes
    BY <1>1, <1>2
  <2>2. stage[o] # "killed"
    BY <1>0, <2>1, StaysKilled
  <2>3. IsLast(i) /\ AtWork(o)
    BY <1>2, <2>2 DEF PromptInv, Owned
  <2>4. AtWork(o)' \/ \E t \in Threads : Finish(o, t)
    BY <2>1, <2>3, WorkGoesOn
  <2> QED BY <2>1, <2>3, <2>4
<1>3. CASE UNCHANGED runs /\ ~(\E p \in Processes, t \in Threads : Finish(p, t))
  <2>1. IsLast(i) /\ AtWork(o)'
    BY <1>2, <1>3 DEF Running
  <2> QED BY <1>3, <2>1 DEF IsLast
<1>4. runs' # Interrupted
  BY <1>0, InterruptedType DEF Running
<1>5. ASSUME NEW p \in Processes, NEW t \in Threads, Begin(p, t), Begins(p) PROVE IsLast(i)' /\ AtWork(o)'
  <2>1. thread[p][t] = To("begin", "inside") /\ Goes(p, t, To("spawn", "idle")) /\ t \in Threads
    BY <1>5 DEF Begins, Begin, Inside
  <2>2. thread[p][t].op = "begin" /\ To("spawn", "idle") \in Jobs /\ To("spawn", "idle").op = "spawn"
    BY <2>1, JobTypes DEF Imports
  <2>3. AtWork(p)'
    BY <1>0, <2>1, <2>2, ThreadMoves DEF AtWork
  <2>4. ~AtWork(p)
    BY <1>0, <2>2 DEF CoreInv, Roles, AtWork, Imports
  <2>5. /\ DOMAIN runs' = 1 .. Len(runs) + 1 /\ \A j \in DOMAIN runs : runs'[j] = runs[j]
        /\ DOMAIN runs = 1 .. Len(runs) /\ Len(runs) \in Nat
        /\ runs'[Len(runs) + 1] = [owner |-> p, state |-> "running"]
    BY <1>0, <1>5 DEF Begins
  <2>6. CASE i = Len(runs) + 1
    BY <2>3, <2>5, <2>6 DEF IsLast
  <2>7. CASE i \in DOMAIN runs
    <3>1. Running(i) /\ runs[i].owner = o
      BY <2>5, <2>7 DEF Running
    <3>2. IsLast(i) /\ AtWork(o) /\ o # p /\ o \in Processes
      BY <1>2, <2>4, <2>7, <3>1
    <3>3. \A u \in Threads : thread'[o][u] = thread[o][u]
      BY <1>0, <2>1, <2>2, <3>2, ThreadMoves
    <3>4. AtWork(o)'
      BY <3>2, <3>3 DEF AtWork
    <3>5. IsLast(i)'
      BY <2>5, <2>7, <3>2 DEF IsLast
    <3> QED BY <3>4, <3>5
  <2> QED BY <2>5, <2>6, <2>7
<1>6. ASSUME NEW p \in Processes, NEW t \in Threads, Finish(p, t), runs' = End(p) PROVE IsLast(i)' /\ AtWork(o)'
  <2>1. /\ DOMAIN runs' = DOMAIN runs
        /\ \A j \in DOMAIN runs : runs'[j] = IF j = LastOf(p) /\ Running(j)
                                             THEN [owner |-> runs[j].owner, state |-> "ended"] ELSE runs[j]
    BY <1>0, <1>6, EndType
  <2>2. Running(i) /\ runs'[i] = runs[i] /\ i # LastOf(p) /\ i \in DOMAIN runs
    BY <2>1 DEF Running
  <2>3. IsLast(i) /\ AtWork(o) /\ o \in Processes /\ runs[i].owner = o
    BY <1>2, <2>2
  <2>4. o # p
    <3> SUFFICES ASSUME o = p PROVE FALSE
      OBVIOUS
    <3>1. \A j \in DOMAIN runs : runs[j].owner = p => j <= i
      BY <2>3 DEF IsLast
    <3>2. \A k \in DOMAIN runs : (runs[k].owner = p /\ \A j \in DOMAIN runs : runs[j].owner = p => j <= k) => k = i
      <4>1. DOMAIN runs \subseteq Nat /\ runs[i].owner = p
        BY <1>0, <2>3
      <4> QED BY <2>2, <3>1, <4>1
    <3>3. LastOf(p) = i
      BY <2>2, <3>1, <3>2 DEF LastOf
    <3> QED BY <2>2, <3>3
  <2>5. Goes(p, t, Idle) /\ Idle \in Jobs
    BY <1>6, JobTypes DEF Finish
  <2>6. \A u \in Threads : thread'[o][u] = thread[o][u]
    BY <1>0, <2>3, <2>4, <2>5, ThreadMoves
  <2>7. AtWork(o)'
    BY <2>3, <2>6 DEF AtWork
  <2>8. IsLast(i)'
    BY <2>1, <2>2, <2>3 DEF IsLast
  <2> QED BY <2>7, <2>8
<1>7. \A p \in Processes, t \in Threads : Finish(p, t) => runs' = End(p)
  BY DEF Finish
<1> QED BY <1>3, <1>4, <1>5, <1>6, <1>7, RunsMoves DEF RunsMove, Begins

LEMMA PromptStep == ASSUME InstanceConstants, ~Late, PromptInv, [Next]_vars PROVE PromptInv'
<1>1. CoreInv'
  BY CoreStep DEF PromptInv
<1>2. \A q \in Processes : Guarded(q)'
  <2>1. CASE UNCHANGED vars
    BY <2>1 DEF vars, PromptInv, Guarded, Busy, Alive
  <2>2. ASSUME NEW p \in Processes, Main(p) \/ Exit(p) \/ Kill(p) PROVE \A q \in Processes : Guarded(q)'
    BY <2>2, MainGuards, GoneGuards
  <2>3. ASSUME NEW p \in Processes, NEW t \in Threads, Thread(p, t) \/ Spawn(p, t)
        PROVE  \A q \in Processes : Guarded(q)'
    BY <2>3, ThreadGuards
  <2> QED BY <2>1, <2>2, <2>3, Zenon DEF Next, Main, Thread
<1> QED BY <1>1, <1>2, OwnedStep DEF PromptInv

LEMMA PromptAlways == ASSUME InstanceConstants, ~Late PROVE Spec => []PromptInv
<1>1. Init => PromptInv
  BY PromptInit
<1>2. PromptInv /\ [Next]_vars => PromptInv'
  BY PromptStep
<1> QED BY <1>1, <1>2, PTL DEF Spec

(* When requests end in the time the server gives them, data_lock covers all
   use of the ledger, though it is closed twice and reopened on demand. *)
THEOREM LockCoversUse == ASSUME InstanceConstants, ~Late PROVE Spec => []LockCovers
<1>1. PromptInv => LockCovers
  BY DEF PromptInv, Guarded, LockCovers
<1> QED BY <1>1, PromptAlways, PTL

(* And what the repair at a launch interrupts is a run of a killed process: no
   shutdown cuts an import off, and no failure to reach the ledger loses one. *)
THEOREM OnlyDeathInterrupts == ASSUME InstanceConstants, ~Late PROVE Spec => [][OnlyKilledInterrupted]_vars
<1>1. PromptInv /\ [Next]_vars => [OnlyKilledInterrupted]_vars
  <2> SUFFICES ASSUME PromptInv, [Next]_vars, NEW i \in DOMAIN runs, Running(i), runs'[i].state = "interrupted"
               PROVE  stage[runs[i].owner] = "killed"
    BY DEF OnlyKilledInterrupted, Running
  <2>0. Types /\ runs \in Seq(Rows)
    BY DEF PromptInv, CoreInv, Types
  <2>1. runs[i].owner \in Processes
    <3>1. runs[i] \in Rows
      BY <2>0
    <3> QED BY <3>1 DEF Rows
  <2>2. \E p \in Processes : Launch(p)
    <3>1. ~UNCHANGED runs
      BY DEF Running
    <3>2. ASSUME NEW p \in Processes, Begins(p) PROVE FALSE
      <4>1. runs'[i] = runs[i]
        BY <2>0, <3>2 DEF Begins
      <4> QED BY <4>1 DEF Running
    <3>3. ASSUME NEW p \in Processes, runs' = End(p) PROVE FALSE
      <4>1. End(p)[i] = IF i = LastOf(p) /\ Running(i)
                        THEN [owner |-> runs[i].owner, state |-> "ended"] ELSE runs[i]
        BY <2>0, EndType
      <4>2. runs'[i].state \in {"ended", "running"}
        BY <3>3, <4>1 DEF Running
      <4> QED BY <4>2
    <3> QED BY <3>1, <3>2, <3>3, RunsMoves DEF RunsMove
  <2>3. PICK p \in Processes : Launch(p)
    BY <2>2
  <2>4. Busy(p) = {} /\ holder = p
    BY <2>3 DEF Launch, PromptInv, Guarded
  <2> SUFFICES ASSUME stage[runs[i].owner] # "killed" PROVE FALSE
    OBVIOUS
  <2>5. PICK t \in Threads : thread[runs[i].owner][t].op \in {"spawn", "batch", "finish"}
    BY DEF PromptInv, Owned, AtWork
  <2>6. t \in Busy(runs[i].owner)
    BY <2>5, JobTypes DEF Busy
  <2>7. holder = runs[i].owner
    BY <2>1, <2>6 DEF PromptInv, Guarded
  <2> QED BY <2>4, <2>6, <2>7
<1> QED BY <1>1, PromptAlways, PTL DEF Spec
=============================================================================
