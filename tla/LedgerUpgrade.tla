---------------------------- MODULE LedgerUpgrade ----------------------------
(* How a launch finds, upgrades and opens the ledger file: data_lock,
   Storage.__init__, migrate_sqlite and migrate_duckdb_v5, with processes that
   die and power that fails between any two file operations.

   The directory maps names to inodes: the backup is a hard link to the old
   ledger, the upgraded ledger a new inode moved over its name.  DuckDB is
   external: its commits are durable, in the write-ahead log beside the ledger
   until a checkpoint or a close moves them into the file; opening a ledger
   read-write replays its log.  Directory operations reach the disk in order,
   at an fsync of the directory or with the log of a later commit. *)
EXTENDS Integers, Sequences, FiniteSets

CONSTANTS Procs,        \* processes started on one data directory
          OldRows,      \* rows of the ledgers of earlier versions
          NewRows,      \* rows this version may commit
          MaxLaunches   \* bound: launches

ASSUME UpgradeConstants == /\ MaxLaunches \in Nat
                           /\ OldRows \cap NewRows = {}
                           /\ "free" \notin Procs

VARIABLES legacy,   \* rows of ledger.sqlite3, with an earlier version's schema; {} if there is none
          inode,    \* the files: schema, rows and whether the bytes are on the disk
          dir,      \* the data directory: ledger.duckdb and the backups by digest
          older,    \* directories a power failure may fall back to
          wal,      \* ledger.duckdb.wal: the inode it was written for and its rows
          holder,   \* who holds runtime.lock
          pc,       \* where each process is
          pending,  \* the copy each process prepares in its temporary directory
          launches, \* counter for the bound
          kept,     \* history: rows that were ever committed
          first,    \* history: the schema-5 ledger as its writer left it; NoLedger if none
          raised    \* history: a launch was refused by what it found in the directory

files == <<legacy, inode, dir, older, wal>>
history == <<kept, first, raised>>
vars == <<files, holder, pc, pending, launches, history>>

Free == "free"
NoFile == 0
Rows == OldRows \cup NewRows
Empty == 0                      \* schema of a file without tables
Torn == -1                      \* bytes that never reached the disk
NoWal == [inode |-> NoFile, rows |-> {}]
NoLedger == [schema |-> Empty, rows |-> {}]

Content(i) == [schema |-> inode[i].schema, rows |-> inode[i].rows]
Schema == inode[dir.ledger].schema

(* What earlier versions can have left behind: nothing, a SQLite ledger, a
   schema-5 ledger closed or not, next to the SQLite one it came from or not. *)
Init ==
  /\ \E l \in {{}, OldRows}, v5 \in BOOLEAN, left \in SUBSET OldRows :
       /\ v5 \/ left = {}
       /\ legacy = l
       /\ inode = IF v5 THEN <<[schema |-> 5, rows |-> OldRows \ left, synced |-> TRUE]>> ELSE <<>>
       /\ dir = [ledger |-> IF v5 THEN 1 ELSE NoFile, backups |-> {}]
       /\ wal = IF left = {} THEN NoWal ELSE [inode |-> 1, rows |-> left]
       /\ kept = IF v5 THEN OldRows ELSE l
       /\ first = IF v5 THEN [schema |-> 5, rows |-> OldRows] ELSE NoLedger
  /\ older = {}
  /\ holder = Free
  /\ pc = [p \in Procs |-> "off"]
  /\ pending = [p \in Procs |-> NoFile]
  /\ launches = 0
  /\ raised = FALSE

Step(p, from, to) == /\ pc[p] = from
                     /\ pc' = [pc EXCEPT ![p] = to]

(* The process ends, by an exception or not: flock and the temporary directory go. *)
Ends(p) == /\ pc' = [pc EXCEPT ![p] = "off"]
           /\ pending' = [pending EXCEPT ![p] = NoFile]
           /\ holder' = IF holder = p THEN Free ELSE holder
           /\ UNCHANGED <<launches, kept, first>>
Refused(p) == Ends(p) /\ raised' = TRUE /\ UNCHANGED files

(* Slip: no lock. *)
LaunchAnyway(p) == /\ Step(p, "off", "look")
                   /\ launches < MaxLaunches
                   /\ launches' = launches + 1
                   /\ UNCHANGED <<files, holder, pending, history>>

(* data_lock: a second process on the directory gives up at once. *)
Launch(p) == /\ Step(p, "off", "look")
             /\ launches < MaxLaunches
             /\ launches' = launches + 1
             /\ holder = Free
             /\ holder' = p
             /\ UNCHANGED <<files, pending, history>>

(* Storage.__init__. *)
Look(p) == /\ Step(p, "look", IF dir.ledger # NoFile THEN "version"
                              ELSE IF legacy # {} THEN "copy_legacy" ELSE "open")
           /\ UNCHANGED <<files, holder, pending, launches, history>>

(* DuckDB opens the ledger read-write: the log is replayed into the file it
   belongs to; a torn file or another file's log is an error. *)
Openable == Schema # Torn /\ wal.inode \in {NoFile, dir.ledger}
Replayed == /\ inode' = [inode EXCEPT ![dir.ledger].rows = @ \cup wal.rows]
            /\ wal' = NoWal

Version(p) ==
  /\ pc[p] = "version"
  /\ \/ /\ Openable
        /\ Step(p, "version", IF Schema = 5 THEN "copy_ledger" ELSE "open")
        /\ Replayed
        /\ UNCHANGED <<legacy, dir, older, holder, pending, launches, history>>
     \/ ~Openable /\ Refused(p)

(* The rows are copied into a new file and compared with the originals; any
   failure until then leaves the directory as it was. *)
Copied(p, rows) == /\ inode' = Append(inode, [schema |-> 6, rows |-> rows, synced |-> FALSE])
                   /\ pending' = [pending EXCEPT ![p] = Len(inode')]
                   /\ UNCHANGED <<legacy, dir, older, wal, holder, launches, history>>
CopyFails(p) == Ends(p) /\ UNCHANGED <<files, raised>>

(* Slip: the copy is made where nobody looks for it. *)
CopyLegacyAstray(p) == /\ Step(p, "copy_legacy", "sync_legacy")
                       /\ inode' = Append(inode, [schema |-> 6, rows |-> legacy, synced |-> FALSE])
                       /\ UNCHANGED <<legacy, dir, older, wal, holder, pending, launches, history>>

CopyLegacy(p) == \/ Step(p, "copy_legacy", "sync_legacy") /\ Copied(p, legacy)
                 \/ pc[p] = "copy_legacy" /\ CopyFails(p)

CopyLedger(p) == \/ Step(p, "copy_ledger", "sync_ledger") /\ Copied(p, inode[dir.ledger].rows)
                 \/ pc[p] = "copy_ledger" /\ CopyFails(p)

(* Slip: the bytes are left to the operating system. *)
SyncPendingLater(p) == /\ \/ Step(p, "sync_legacy", "publish")
                          \/ Step(p, "sync_ledger", "backup")
                       /\ UNCHANGED <<files, holder, pending, launches, history>>

SyncPending(p) == /\ \/ Step(p, "sync_legacy", "publish")
                     \/ Step(p, "sync_ledger", "backup")
                  /\ inode' = [inode EXCEPT ![pending[p]].synced = TRUE]
                  /\ UNCHANGED <<legacy, dir, older, wal, holder, pending, launches, history>>

Entered(d) == dir' = d /\ older' = older \cup {dir} /\ UNCHANGED <<legacy, inode, wal>>

(* migrate_sqlite links the copy to the ledger's name, which must be free. *)
Publish(p) ==
  /\ pc[p] = "publish"
  /\ \/ /\ dir.ledger = NoFile
        /\ Step(p, "publish", "sync_published")
        /\ Entered([dir EXCEPT !.ledger = pending[p]])
        /\ UNCHANGED <<holder, pending, launches, history>>
     \/ dir.ledger # NoFile /\ Refused(p)

(* migrate_duckdb_v5 links the old ledger to a name made of its digest. *)
Backup(p) ==
  /\ pc[p] = "backup"
  /\ LET digest == Content(dir.ledger)
         same == {b \in dir.backups : b.digest = digest}
     IN \/ /\ same = {}
           /\ Step(p, "backup", "replace")
           /\ Entered([dir EXCEPT !.backups = @ \cup {[digest |-> digest, inode |-> dir.ledger]}])
           /\ UNCHANGED <<holder, pending, launches, history>>
        \/ /\ same # {} /\ \A b \in same : Content(b.inode) = digest
           /\ Step(p, "backup", "replace")
           /\ UNCHANGED <<files, holder, pending, launches, history>>
        \/ (\E b \in same : Content(b.inode) # digest) /\ Refused(p)

(* Slip: the copy is written over the old ledger. *)
ReplaceInPlace(p) == /\ Step(p, "replace", "sync_replaced")
                     /\ inode' = [inode EXCEPT ![dir.ledger] = inode[pending[p]]]
                     /\ UNCHANGED <<legacy, dir, older, wal, holder, pending, launches, history>>

Replace(p) == /\ Step(p, "replace", "sync_replaced")
              /\ Entered([dir EXCEPT !.ledger = pending[p]])
              /\ UNCHANGED <<holder, pending, launches, history>>

SyncDirectory(p) == /\ \/ Step(p, "sync_published", "version")
                       \/ Step(p, "sync_replaced", "open")
                    /\ older' = {}
                    /\ pending' = [pending EXCEPT ![p] = NoFile]
                    /\ UNCHANGED <<legacy, inode, dir, wal, holder, launches, history>>

(* open_database creates the file when there is none. *)
Open(p) ==
  /\ pc[p] = "open"
  /\ \/ /\ dir.ledger = NoFile
        /\ Step(p, "open", "schema")
        /\ inode' = Append(inode, [schema |-> Empty, rows |-> {}, synced |-> TRUE])
        /\ dir' = [dir EXCEPT !.ledger = Len(inode')]
        /\ UNCHANGED <<legacy, older, wal, holder, pending, launches, history>>
     \/ /\ dir.ledger # NoFile
        /\ Openable
        /\ Step(p, "open", "schema")
        /\ Replayed
        /\ UNCHANGED <<legacy, dir, older, holder, pending, launches, history>>
     \/ /\ dir.ledger # NoFile
        /\ ~Openable
        /\ Refused(p)

CreateSchema(p) ==
  /\ pc[p] = "schema"
  /\ \/ /\ Schema \in {Empty, 6}
        /\ Step(p, "schema", "up")
        /\ inode' = [inode EXCEPT ![dir.ledger].schema = 6]
        /\ UNCHANGED <<legacy, dir, older, wal, holder, pending, launches, history>>
     \/ Schema \notin {Empty, 6} /\ Refused(p)

(* The application commits rows, DuckDB checkpoints, the application closes. *)
Write(p) == /\ pc[p] = "up"
            /\ \E r \in NewRows \ kept :
                 /\ wal' = [inode |-> dir.ledger, rows |-> wal.rows \cup {r}]
                 /\ kept' = kept \cup {r}
            /\ older' = {}
            /\ UNCHANGED <<legacy, inode, dir, holder, pc, pending, launches, first, raised>>

Checkpoint(p) == /\ pc[p] = "up"
                 /\ Replayed
                 /\ UNCHANGED <<legacy, dir, older, holder, pc, pending, launches, history>>

Close(p) == /\ pc[p] = "up"
            /\ Replayed
            /\ Ends(p)
            /\ UNCHANGED <<legacy, dir, older, raised>>

Crash(p) == /\ pc[p] # "off"
            /\ Ends(p)
            /\ UNCHANGED <<files, raised>>

(* Power fails: the directory falls back to a state it had since its last
   fsync; bytes that were not synced are gone. *)
PowerFailure ==
  /\ dir' \in older \cup {dir}
  /\ older' = {}
  /\ inode' = [i \in DOMAIN inode |->
                 IF inode[i].synced THEN inode[i] ELSE [inode[i] EXCEPT !.schema = Torn, !.rows = {}]]
  /\ holder' = Free
  /\ pc' = [p \in Procs |-> "off"]
  /\ pending' = [p \in Procs |-> NoFile]
  /\ UNCHANGED <<legacy, wal, launches, history>>

Proc(p) == \/ Launch(p) \/ Look(p) \/ Version(p) \/ CopyLegacy(p) \/ CopyLedger(p)
           \/ SyncPending(p) \/ Publish(p) \/ Backup(p) \/ Replace(p) \/ SyncDirectory(p)
           \/ Open(p) \/ CreateSchema(p) \/ Write(p) \/ Checkpoint(p) \/ Close(p) \/ Crash(p)

Next == PowerFailure \/ \E p \in Procs : Proc(p)

Spec == Init /\ [][Next]_vars

-----------------------------------------------------------------------------
(* Properties. *)

(* Every variable has its type, and whoever prepares a copy has one. *)
Schemas == {Torn, Empty, 5, 6}
Directories == [ledger : 0 .. Len(inode),
                backups : SUBSET [digest : [schema : Schemas, rows : SUBSET Rows], inode : DOMAIN inode]]
TypeOK == /\ legacy \subseteq OldRows
          /\ inode \in Seq([schema : Schemas, rows : SUBSET Rows, synced : BOOLEAN])
          /\ dir \in Directories
          /\ \A d \in older : d \in Directories
          /\ wal \in [inode : 0 .. Len(inode), rows : SUBSET Rows]
          /\ holder \in Procs \cup {Free}
          /\ pc \in [Procs -> {"off", "look", "version", "copy_legacy", "copy_ledger", "sync_legacy",
                               "sync_ledger", "publish", "backup", "replace", "sync_published",
                               "sync_replaced", "open", "schema", "up"}]
          /\ pending \in [Procs -> 0 .. Len(inode)]
          /\ \A p \in Procs : pc[p] \in {"sync_legacy", "sync_ledger", "publish", "backup", "replace"}
                                => pending[p] # NoFile
          /\ kept \subseteq Rows

(* No row that was ever committed is lost, whichever version committed it and
   wherever an upgrade died: the ledger shows it, or the SQLite ledger does
   while it is all there is. *)
Shown == IF dir.ledger = NoFile THEN legacy
         ELSE inode[dir.ledger].rows \cup (IF wal.inode = dir.ledger THEN wal.rows ELSE {})
Kept == kept \subseteq Shown

(* Nothing an interrupted upgrade leaves behind refuses a later launch: no
   half-written ledger, no name already taken, no log of another file. *)
NeverRefused == ~raised

(* Once the schema-5 ledger is replaced, it is still there under a backup
   name, with the content of its last writer. *)
BackedUp == first # NoLedger /\ dir.ledger # NoFile /\ Schema = 6
              => \E b \in dir.backups : b.digest = first /\ Content(b.inode) = first

(* However processes die and power fails while a ledger is upgraded: no row
   that was ever committed is lost, nothing that is left behind refuses a later
   launch, and the ledger that was replaced is still there under a backup name. *)
UpgradeSafe == Kept /\ NeverRefused /\ BackedUp
=============================================================================
