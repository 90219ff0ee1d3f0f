------------------------ MODULE LedgerUpgradeProofs ------------------------
(* Proofs about LedgerUpgrade for any number of processes, launches and rows. *)
EXTENDS LedgerUpgrade, TLAPS

-----------------------------------------------------------------------------
(* Files. *)

Inodes == [schema : Schemas, rows : SUBSET Rows, synced : BOOLEAN]

LEMMA ReplacedInode ==
  ASSUME NEW s \in Seq(Inodes), NEW i \in DOMAIN s, NEW r \in Inodes
  PROVE  /\ [s EXCEPT ![i] = r] \in Seq(Inodes)
         /\ Len([s EXCEPT ![i] = r]) = Len(s)
         /\ DOMAIN [s EXCEPT ![i] = r] = DOMAIN s
         /\ \A k \in DOMAIN s : [s EXCEPT ![i] = r][k] = IF k = i THEN r ELSE s[k]
OBVIOUS

LEMMA AppendedInode ==
  ASSUME NEW s \in Seq(Inodes), NEW r \in Inodes
  PROVE  /\ Append(s, r) \in Seq(Inodes)
         /\ Len(Append(s, r)) = Len(s) + 1
         /\ DOMAIN Append(s, r) = DOMAIN s \cup {Len(s) + 1}
         /\ \A k \in DOMAIN s : Append(s, r)[k] = s[k]
         /\ Append(s, r)[Len(s) + 1] = r
OBVIOUS

(* The fields of a file that replaces another. *)
LEMMA InodeFields ==
  ASSUME NEW r \in Inodes
  PROVE  /\ r = [schema |-> r.schema, rows |-> r.rows, synced |-> r.synced]
         /\ r.schema \in Schemas /\ r.rows \subseteq Rows /\ r.synced \in BOOLEAN
BY DEF Inodes

(* Files are only added, so a directory stays one. *)
LEMMA StaysDirectory ==
  ASSUME inode \in Seq(Inodes), inode' \in Seq(Inodes), Len(inode) <= Len(inode'),
         NEW d \in Directories
  PROVE  d \in Directories'
<1>1. 0 .. Len(inode) \subseteq 0 .. Len(inode') /\ DOMAIN inode \subseteq DOMAIN inode'
  OBVIOUS
<1> QED BY <1>1 DEF Directories

LEMMA DirectoryFields ==
  ASSUME inode \in Seq(Inodes), NEW d \in Directories
  PROVE  /\ d = [ledger |-> d.ledger, backups |-> d.backups]
         /\ d.ledger \in 0 .. Len(inode)
         /\ d.ledger # NoFile => d.ledger \in DOMAIN inode /\ inode[d.ledger] \in Inodes
         /\ \A b \in d.backups : /\ b.digest \in [schema : Schemas, rows : SUBSET Rows]
                                 /\ b.inode \in DOMAIN inode /\ inode[b.inode] \in Inodes
         /\ d.backups \subseteq [digest : [schema : Schemas, rows : SUBSET Rows], inode : DOMAIN inode]
<1>1. /\ d = [ledger |-> d.ledger, backups |-> d.backups] /\ d.ledger \in 0 .. Len(inode)
      /\ d.backups \subseteq [digest : [schema : Schemas, rows : SUBSET Rows], inode : DOMAIN inode]
  BY DEF Directories
<1>2. \A b \in d.backups : b.digest \in [schema : Schemas, rows : SUBSET Rows] /\ b.inode \in DOMAIN inode
  BY <1>1
<1>3. \A i \in DOMAIN inode : inode[i] \in Inodes
  OBVIOUS
<1>4. d.ledger # NoFile => d.ledger \in DOMAIN inode
  BY <1>1 DEF NoFile
<1> QED BY <1>1, <1>2, <1>3, <1>4

-----------------------------------------------------------------------------
(* The inductive invariant. *)

(* What the directory d shows, be it the one there is or one that a power
   failure may fall back to, and what makes it safe: its ledger and backups
   are on the disk, every committed row is shown, the log is its ledger's or
   nobody's, a schema-5 ledger is as its writer left it until it is among the
   backups, and backups are complete copies that the log does not reach. *)
ShownIn(d) == IF d.ledger = NoFile THEN legacy
              ELSE inode[d.ledger].rows \cup (IF wal.inode = d.ledger THEN wal.rows ELSE {})
IsBackedUp(d) == \E b \in d.backups : b.digest = first
Sound(d) ==
  /\ d.ledger # NoFile => inode[d.ledger].synced /\ inode[d.ledger].schema # Torn
  /\ kept \subseteq ShownIn(d)
  /\ wal.inode \in {NoFile, d.ledger}
  /\ first # NoLedger => /\ d.ledger # NoFile /\ inode[d.ledger].schema \in {5, 6}
                         /\ inode[d.ledger].schema = 5 => ShownIn(d) = first.rows
                         /\ inode[d.ledger].schema = 6 => IsBackedUp(d)
  /\ \A b \in d.backups : /\ inode[b.inode].synced /\ Content(b.inode) = b.digest
                          /\ b.digest.schema = 5 /\ b.inode # wal.inode

FilesSafe ==
  /\ \A d \in older \cup {dir} : Sound(d)
  /\ older # {} => wal = NoWal
  /\ wal.inode = NoFile => wal = NoWal
  /\ first # NoLedger => first = [schema |-> 5, rows |-> first.rows]

(* What a process that holds the lock has found and prepared. *)
IsCopy(p, rows) == pending[p] \in DOMAIN inode /\ inode[pending[p]].schema = 6 /\ inode[pending[p]].rows = rows
Prepared(p) ==
  /\ pc[p] # "off" => holder = p
  /\ pc[p] \in {"version", "copy_ledger", "sync_ledger", "backup", "replace", "sync_published",
                "sync_replaced", "schema", "up"} => dir.ledger # NoFile
  /\ pc[p] \in {"copy_legacy", "sync_legacy", "publish"} => dir.ledger = NoFile
  /\ pc[p] \in {"copy_ledger", "sync_ledger", "backup", "replace"} => Schema = 5 /\ wal = NoWal
  /\ pc[p] \in {"sync_legacy", "publish"} => IsCopy(p, legacy)
  /\ pc[p] \in {"sync_ledger", "backup", "replace"} => IsCopy(p, inode[dir.ledger].rows)
  /\ pc[p] \in {"publish", "backup", "replace"} => inode[pending[p]].synced
  /\ pc[p] = "replace" /\ first # NoLedger => IsBackedUp(dir)
  /\ pc[p] \in {"sync_replaced", "up"} => Schema = 6
  /\ pc[p] = "open" => IF dir.ledger = NoFile THEN legacy = {} ELSE Schema # 5
  /\ pc[p] = "schema" => Schema # 5

UpgradeInv == TypeOK /\ FilesSafe /\ (\A p \in Procs : Prepared(p)) /\ ~raised

LEMMA UpgradeInit == Init => UpgradeInv
<1> SUFFICES ASSUME Init PROVE UpgradeInv
  OBVIOUS
<1>1. PICK l \in {{}, OldRows}, v5 \in BOOLEAN, left \in SUBSET OldRows :
        /\ v5 \/ left = {}
        /\ legacy = l
        /\ inode = IF v5 THEN <<[schema |-> 5, rows |-> OldRows \ left, synced |-> TRUE]>> ELSE <<>>
        /\ dir = [ledger |-> IF v5 THEN 1 ELSE NoFile, backups |-> {}]
        /\ wal = IF left = {} THEN NoWal ELSE [inode |-> 1, rows |-> left]
        /\ kept = IF v5 THEN OldRows ELSE l
        /\ first = IF v5 THEN [schema |-> 5, rows |-> OldRows] ELSE NoLedger
  BY DEF Init
<1>2. /\ older = {} /\ holder = Free /\ pc = [p \in Procs |-> "off"] /\ pending = [p \in Procs |-> NoFile]
      /\ raised = FALSE
  BY DEF Init
<1> DEFINE old == [schema |-> 5, rows |-> OldRows \ left, synced |-> TRUE]
<1>3. old \in Inodes /\ old.schema = 5 /\ old.rows = OldRows \ left /\ old.synced
  BY DEF Inodes, Schemas, Rows
<1> HIDE DEF old
<1>4. inode \in Seq(Inodes) /\ (v5 => Len(inode) = 1 /\ DOMAIN inode = {1} /\ inode[1] = old)
  BY <1>1, <1>3 DEF old
<1>5. dir.ledger = (IF v5 THEN 1 ELSE NoFile) /\ dir.backups = {} /\ dir \in Directories
  BY <1>1, <1>4 DEF Directories, NoFile
<1>6. /\ wal \in [inode : 0 .. Len(inode), rows : SUBSET Rows] /\ wal.inode = (IF left = {} THEN NoFile ELSE 1)
      /\ wal.rows = left
  BY <1>1, <1>4 DEF NoWal, NoFile, Rows
<1>7. TypeOK
  BY <1>1, <1>2, <1>4, <1>5, <1>6 DEF TypeOK, Inodes, Rows, NoFile
<1>8. Sound(dir)
  BY <1>1, <1>3, <1>4, <1>5, <1>6 DEF Sound, ShownIn, NoFile, Torn, NoLedger
<1>9. FilesSafe
  BY <1>1, <1>2, <1>6, <1>8 DEF FilesSafe, NoFile, NoLedger
<1> QED BY <1>2, <1>7, <1>9 DEF UpgradeInv, Prepared

(* One process at a time is past data_lock. *)
LEMMA Alone ==
  ASSUME UpgradeInv, NEW p \in Procs, pc[p] # "off"
  PROVE  holder = p /\ \A q \in Procs \ {p} : pc[q] = "off"
BY DEF UpgradeInv, Prepared

(* A directory stays sound while files that are on the disk stay as they are. *)
LEMMA StaysSound ==
  ASSUME inode \in Seq(Inodes), NEW d \in Directories, Sound(d), UNCHANGED <<legacy, wal, kept, first>>,
         \A i \in DOMAIN inode : inode[i].synced => /\ inode'[i].synced /\ inode'[i].schema = inode[i].schema
                                                    /\ inode'[i].rows = inode[i].rows
  PROVE  Sound(d)' /\ (d.ledger # NoFile => inode'[d.ledger].schema = inode[d.ledger].schema
                                            /\ inode'[d.ledger].rows = inode[d.ledger].rows)
<1>1. /\ d.ledger # NoFile => d.ledger \in DOMAIN inode
      /\ \A b \in d.backups : b.inode \in DOMAIN inode
  BY DirectoryFields
<1>2. d.ledger # NoFile => /\ inode'[d.ledger].synced /\ inode'[d.ledger].schema = inode[d.ledger].schema
                           /\ inode'[d.ledger].rows = inode[d.ledger].rows
  BY <1>1 DEF Sound
<1>3. ShownIn(d)' = ShownIn(d)
  BY <1>2 DEF ShownIn
<1>4. \A b \in d.backups : inode'[b.inode].synced /\ Content(b.inode)' = Content(b.inode)
  BY <1>1 DEF Sound, Content
<1> QED BY <1>2, <1>3, <1>4 DEF Sound, IsBackedUp

(* Replaying the log moves rows, it adds none; the log of a ledger that any
   other directory may fall back from is empty. *)
LEMMA ReplaySafe ==
  ASSUME UpgradeInv, dir.ledger # NoFile, Replayed, UNCHANGED <<legacy, dir, older, kept, first>>
  PROVE  /\ inode' \in Seq(Inodes) /\ Len(inode') = Len(inode) /\ DOMAIN inode' = DOMAIN inode
         /\ wal' = NoWal /\ FilesSafe' /\ Schema' = Schema
         /\ wal' \in [inode : 0 .. Len(inode'), rows : SUBSET Rows]
         /\ \A d \in Directories : d \in Directories'
<1> DEFINE old == inode[dir.ledger]
           new == [old EXCEPT !.rows = @ \cup wal.rows]
<1>0. /\ inode \in Seq(Inodes) /\ dir \in Directories /\ (\A d \in older : d \in Directories)
      /\ wal \in [inode : 0 .. Len(inode), rows : SUBSET Rows] /\ FilesSafe
  BY DEF UpgradeInv, TypeOK, Inodes
<1>1. dir.ledger \in DOMAIN inode /\ old \in Inodes
  BY <1>0, DirectoryFields
<1>2. new \in Inodes /\ new.schema = old.schema /\ new.rows = old.rows \cup wal.rows /\ new.synced = old.synced
  BY <1>0, <1>1 DEF Inodes
<1>3. inode' = [inode EXCEPT ![dir.ledger] = new] /\ wal' = NoWal
  BY DEF Replayed
<1> HIDE DEF new
<1>4. /\ inode' \in Seq(Inodes) /\ Len(inode') = Len(inode) /\ DOMAIN inode' = DOMAIN inode
      /\ \A k \in DOMAIN inode : inode'[k] = IF k = dir.ledger THEN new ELSE inode[k]
  BY <1>0, <1>1, <1>2, <1>3, ReplacedInode
<1>5. /\ NoWal.inode = NoFile /\ NoWal.rows = {}
      /\ wal' \in [inode : 0 .. Len(inode'), rows : SUBSET Rows]
  BY <1>0, <1>3, <1>4 DEF NoWal, NoFile
<1>6. \A d \in Directories : d \in Directories'
  BY <1>0, <1>4, StaysDirectory
<1>7. Schema' = Schema
  BY <1>1, <1>2, <1>4 DEF Schema
<1>8. CASE wal = NoWal
  <2>1. \A i \in DOMAIN inode : inode[i].synced => /\ inode'[i].synced /\ inode'[i].schema = inode[i].schema
                                                   /\ inode'[i].rows = inode[i].rows
    BY <1>1, <1>2, <1>4, <1>5, <1>8
  <2>2. \A d \in older \cup {dir} : Sound(d)'
    BY <1>0, <1>3, <1>8, <2>1, StaysSound DEF FilesSafe
  <2> QED BY <1>0, <1>3, <1>4, <1>5, <1>6, <1>7, <2>2 DEF FilesSafe
<1>9. CASE wal # NoWal
  <2>1. older = {} /\ wal.inode = dir.ledger /\ Sound(dir)
    BY <1>0, <1>9 DEF FilesSafe, Sound
  <2>2. ShownIn(dir)' = ShownIn(dir)
    BY <1>1, <1>2, <1>3, <1>4, <1>5, <2>1 DEF ShownIn
  <2>3. \A b \in dir.backups : b.inode # dir.ledger /\ b.inode \in DOMAIN inode
    BY <1>0, <2>1, DirectoryFields DEF Sound
  <2>4. \A b \in dir.backups : inode'[b.inode] = inode[b.inode] /\ b.inode # NoFile
    BY <1>0, <1>4, <2>3 DEF NoFile
  <2>5. inode'[dir.ledger].synced = old.synced /\ inode'[dir.ledger].schema = old.schema /\ IsBackedUp(dir)' = IsBackedUp(dir)
    BY <1>1, <1>2, <1>4 DEF IsBackedUp
  <2>6. \A b \in dir.backups : /\ inode'[b.inode].synced /\ Content(b.inode)' = b.digest
                              /\ b.digest.schema = 5 /\ b.inode # wal'.inode
    BY <1>3, <1>5, <2>1, <2>4 DEF Sound, Content
  <2>7. Sound(dir)'
    BY <1>3, <1>5, <2>1, <2>2, <2>5, <2>6 DEF Sound
  <2> QED BY <1>0, <1>3, <1>4, <1>5, <1>6, <1>7, <2>1, <2>7 DEF FilesSafe
<1> QED BY <1>8, <1>9

-----------------------------------------------------------------------------
(* Steps. *)

Pcs == {"off", "look", "version", "copy_legacy", "copy_ledger", "sync_legacy", "sync_ledger", "publish",
        "backup", "replace", "sync_published", "sync_replaced", "open", "schema", "up"}
FileTypes ==
  /\ legacy \subseteq OldRows
  /\ inode \in Seq(Inodes)
  /\ dir \in Directories
  /\ \A d \in older : d \in Directories
  /\ wal \in [inode : 0 .. Len(inode), rows : SUBSET Rows]
  /\ kept \subseteq Rows
ProcTypes ==
  /\ holder \in Procs \cup {Free}
  /\ pc \in [Procs -> Pcs]
  /\ pending \in [Procs -> 0 .. Len(inode)]
  /\ \A p \in Procs : pc[p] \in {"sync_legacy", "sync_ledger", "publish", "backup", "replace"}
                        => pending[p] # NoFile

LEMMA TypeParts == TypeOK <=> FileTypes /\ ProcTypes
BY DEF TypeOK, FileTypes, ProcTypes, Inodes, Pcs

(* What is left to show of a step of the one process at work. *)
LEMMA MyStep ==
  ASSUME UpgradeInv, NEW p \in Procs, \A q \in Procs \ {p} : pc[q] = "off" /\ pc'[q] = "off",
         FileTypes', ProcTypes', FilesSafe', Prepared(p)', ~raised'
  PROVE  UpgradeInv'
<1>1. \A q \in Procs \ {p} : Prepared(q)'
  BY DEF Prepared
<1>2. TypeOK'
  BY TypeParts, PTL
<1> QED BY <1>1, <1>2 DEF UpgradeInv

LEMMA FilesStay ==
  ASSUME UpgradeInv, UNCHANGED <<files, kept, first>>
  PROVE  FileTypes' /\ FilesSafe' /\ Schema' = Schema
<1>1. FileTypes /\ FilesSafe
  BY TypeParts DEF UpgradeInv
<1>2. /\ legacy' = legacy /\ inode' = inode /\ dir' = dir /\ older' = older /\ wal' = wal /\ kept' = kept /\ first' = first
  BY DEF files
<1>3. FileTypes' /\ Schema' = Schema
  BY <1>1, <1>2 DEF FileTypes, Directories, Inodes, Schema
<1>4. FilesSafe'
  <2>1. \A d : Sound(d)' <=> Sound(d)
    BY <1>2 DEF Sound, ShownIn, IsBackedUp, Content
  <2> QED BY <1>1, <1>2, <2>1 DEF FilesSafe
<1> QED BY <1>3, <1>4

(* A process ends: others may launch. *)
LEMMA EndsSafe ==
  ASSUME UpgradeInv, NEW p \in Procs, pc[p] # "off", Ends(p), FileTypes', FilesSafe', Len(inode) <= Len(inode'), ~raised'
  PROVE  UpgradeInv'
<1>1. \A q \in Procs \ {p} : pc[q] = "off" /\ pc'[q] = "off"
  BY Alone DEF UpgradeInv, TypeOK, Ends
<1>2. ProcTypes /\ inode \in Seq(Inodes) /\ inode' \in Seq(Inodes)
  BY TypeParts DEF UpgradeInv, FileTypes
<1>3. ProcTypes' /\ pc'[p] = "off"
  <2>1. Len(inode) \in Nat /\ Len(inode') \in Nat
    BY <1>2
  <2> QED BY <1>2, <2>1 DEF ProcTypes, Ends, Pcs, NoFile
<1> QED BY <1>1, <1>3, MyStep DEF Prepared

LEMMA LaunchStep ==
  ASSUME UpgradeInv, NEW p \in Procs, Launch(p) \/ Look(p)
  PROVE  UpgradeInv'
<1>1. \A q \in Procs \ {p} : pc[q] = "off" /\ pc'[q] = "off"
  <2>1. CASE Launch(p)
    BY <2>1, UpgradeConstants DEF Launch, Step, UpgradeInv, Prepared, Free, TypeOK
  <2>2. CASE Look(p)
    BY <2>2, Alone DEF Look, Step, UpgradeInv, TypeOK
  <2> QED BY <2>1, <2>2
<1>2. UNCHANGED <<files, kept, first, raised, pending>>
  BY DEF Launch, Look, history
<1>3. FileTypes' /\ FilesSafe' /\ Schema' = Schema /\ UNCHANGED <<inode, dir, legacy>>
  BY <1>2, FilesStay DEF files
<1>4. ProcTypes
  BY TypeParts DEF UpgradeInv
<1>5. ProcTypes' /\ holder' = p /\ pc'[p] \in {"look", "version", "copy_legacy", "open"}
      /\ (pc'[p] = "version" => dir.ledger # NoFile)
      /\ (pc'[p] \in {"copy_legacy", "open"} => dir.ledger = NoFile)
      /\ (pc'[p] = "open" => legacy = {})
  <2>1. CASE Launch(p)
    BY <2>1, <1>3, <1>4 DEF Launch, Step, ProcTypes, Pcs
  <2>2. CASE Look(p)
    BY <2>2, <1>3, <1>4, Alone DEF Look, Step, ProcTypes, Pcs
  <2> QED BY <2>1, <2>2
<1>6. Prepared(p)'
  BY <1>3, <1>5 DEF Prepared
<1>7. ~raised'
  BY <1>2 DEF UpgradeInv
<1> QED BY <1>1, <1>3, <1>5, <1>6, <1>7, MyStep

(* The ledger can always be opened. *)
LEMMA AlwaysOpenable ==
  ASSUME UpgradeInv, dir.ledger # NoFile
  PROVE  Openable
BY DEF UpgradeInv, FilesSafe, Sound, Openable, Schema

LEMMA VersionStep ==
  ASSUME UpgradeInv, NEW p \in Procs, Version(p)
  PROVE  UpgradeInv'
<1>1. pc[p] = "version" /\ dir.ledger # NoFile
  BY DEF Version, UpgradeInv, Prepared
<1>2. /\ Step(p, "version", IF Schema = 5 THEN "copy_ledger" ELSE "open") /\ Replayed
      /\ UNCHANGED <<legacy, dir, older, holder, pending, launches, history>>
  BY <1>1, AlwaysOpenable DEF Version
<1>3. /\ inode' \in Seq(Inodes) /\ Len(inode') = Len(inode)
      /\ wal' = NoWal /\ FilesSafe' /\ Schema' = Schema
      /\ wal' \in [inode : 0 .. Len(inode'), rows : SUBSET Rows]
      /\ \A d \in Directories : d \in Directories'
  BY <1>1, <1>2, ReplaySafe DEF history
<1>4. FileTypes /\ ProcTypes
  BY TypeParts DEF UpgradeInv
<1>5. FileTypes' /\ ProcTypes'
  BY <1>2, <1>3, <1>4 DEF FileTypes, ProcTypes, Step, Pcs, history
<1>6. \A q \in Procs \ {p} : pc[q] = "off" /\ pc'[q] = "off"
  BY <1>1, <1>2, <1>4, Alone DEF Step, ProcTypes
<1>7. Prepared(p)'
  <2>1. holder' = p /\ pc'[p] = IF Schema = 5 THEN "copy_ledger" ELSE "open"
    BY <1>1, <1>2, <1>4, Alone DEF Step, ProcTypes
  <2> QED BY <1>1, <1>2, <1>3, <2>1 DEF Prepared
<1>8. ~raised'
  BY <1>2 DEF UpgradeInv, history
<1> QED BY <1>3, <1>5, <1>6, <1>7, <1>8, MyStep

LEMMA CopyStep ==
  ASSUME UpgradeInv, NEW p \in Procs, CopyLegacy(p) \/ CopyLedger(p)
  PROVE  UpgradeInv'
<1>1. pc[p] \in {"copy_legacy", "copy_ledger"}
  BY DEF CopyLegacy, CopyLedger, Step
<1>0. FileTypes /\ ProcTypes /\ FilesSafe /\ Prepared(p) /\ ~raised
  BY TypeParts DEF UpgradeInv
<1>2. CASE CopyFails(p)
  <2>1. FileTypes' /\ FilesSafe' /\ UNCHANGED <<inode, raised>>
    BY <1>2, FilesStay DEF CopyFails, Ends, files
  <2> QED BY <1>0, <1>1, <1>2, <2>1, EndsSafe DEF CopyFails, FileTypes
<1>3. ASSUME NEW rows, NEW from, NEW to, Step(p, from, to), Copied(p, rows),
             \/ /\ from = "copy_legacy" /\ to = "sync_legacy" /\ rows = legacy
             \/ /\ from = "copy_ledger" /\ to = "sync_ledger" /\ rows = inode[dir.ledger].rows
      PROVE  UpgradeInv'
  <2> DEFINE new == [schema |-> 6, rows |-> rows, synced |-> FALSE]
             n == Len(inode) + 1
  <2>1. rows \subseteq Rows
    BY <1>0, <1>3, <1>1, DirectoryFields, InodeFields DEF FileTypes, Rows, Step, Prepared
  <2>2. new \in Inodes /\ new.schema = 6 /\ new.rows = rows
    BY <2>1 DEF Inodes, Schemas
  <2>3. /\ inode' = Append(inode, new) /\ pending' = [pending EXCEPT ![p] = Len(inode')]
        /\ UNCHANGED <<legacy, dir, older, wal, holder, launches, history>>
    BY <1>3 DEF Copied
  <2> HIDE DEF new
  <2>4. /\ inode' \in Seq(Inodes) /\ Len(inode') = n /\ DOMAIN inode' = DOMAIN inode \cup {n}
        /\ \A k \in DOMAIN inode : inode'[k] = inode[k]
        /\ inode'[n] = new /\ Len(inode) \in Nat
    BY <1>0, <2>2, <2>3, AppendedInode DEF FileTypes
  <2>5. \A d \in Directories : d \in Directories'
    BY <1>0, <2>4, StaysDirectory DEF FileTypes
  <2>6. FileTypes'
    BY <1>0, <2>3, <2>4, <2>5 DEF FileTypes, history
  <2>7. \A d \in older \cup {dir} : Sound(d)'
    BY <1>0, <2>3, <2>4, StaysSound DEF FilesSafe, FileTypes, history
  <2>8. FilesSafe'
    BY <1>0, <2>3, <2>7 DEF FilesSafe, history
  <2>9. /\ pc' = [pc EXCEPT ![p] = to] /\ pc[p] = from /\ pc'[p] = to
        /\ pending'[p] = n
    BY <1>0, <1>3, <2>3, <2>4 DEF Step, ProcTypes
  <2>10. ProcTypes'
    BY <1>0, <1>3, <2>3, <2>4, <2>9 DEF ProcTypes, Pcs, NoFile
  <2>11. \A q \in Procs \ {p} : pc[q] = "off" /\ pc'[q] = "off"
    BY <1>0, <1>1, <2>9, Alone DEF ProcTypes
  <2>12. Prepared(p)'
    <3>1. dir.ledger # NoFile => inode'[dir.ledger] = inode[dir.ledger]
      BY <1>0, <2>4, DirectoryFields DEF FileTypes
    <3>2. holder' = p
      BY <1>1, <2>3, Alone
    <3>3. inode'[n].schema = 6 /\ inode'[n].rows = rows /\ n \in DOMAIN inode'
      BY <2>2, <2>4
    <3> QED BY <1>0, <1>3, <2>3, <2>9, <3>1, <3>2, <3>3 DEF Prepared, IsCopy, Schema
  <2>13. ~raised'
    BY <1>0, <2>3 DEF history
  <2> QED BY <2>6, <2>8, <2>10, <2>11, <2>12, <2>13, MyStep
<1> QED BY <1>2, <1>3 DEF CopyLegacy, CopyLedger

LEMMA SyncStep ==
  ASSUME UpgradeInv, NEW p \in Procs, SyncPending(p)
  PROVE  UpgradeInv'
<1>0. FileTypes /\ ProcTypes /\ FilesSafe /\ Prepared(p) /\ ~raised
  BY TypeParts DEF UpgradeInv
<1> DEFINE i == pending[p]
           old == inode[i]
           new == [old EXCEPT !.synced = TRUE]
<1>1. /\ \/ pc[p] = "sync_legacy" /\ pc' = [pc EXCEPT ![p] = "publish"]
         \/ pc[p] = "sync_ledger" /\ pc' = [pc EXCEPT ![p] = "backup"]
      /\ inode' = [inode EXCEPT ![i] = new]
      /\ UNCHANGED <<legacy, dir, older, wal, holder, pending, launches, history>>
  BY DEF SyncPending, Step
<1>2. i \in DOMAIN inode /\ old \in Inodes
  BY <1>0, <1>1 DEF Prepared, IsCopy, FileTypes
<1>3. new \in Inodes /\ new.schema = old.schema /\ new.rows = old.rows /\ new.synced = TRUE
  BY <1>2 DEF Inodes
<1> HIDE DEF new
<1>4. /\ inode' \in Seq(Inodes) /\ Len(inode') = Len(inode) /\ DOMAIN inode' = DOMAIN inode
      /\ \A k \in DOMAIN inode : inode'[k] = IF k = i THEN new ELSE inode[k]
  BY <1>0, <1>1, <1>2, <1>3, ReplacedInode DEF FileTypes
<1>5. \A k \in DOMAIN inode : /\ inode'[k].schema = inode[k].schema /\ inode'[k].rows = inode[k].rows
                              /\ inode[k].synced => inode'[k].synced
  BY <1>3, <1>4
<1>6. \A d \in Directories : d \in Directories'
  BY <1>0, <1>4, StaysDirectory DEF FileTypes
<1>7. FileTypes' /\ ProcTypes'
  BY <1>0, <1>1, <1>4, <1>6 DEF FileTypes, ProcTypes, Pcs, history
<1>8. \A d \in older \cup {dir} : Sound(d)'
  BY <1>0, <1>1, <1>5, StaysSound DEF FilesSafe, FileTypes, history
<1>9. FilesSafe' /\ ~raised'
  BY <1>0, <1>1, <1>8 DEF FilesSafe, history
<1>10. \A q \in Procs \ {p} : pc[q] = "off" /\ pc'[q] = "off"
  BY <1>0, <1>1, Alone DEF ProcTypes
<1>11. Prepared(p)'
  <2>1. holder' = p
    BY <1>1, Alone
  <2>2. pc'[p] = IF pc[p] = "sync_legacy" THEN "publish" ELSE "backup"
    BY <1>0, <1>1 DEF ProcTypes
  <2>3. dir.ledger # NoFile => dir.ledger \in DOMAIN inode
    BY <1>0, DirectoryFields DEF FileTypes
  <2>4. inode'[i].synced /\ i \in DOMAIN inode'
    BY <1>2, <1>3, <1>4
  <2> QED BY <1>0, <1>1, <1>2, <1>5, <2>1, <2>2, <2>3, <2>4 DEF Prepared, IsCopy, Schema
<1> QED BY <1>7, <1>9, <1>10, <1>11, MyStep

(* The directory changes and every file stays. *)
LEMMA EnteredSafe ==
  ASSUME UpgradeInv, NEW d \in Directories, Sound(d), Entered(d), wal = NoWal, UNCHANGED <<kept, first>>
  PROVE  FileTypes' /\ FilesSafe' /\ UNCHANGED inode
<1>0. FileTypes /\ FilesSafe
  BY TypeParts DEF UpgradeInv
<1>1. dir' = d /\ older' = older \cup {dir} /\ UNCHANGED <<legacy, inode, wal, kept, first>>
  BY DEF Entered
<1>2. \A e \in Directories : e \in Directories' /\ (Sound(e) => Sound(e)')
  BY <1>1 DEF Directories, Sound, ShownIn, IsBackedUp, Content
<1>3. FileTypes'
  BY <1>0, <1>1, <1>2 DEF FileTypes
<1>4. \A e \in older' \cup {dir'} : Sound(e)'
  BY <1>0, <1>1, <1>2 DEF FileTypes, FilesSafe
<1> QED BY <1>0, <1>1, <1>3, <1>4 DEF FilesSafe

(* The log is empty while a ledger is exchanged. *)
LEMMA NoLog ==
  ASSUME UpgradeInv, dir.ledger = NoFile
  PROVE  wal = NoWal /\ first = NoLedger /\ kept \subseteq legacy
BY DEF UpgradeInv, FilesSafe, Sound, ShownIn

LEMMA PublishStep ==
  ASSUME UpgradeInv, NEW p \in Procs, Publish(p)
  PROVE  UpgradeInv'
<1> DEFINE new == [dir EXCEPT !.ledger = pending[p]]
<1>0. FileTypes /\ ProcTypes /\ FilesSafe /\ Prepared(p) /\ ~raised
  BY TypeParts DEF UpgradeInv
<1>1. /\ pc[p] = "publish" /\ dir.ledger = NoFile
      /\ pc' = [pc EXCEPT ![p] = "sync_published"] /\ Entered(new)
      /\ UNCHANGED <<holder, pending, launches, history>>
  BY <1>0 DEF Publish, Step, Prepared
<1>2. /\ pending[p] \in DOMAIN inode /\ inode[pending[p]].schema = 6 /\ inode[pending[p]].rows = legacy
      /\ inode[pending[p]].synced
  BY <1>0, <1>1 DEF Prepared, IsCopy
<1>3. wal = NoWal /\ first = NoLedger /\ kept \subseteq legacy
  BY <1>1, NoLog
<1>4. new \in Directories /\ new.ledger = pending[p] /\ new.backups = dir.backups /\ pending[p] # NoFile
  BY <1>0, <1>2 DEF FileTypes, Directories, NoFile
<1> HIDE DEF new
<1>5. Sound(dir)
  BY <1>0 DEF FilesSafe
<1>6. Sound(new)
  BY <1>2, <1>3, <1>4, <1>5 DEF Sound, ShownIn, NoWal, Torn
<1>7. FileTypes' /\ FilesSafe' /\ UNCHANGED inode
  BY <1>1, <1>3, <1>4, <1>6, EnteredSafe DEF history
<1>8. ProcTypes'
  BY <1>0, <1>1, <1>7 DEF ProcTypes, Pcs
<1>9. \A q \in Procs \ {p} : pc[q] = "off" /\ pc'[q] = "off"
  BY <1>0, <1>1, Alone DEF ProcTypes
<1>10. Prepared(p)'
  <2>1. holder' = p /\ pc'[p] = "sync_published" /\ dir' = new
    BY <1>0, <1>1, Alone DEF ProcTypes, Entered
  <2> QED BY <1>4, <2>1 DEF Prepared
<1>11. ~raised'
  BY <1>0, <1>1 DEF history
<1> QED BY <1>7, <1>8, <1>9, <1>10, <1>11, MyStep

LEMMA BackupStep ==
  ASSUME UpgradeInv, NEW p \in Procs, Backup(p)
  PROVE  UpgradeInv'
<1> DEFINE digest == Content(dir.ledger)
           backup == [digest |-> digest, inode |-> dir.ledger]
           new == [dir EXCEPT !.backups = @ \cup {backup}]
           same == {b \in dir.backups : b.digest = digest}
<1>0. FileTypes /\ ProcTypes /\ FilesSafe /\ Prepared(p) /\ ~raised
  BY TypeParts DEF UpgradeInv
<1>1. pc[p] = "backup" /\ dir.ledger # NoFile /\ Schema = 5 /\ wal = NoWal /\ Sound(dir)
  BY <1>0 DEF Backup, Prepared, FilesSafe
<1>2. /\ dir.ledger \in DOMAIN inode /\ inode[dir.ledger] \in Inodes
      /\ dir = [ledger |-> dir.ledger, backups |-> dir.backups]
      /\ dir.backups \subseteq [digest : [schema : Schemas, rows : SUBSET Rows], inode : DOMAIN inode]
  BY <1>0, <1>1, DirectoryFields DEF FileTypes
<1>3. digest = [schema |-> 5, rows |-> inode[dir.ledger].rows] /\ digest.schema = 5
      /\ digest \in [schema : Schemas, rows : SUBSET Rows]
  BY <1>1, <1>2 DEF Content, Schema, Inodes
<1>4. first # NoLedger => digest = first
  <2>1. ShownIn(dir) = inode[dir.ledger].rows
    BY <1>1 DEF ShownIn, NoWal
  <2>2. first # NoLedger => first = [schema |-> 5, rows |-> first.rows] /\ ShownIn(dir) = first.rows
    BY <1>0, <1>1 DEF FilesSafe, Sound, Schema
  <2> QED BY <1>3, <2>1, <2>2
<1>5. \A b \in same : Content(b.inode) = digest
  BY <1>1 DEF Sound
<1>6. /\ pc' = [pc EXCEPT ![p] = "replace"] /\ UNCHANGED <<holder, pending, launches, history>>
      /\ \/ same = {} /\ Entered(new)
         \/ same # {} /\ UNCHANGED files
  BY <1>5 DEF Backup, Step
<1>7. FileTypes' /\ FilesSafe' /\ UNCHANGED <<inode, legacy, wal>> /\ dir'.ledger = dir.ledger
      /\ (first # NoLedger => IsBackedUp(dir)')
  <2>1. CASE same # {} /\ UNCHANGED files
    <3>1. FileTypes' /\ FilesSafe' /\ UNCHANGED <<inode, legacy, wal, dir, first>>
      BY <1>6, <2>1, FilesStay DEF files, history
    <3>2. first # NoLedger => IsBackedUp(dir)
      BY <1>4, <2>1 DEF IsBackedUp
    <3> QED BY <3>1, <3>2 DEF IsBackedUp
  <2>2. CASE same = {} /\ Entered(new)
    <3>1. /\ new.ledger = dir.ledger /\ new.backups = dir.backups \cup {backup}
      BY <1>2
    <3>2. backup \in [digest : [schema : Schemas, rows : SUBSET Rows], inode : DOMAIN inode]
          /\ backup.digest = digest /\ backup.inode = dir.ledger
      BY <1>2, <1>3
    <3>3. new \in Directories
      BY <1>0, <1>2, <3>1, <3>2 DEF Directories, FileTypes
    <3> HIDE DEF new, backup, digest
    <3>4. ShownIn(new) = ShownIn(dir)
      BY <3>1 DEF ShownIn
    <3>5. \A b \in new.backups : /\ inode[b.inode].synced /\ Content(b.inode) = b.digest
                                 /\ b.digest.schema = 5 /\ b.inode # wal.inode
      <4>1. wal.inode = NoFile
        BY <1>1 DEF NoWal
      <4> QED BY <1>1, <1>3, <3>1, <3>2, <4>1 DEF Sound, digest
    <3>6. Sound(new)
      BY <1>1, <3>1, <3>4, <3>5 DEF Sound, IsBackedUp
    <3>7. FileTypes' /\ FilesSafe' /\ UNCHANGED inode
      BY <1>1, <1>6, <2>2, <3>3, <3>6, EnteredSafe DEF history
    <3>8. dir' = new /\ UNCHANGED <<legacy, wal, first>>
      BY <1>6, <2>2 DEF Entered, history
    <3>9. first # NoLedger => IsBackedUp(dir)'
      BY <1>4, <3>1, <3>2, <3>8 DEF IsBackedUp
    <3> QED BY <3>1, <3>7, <3>8, <3>9
  <2> QED BY <1>6, <2>1, <2>2
<1> HIDE DEF digest, backup, new, same
<1>8. ProcTypes'
  <2>1. pc' = [pc EXCEPT ![p] = "replace"] /\ UNCHANGED <<holder, pending, inode>>
    BY <1>6, <1>7
  <2> QED BY <1>0, <1>1, <2>1 DEF ProcTypes, Pcs
<1>9. \A q \in Procs \ {p} : pc[q] = "off" /\ pc'[q] = "off"
  BY <1>0, <1>1, <1>6, Alone DEF ProcTypes
<1>10. Prepared(p)'
  <2>1. holder' = p /\ pc'[p] = "replace" /\ UNCHANGED <<pending, first>>
    BY <1>0, <1>1, <1>6, Alone DEF ProcTypes, history
  <2> QED BY <1>0, <1>1, <1>7, <2>1 DEF Prepared, IsCopy, Schema
<1>11. ~raised'
  BY <1>0, <1>6 DEF history
<1> QED BY <1>7, <1>8, <1>9, <1>10, <1>11, MyStep

LEMMA ReplaceStep ==
  ASSUME UpgradeInv, NEW p \in Procs, Replace(p)
  PROVE  UpgradeInv'
<1> DEFINE new == [dir EXCEPT !.ledger = pending[p]]
<1>0. FileTypes /\ ProcTypes /\ FilesSafe /\ Prepared(p) /\ ~raised
  BY TypeParts DEF UpgradeInv
<1>1. /\ pc[p] = "replace"
      /\ pc' = [pc EXCEPT ![p] = "sync_replaced"] /\ Entered(new)
      /\ UNCHANGED <<holder, pending, launches, history>>
  BY DEF Replace, Step
<1>2. /\ pending[p] \in DOMAIN inode /\ inode[pending[p]].schema = 6
      /\ inode[pending[p]].rows = inode[dir.ledger].rows
      /\ inode[pending[p]].synced /\ wal = NoWal /\ dir.ledger # NoFile /\ Sound(dir)
      /\ first # NoLedger => IsBackedUp(dir)
  BY <1>0, <1>1 DEF Prepared, IsCopy, FilesSafe
<1>3. new \in Directories /\ new.ledger = pending[p] /\ new.backups = dir.backups /\ pending[p] # NoFile
  BY <1>0, <1>2 DEF FileTypes, Directories, NoFile
<1> HIDE DEF new
<1>4. ShownIn(new) = ShownIn(dir)
  BY <1>2, <1>3 DEF ShownIn, NoWal
<1>5. Sound(new)
  BY <1>2, <1>3, <1>4 DEF Sound, NoWal, Torn, IsBackedUp
<1>6. FileTypes' /\ FilesSafe' /\ UNCHANGED inode
  BY <1>1, <1>2, <1>3, <1>5, EnteredSafe DEF history
<1>7. ProcTypes'
  BY <1>0, <1>1, <1>6 DEF ProcTypes, Pcs
<1>8. \A q \in Procs \ {p} : pc[q] = "off" /\ pc'[q] = "off"
  BY <1>0, <1>1, Alone DEF ProcTypes
<1>9. Prepared(p)'
  <2>1. holder' = p /\ pc'[p] = "sync_replaced" /\ dir' = new
    BY <1>0, <1>1, Alone DEF ProcTypes, Entered
  <2> QED BY <1>2, <1>3, <1>6, <2>1 DEF Prepared, Schema
<1>10. ~raised'
  BY <1>0, <1>1 DEF history
<1> QED BY <1>6, <1>7, <1>8, <1>9, <1>10, MyStep

LEMMA SyncDirectoryStep ==
  ASSUME UpgradeInv, NEW p \in Procs, SyncDirectory(p)
  PROVE  UpgradeInv'
<1>0. FileTypes /\ ProcTypes /\ FilesSafe /\ Prepared(p) /\ ~raised
  BY TypeParts DEF UpgradeInv
<1>1. /\ \/ pc[p] = "sync_published" /\ pc' = [pc EXCEPT ![p] = "version"]
         \/ pc[p] = "sync_replaced" /\ pc' = [pc EXCEPT ![p] = "open"]
      /\ older' = {} /\ pending' = [pending EXCEPT ![p] = NoFile]
      /\ UNCHANGED <<legacy, inode, dir, wal, holder, launches, kept, first, raised>>
  BY DEF SyncDirectory, Step, history
<1>2. FileTypes' /\ FilesSafe' /\ Len(inode) \in Nat
  <2>1. FileTypes' /\ inode \in Seq(Inodes)
    BY <1>0, <1>1 DEF FileTypes, Directories
  <2>2. Sound(dir)'
    BY <1>0, <1>1 DEF FilesSafe, Sound, ShownIn, IsBackedUp, Content
  <2>3. FilesSafe'
    BY <1>0, <1>1, <2>2 DEF FilesSafe
  <2> QED BY <2>1, <2>3
<1>3. ProcTypes'
  <2>1. pending' \in [Procs -> 0 .. Len(inode)']
    BY <1>0, <1>1, <1>2 DEF ProcTypes, NoFile
  <2>2. pc' \in [Procs -> Pcs] /\ holder' \in Procs \cup {Free}
    BY <1>0, <1>1 DEF ProcTypes, Pcs
  <2> QED BY <1>0, <1>1, <2>1, <2>2 DEF ProcTypes
<1>4. \A q \in Procs \ {p} : pc[q] = "off" /\ pc'[q] = "off"
  BY <1>0, <1>1, Alone DEF ProcTypes
<1>5. Prepared(p)'
  <2>1. holder' = p /\ pc'[p] = IF pc[p] = "sync_published" THEN "version" ELSE "open"
    BY <1>0, <1>1, Alone DEF ProcTypes
  <2> QED BY <1>0, <1>1, <2>1 DEF Prepared, Schema
<1> QED BY <1>0, <1>1, <1>2, <1>3, <1>4, <1>5, MyStep

LEMMA OpenStep ==
  ASSUME UpgradeInv, NEW p \in Procs, Open(p)
  PROVE  UpgradeInv'
<1>0. FileTypes /\ ProcTypes /\ FilesSafe /\ Prepared(p) /\ ~raised
  BY TypeParts DEF UpgradeInv
<1>1. /\ pc[p] = "open" /\ pc' = [pc EXCEPT ![p] = "schema"]
      /\ UNCHANGED <<legacy, older, holder, pending, launches, kept, first, raised>>
      /\ \/ dir.ledger # NoFile /\ Replayed /\ UNCHANGED dir
         \/ /\ dir.ledger = NoFile
            /\ inode' = Append(inode, [schema |-> Empty, rows |-> {}, synced |-> TRUE])
            /\ dir' = [dir EXCEPT !.ledger = Len(inode')]
            /\ UNCHANGED wal
  BY AlwaysOpenable DEF Open, Step, history
<1>2. \A q \in Procs \ {p} : pc[q] = "off" /\ pc'[q] = "off"
  BY <1>0, <1>1, Alone DEF ProcTypes
<1>3. holder' = p /\ pc'[p] = "schema"
  BY <1>0, <1>1, Alone DEF ProcTypes
<1>4. CASE dir.ledger # NoFile
  <2>1. Replayed /\ UNCHANGED dir
    BY <1>1, <1>4
  <2>2. /\ inode' \in Seq(Inodes) /\ Len(inode') = Len(inode) /\ FilesSafe' /\ Schema' = Schema
        /\ wal' \in [inode : 0 .. Len(inode'), rows : SUBSET Rows]
        /\ \A d \in Directories : d \in Directories'
    BY <1>1, <1>4, <2>1, ReplaySafe
  <2>3. FileTypes' /\ ProcTypes'
    BY <1>0, <1>1, <2>1, <2>2 DEF FileTypes, ProcTypes, Pcs
  <2>4. Prepared(p)'
    BY <1>0, <1>1, <1>3, <1>4, <2>1, <2>2 DEF Prepared
  <2> QED BY <1>0, <1>1, <1>2, <2>2, <2>3, <2>4, MyStep
<1>5. CASE dir.ledger = NoFile
  <2> DEFINE new == [schema |-> Empty, rows |-> {}, synced |-> TRUE]
             n == Len(inode) + 1
  <2>1. new \in Inodes /\ new.schema = Empty /\ new.rows = {} /\ new.synced
    BY DEF Inodes, Schemas
  <2>2. inode' = Append(inode, new) /\ dir' = [dir EXCEPT !.ledger = Len(inode')] /\ UNCHANGED wal
    BY <1>1, <1>5
  <2> HIDE DEF new
  <2>3. /\ inode' \in Seq(Inodes) /\ Len(inode') = n /\ DOMAIN inode' = DOMAIN inode \cup {n}
        /\ \A k \in DOMAIN inode : inode'[k] = inode[k]
        /\ inode'[n] = new /\ n \in DOMAIN inode' /\ n # NoFile /\ Len(inode) \in Nat
    BY <1>0, <2>1, <2>2, AppendedInode DEF FileTypes, NoFile
  <2>4. \A d \in Directories : d \in Directories'
    BY <1>0, <2>3, StaysDirectory DEF FileTypes
  <2>5. \A d \in older \cup {dir} : Sound(d)'
    BY <1>0, <1>1, <2>2, <2>3, StaysSound DEF FilesSafe, FileTypes
  <2>6. wal = NoWal /\ first = NoLedger /\ kept = {}
    BY <1>0, <1>1, <1>5, NoLog DEF Prepared
  <2>7. dir' = [ledger |-> n, backups |-> dir.backups] /\ dir' \in Directories'
    <3>1. dir \in Directories' /\ dir = [ledger |-> dir.ledger, backups |-> dir.backups]
      BY <1>0, <2>4, DirectoryFields DEF FileTypes
    <3> QED BY <2>2, <2>3, <3>1 DEF Directories
  <2>8. Sound(dir)'
    <3>1. \A b \in dir.backups : /\ inode'[b.inode].synced /\ Content(b.inode)' = b.digest
                                 /\ b.digest.schema = 5 /\ b.inode # wal'.inode
      BY <2>5 DEF Sound
    <3>2. dir'.ledger = n /\ dir'.backups = dir.backups /\ wal' = NoWal /\ first' = NoLedger /\ kept' = {}
      BY <1>1, <2>2, <2>6, <2>7
    <3> QED BY <2>1, <2>3, <3>1, <3>2 DEF Sound, NoWal, Torn, Empty
  <2>9. FilesSafe'
    <3>1. older' = older /\ wal' = NoWal /\ first' = NoLedger
      BY <1>1, <2>2, <2>6
    <3>2. \A d \in (older \cup {dir})' : Sound(d)'
      BY <2>5, <2>8, <3>1
    <3> QED BY <3>1, <3>2 DEF FilesSafe
  <2>10. FileTypes' /\ ProcTypes'
    BY <1>0, <1>1, <2>2, <2>3, <2>4, <2>7 DEF FileTypes, ProcTypes, Pcs
  <2>11. Prepared(p)'
    BY <1>3, <2>1, <2>3, <2>7 DEF Prepared, Schema, Empty
  <2> QED BY <1>0, <1>1, <1>2, <2>9, <2>10, <2>11, MyStep
<1> QED BY <1>4, <1>5

(* Backups are ledgers of the earlier schema. *)
LEMMA OldBackups ==
  ASSUME NEW d, Sound(d), NEW b \in d.backups
  PROVE  inode[b.inode].schema = 5
<1>1. Content(b.inode) = b.digest /\ b.digest.schema = 5
  BY DEF Sound
<1>2. Content(b.inode).schema = inode[b.inode].schema
  BY DEF Content
<1> QED BY <1>1, <1>2

LEMMA CreateSchemaStep ==
  ASSUME UpgradeInv, NEW p \in Procs, CreateSchema(p)
  PROVE  UpgradeInv'
<1> DEFINE old == inode[dir.ledger]
           new == [old EXCEPT !.schema = 6]
<1>0. FileTypes /\ ProcTypes /\ FilesSafe /\ Prepared(p) /\ ~raised
  BY TypeParts DEF UpgradeInv
<1>1. pc[p] = "schema" /\ dir.ledger # NoFile /\ Schema # 5 /\ Sound(dir)
  BY <1>0 DEF CreateSchema, Prepared, FilesSafe
<1>2. dir.ledger \in DOMAIN inode /\ old \in Inodes
  BY <1>0, <1>1, DirectoryFields DEF FileTypes
<1>3. old.schema \in {Empty, 6}
  BY <1>1, <1>2 DEF Inodes, Schemas, Sound, Schema
<1>4. /\ pc' = [pc EXCEPT ![p] = "up"] /\ inode' = [inode EXCEPT ![dir.ledger] = new]
      /\ UNCHANGED <<legacy, dir, older, wal, holder, pending, launches, kept, first, raised>>
  BY <1>3 DEF CreateSchema, Step, Schema, history
<1>5. new \in Inodes /\ new.schema = 6 /\ new.rows = old.rows /\ new.synced = old.synced
  BY <1>2 DEF Inodes, Schemas
<1> HIDE DEF new
<1>6. /\ inode' \in Seq(Inodes) /\ Len(inode') = Len(inode) /\ DOMAIN inode' = DOMAIN inode
      /\ \A k \in DOMAIN inode : inode'[k] = IF k = dir.ledger THEN new ELSE inode[k]
  BY <1>0, <1>2, <1>4, <1>5, ReplacedInode DEF FileTypes
<1>7. \A d \in Directories : d \in Directories'
  BY <1>0, <1>6, StaysDirectory DEF FileTypes
<1>8. FileTypes'
  BY <1>0, <1>4, <1>6, <1>7 DEF FileTypes
<1>9. ProcTypes'
  BY <1>0, <1>4, <1>6 DEF ProcTypes, Pcs
<1>10. \A d \in Directories : Sound(d) => Sound(d)'
  <2> SUFFICES ASSUME NEW d \in Directories, Sound(d) PROVE Sound(d)'
    OBVIOUS
  <2>1. /\ d.ledger # NoFile => d.ledger \in DOMAIN inode
        /\ \A b \in d.backups : b.inode \in DOMAIN inode
    BY <1>0, DirectoryFields DEF FileTypes
  <2>2. d.ledger # NoFile => /\ inode'[d.ledger].synced = inode[d.ledger].synced
                             /\ inode'[d.ledger].rows = inode[d.ledger].rows
                             /\ \/ inode'[d.ledger].schema = inode[d.ledger].schema
                                \/ first = NoLedger /\ inode'[d.ledger].schema = 6
    BY <1>1, <1>3, <1>5, <1>6, <2>1 DEF Sound, Empty
  <2>3. \A b \in d.backups : b.inode # dir.ledger
    BY <1>3, OldBackups DEF Empty
  <2>4. \A b \in d.backups : inode'[b.inode] = inode[b.inode]
    BY <1>6, <2>1, <2>3
  <2>5. ShownIn(d)' = ShownIn(d)
    BY <1>4, <2>2 DEF ShownIn
  <2> QED BY <1>4, <2>2, <2>4, <2>5 DEF Sound, IsBackedUp, Content, Torn
<1>11. FilesSafe'
  BY <1>0, <1>4, <1>10 DEF FilesSafe, FileTypes
<1>12. \A q \in Procs \ {p} : pc[q] = "off" /\ pc'[q] = "off"
  BY <1>0, <1>1, <1>4, Alone DEF ProcTypes
<1>13. Prepared(p)'
  <2>1. holder' = p /\ pc'[p] = "up" /\ inode'[dir'.ledger].schema = 6 /\ dir' = dir
    BY <1>0, <1>1, <1>2, <1>4, <1>5, <1>6, Alone DEF ProcTypes
  <2> QED BY <1>1, <2>1 DEF Prepared, Schema
<1> QED BY <1>0, <1>4, <1>8, <1>9, <1>11, <1>12, <1>13, MyStep

(* The ledger in use has this version's schema, its backups do not, so what is
   written to its log reaches none of them. *)
LEMMA WriteStep ==
  ASSUME UpgradeInv, NEW p \in Procs, Write(p)
  PROVE  UpgradeInv'
<1>0. FileTypes /\ ProcTypes /\ FilesSafe /\ Prepared(p) /\ ~raised
  BY TypeParts DEF UpgradeInv
<1>1. PICK r \in NewRows \ kept :
        /\ wal' = [inode |-> dir.ledger, rows |-> wal.rows \cup {r}]
        /\ kept' = kept \cup {r}
  BY DEF Write
<1>2. pc[p] = "up" /\ older' = {}
      /\ UNCHANGED <<legacy, inode, dir, holder, pc, pending, launches, first, raised>>
  BY DEF Write
<1>3. dir.ledger # NoFile /\ Schema = 6 /\ Sound(dir) /\ wal.inode \in {NoFile, dir.ledger}
  BY <1>0, <1>2 DEF Prepared, FilesSafe, Sound
<1>4. wal.rows \subseteq Rows /\ r \in Rows /\ dir.ledger \in 0 .. Len(inode)
  BY <1>0, <1>1, DirectoryFields DEF FileTypes, Rows
<1>5. FileTypes' /\ ProcTypes'
  BY <1>0, <1>1, <1>2, <1>4 DEF FileTypes, ProcTypes, Directories
<1>6. wal'.inode = dir.ledger /\ wal'.rows = wal.rows \cup {r}
  BY <1>1
<1>7. ShownIn(dir)' = ShownIn(dir) \cup {r}
  <2>1. wal.inode = NoFile => wal.rows = {}
    BY <1>0 DEF FilesSafe, NoWal
  <2> QED BY <1>2, <1>3, <1>6, <2>1 DEF ShownIn
<1>8. \A b \in dir.backups : b.inode # dir.ledger
  BY <1>3, OldBackups DEF Schema
<1>9. Sound(dir)'
  BY <1>1, <1>2, <1>3, <1>6, <1>7, <1>8 DEF Sound, IsBackedUp, Content, Schema
<1>10. FilesSafe'
  BY <1>0, <1>2, <1>3, <1>6, <1>9 DEF FilesSafe
<1>11. \A q \in Procs \ {p} : pc[q] = "off" /\ pc'[q] = "off"
  BY <1>2, Alone
<1>12. Prepared(p)'
  BY <1>0, <1>2, <1>3 DEF Prepared, Schema
<1> QED BY <1>0, <1>2, <1>5, <1>10, <1>11, <1>12, MyStep

LEMMA ReplayingStep ==
  ASSUME UpgradeInv, NEW p \in Procs, Checkpoint(p) \/ Close(p)
  PROVE  UpgradeInv'
<1>0. FileTypes /\ ProcTypes /\ FilesSafe /\ Prepared(p) /\ ~raised
  BY TypeParts DEF UpgradeInv
<1>1. pc[p] = "up" /\ Replayed /\ UNCHANGED <<legacy, dir, older, kept, first, raised>>
  BY DEF Checkpoint, Close, Ends, history
<1>2. dir.ledger # NoFile /\ Schema = 6
  BY <1>0, <1>1 DEF Prepared
<1>3. /\ inode' \in Seq(Inodes) /\ Len(inode') = Len(inode)
      /\ FilesSafe' /\ Schema' = Schema
      /\ wal' \in [inode : 0 .. Len(inode'), rows : SUBSET Rows]
      /\ \A d \in Directories : d \in Directories'
  BY <1>1, <1>2, ReplaySafe
<1>4. FileTypes'
  BY <1>0, <1>1, <1>3 DEF FileTypes
<1>5. Len(inode) <= Len(inode')
  BY <1>0, <1>3 DEF FileTypes
<1>6. CASE Checkpoint(p)
  <2>1. UNCHANGED <<holder, pc, pending>>
    BY <1>6 DEF Checkpoint
  <2>2. ProcTypes'
    BY <1>0, <1>3, <2>1 DEF ProcTypes
  <2>3. \A q \in Procs \ {p} : pc[q] = "off" /\ pc'[q] = "off"
    BY <1>1, <2>1, Alone
  <2>4. Prepared(p)'
    BY <1>0, <1>1, <1>2, <1>3, <2>1 DEF Prepared
  <2> QED BY <1>0, <1>1, <1>3, <1>4, <2>2, <2>3, <2>4, MyStep
<1>7. CASE Close(p)
  BY <1>0, <1>1, <1>3, <1>4, <1>5, <1>7, EndsSafe DEF Close
<1> QED BY <1>6, <1>7

LEMMA CrashStep ==
  ASSUME UpgradeInv, NEW p \in Procs, Crash(p)
  PROVE  UpgradeInv'
<1>1. pc[p] # "off" /\ Ends(p) /\ UNCHANGED <<files, kept, first, raised>>
  BY DEF Crash, Ends
<1>2. FileTypes' /\ FilesSafe' /\ UNCHANGED inode /\ Len(inode) \in Nat
  <2>1. inode \in Seq(Inodes)
    BY TypeParts DEF UpgradeInv, FileTypes
  <2> QED BY <1>1, <2>1, FilesStay DEF files
<1> QED BY <1>1, <1>2, EndsSafe DEF UpgradeInv

(* Every directory a power failure may fall back to is sound, and what it
   names is on the disk. *)
LEMMA PowerFailureStep ==
  ASSUME UpgradeInv, PowerFailure
  PROVE  UpgradeInv'
<1>0. FileTypes /\ ProcTypes /\ FilesSafe /\ ~raised
  BY TypeParts DEF UpgradeInv
<1> DEFINE lost(i) == [inode[i] EXCEPT !.schema = Torn, !.rows = {}]
<1>1. /\ dir' \in older \cup {dir} /\ older' = {}
      /\ inode' = [i \in DOMAIN inode |-> IF inode[i].synced THEN inode[i] ELSE lost(i)]
      /\ holder' = Free /\ pc' = [p \in Procs |-> "off"] /\ pending' = [p \in Procs |-> NoFile]
      /\ UNCHANGED <<legacy, wal, kept, first, raised>>
  BY DEF PowerFailure, history
<1>2. inode \in Seq(Inodes) /\ Len(inode) \in Nat /\ DOMAIN inode = 1 .. Len(inode)
  BY <1>0 DEF FileTypes
<1>3. \A i \in DOMAIN inode : lost(i) \in Inodes /\ inode[i] \in Inodes
  <2> SUFFICES ASSUME NEW i \in DOMAIN inode PROVE lost(i) \in Inodes /\ inode[i] \in Inodes
    OBVIOUS
  <2>1. inode[i] \in Inodes
    BY <1>2
  <2> QED BY <2>1 DEF Inodes, Schemas, Torn
<1> HIDE DEF lost
<1>4. inode' \in [1 .. Len(inode) -> Inodes]
  BY <1>1, <1>2, <1>3
<1>5. inode' \in Seq(Inodes) /\ Len(inode') = Len(inode)
  BY <1>2, <1>4
<1>6. \A i \in DOMAIN inode : inode[i].synced => inode'[i] = inode[i]
  BY <1>1
<1>7. \A d \in older \cup {dir} : d \in Directories /\ d \in Directories' /\ Sound(d)'
  <2> SUFFICES ASSUME NEW d \in older \cup {dir} PROVE d \in Directories /\ d \in Directories' /\ Sound(d)'
    OBVIOUS
  <2>1. d \in Directories /\ Sound(d)
    BY <1>0 DEF FileTypes, FilesSafe
  <2>2. d \in Directories'
    BY <1>2, <1>5, <2>1, StaysDirectory
  <2>3. Sound(d)'
    BY <1>1, <1>2, <1>6, <2>1, StaysSound
  <2> QED BY <2>1, <2>2, <2>3
<1>8. dir' \in Directories'  /\ Sound(dir)'
  <2>1. PICK d \in older \cup {dir} : dir' = d
    BY <1>1
  <2> QED BY <1>7, <2>1 DEF Sound, ShownIn, IsBackedUp, Content
<1>9. FileTypes'
  BY <1>0, <1>1, <1>5, <1>8 DEF FileTypes
<1>10. FilesSafe'
  BY <1>0, <1>1, <1>8 DEF FilesSafe
<1>11. ProcTypes'
  BY <1>0, <1>1, <1>2, <1>5 DEF ProcTypes, Pcs, NoFile
<1>12. \A p \in Procs : Prepared(p)'
  BY <1>1 DEF Prepared
<1>13. TypeOK'
  BY <1>9, <1>11, TypeParts, PTL
<1> QED BY <1>0, <1>1, <1>10, <1>12, <1>13 DEF UpgradeInv

LEMMA UpgradeStep == UpgradeInv /\ [Next]_vars => UpgradeInv'
<1> SUFFICES ASSUME UpgradeInv, [Next]_vars PROVE UpgradeInv'
  OBVIOUS
<1>1. CASE UNCHANGED vars
  <2>1. FileTypes' /\ FilesSafe' /\ UNCHANGED <<files, holder, pc, pending, kept, first, raised>>
    BY <1>1, FilesStay DEF vars, history
  <2>2. ProcTypes /\ (\A p \in Procs : Prepared(p)) /\ ~raised
    BY TypeParts DEF UpgradeInv
  <2>3. ProcTypes' /\ (\A p \in Procs : Prepared(p)')
    BY <2>1, <2>2 DEF files, ProcTypes, Prepared, IsCopy, IsBackedUp, Schema
  <2>4. TypeOK'
    BY <2>1, <2>3, TypeParts, PTL
  <2> QED BY <2>1, <2>2, <2>3, <2>4 DEF UpgradeInv
<1>2. CASE PowerFailure
  BY <1>2, PowerFailureStep
<1>3. ASSUME NEW p \in Procs, Proc(p) PROVE UpgradeInv'
  BY <1>3, LaunchStep, VersionStep, CopyStep, SyncStep, PublishStep, BackupStep, ReplaceStep,
     SyncDirectoryStep, OpenStep, CreateSchemaStep, WriteStep, ReplayingStep, CrashStep DEF Proc
<1> QED BY <1>1, <1>2, <1>3 DEF Next

-----------------------------------------------------------------------------
(* Theorems. *)

LEMMA UpgradeAlways == Spec => []UpgradeInv
BY UpgradeInit, UpgradeStep, PTL DEF Spec

(* Every variable keeps its type, whoever prepares a copy has one, and all
   names in the data directory are names of files. *)
THEOREM UpgradeTypes == Spec => []TypeOK
<1>1. UpgradeInv => TypeOK
  BY DEF UpgradeInv
<1> QED BY <1>1, UpgradeAlways, PTL

(* However many processes launch, die and lose power between any two file
   operations of data_lock, Storage.__init__, migrate_sqlite and
   migrate_duckdb_v5: no committed row is lost, no launch is refused by what an
   earlier one left behind, and a replaced schema-5 ledger is among the
   backups with the content of its last writer. *)
THEOREM UpgradesAreSafe == Spec => []UpgradeSafe
<1>1. UpgradeInv => UpgradeSafe
  <2> SUFFICES ASSUME UpgradeInv PROVE UpgradeSafe
    OBVIOUS
  <2>1. Sound(dir) /\ ~raised
    BY DEF UpgradeInv, FilesSafe
  <2>2. Kept
    BY <2>1 DEF Sound, ShownIn, Kept, Shown
  <2>3. BackedUp
    BY <2>1 DEF Sound, IsBackedUp, BackedUp, Schema
  <2> QED BY <2>1, <2>2, <2>3 DEF UpgradeSafe, NeverRefused
<1> QED BY <1>1, UpgradeAlways, PTL
=============================================================================
