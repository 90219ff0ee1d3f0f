---------------------------- MODULE SourceLedger ----------------------------
(* What an import run does to the ledger while the history files change under
   it: _scan walks the roots and reads the files one by one, import_sources
   commits batches of them as new generations, mark_missing flags what a
   complete scan did not find, _assign_projects saves what git and the index of
   Codex tell of the sessions.  The process may die between any two of these,
   and a report reads the ledger at any time.

   A payload is the bytes of a file with those of its sidecar (workspace.json
   or workspace.yaml), read one after the other.  The rows a generation owns
   are a function of its payload and of the reader's profile, so a generation
   stands for them.  Storage's transactions are one step each. *)
EXTENDS Integers, Sequences, FiniteSets

CONSTANTS Files,       \* paths, numbered in sorted order
          Roots,       \* source roots, numbered in the order they are saved
          Under,       \* the files below each root
          Data,        \* possible bytes of a file
          Absent,      \* no such file, nothing told
          Kind,        \* the reader that claims each file for each of its bytes
          Sidecar,     \* the sidecar of each file that has one
          Metadata,    \* sidecars a walk lists when their session has no events
          Names,       \* what git or the index of titles may tell
          BatchSize,   \* payloads committed per transaction (32 in the code)
          MaxEdits,    \* bound: changes made to the file system
          MaxVersion,  \* bound: upgrades of the program
          MaxRuns      \* bound: import runs

Kinds == {"reprojected",  \* Claude, VS Code: read again when the profile changes
          "rescanned",    \* Pi: only its delegations are scanned again
          "kept",         \* Codex, Copilot CLI
          "unsupported"}

ASSUME LedgerConstants == /\ Files \subseteq Nat /\ IsFiniteSet(Files)
                          /\ Roots \subseteq Nat /\ IsFiniteSet(Roots)
                          /\ Under \in [Roots -> SUBSET Files]
                          /\ Absent \notin Data
                          /\ Kind \in [Files -> [Data -> Kinds]]
                          /\ DOMAIN Sidecar \subseteq Files
                          /\ \A f \in DOMAIN Sidecar : Sidecar[f] \in Files \ {f}
                          /\ Metadata \subseteq {Sidecar[f] : f \in DOMAIN Sidecar}
                          /\ BatchSize \in Nat \ {0}
                          /\ MaxEdits \in Nat /\ MaxVersion \in Nat /\ MaxRuns \in Nat

VARIABLES disk,        \* the bytes of each file
          mounted,     \* the roots that can be read
          version,     \* the profiles this version of the program writes
          told,        \* what git tells of the projects, the index of the titles
          generations, \* table source_generation, per locator
          saved,       \* tables session_attribution and codex_title, by locator
          revision,    \* ledger_meta.revision
          wpc,         \* where the import is; "idle": no import
          scan,        \* locals of the import
          report,      \* the ledger and its revision as some report read them
          edits, nruns, \* counters for the bounds
          touched,     \* history: files changed since the run began
          retold,      \* history: told has changed since the run began
          settled,     \* history: the roots the last succeeded run was over, while files and roots stay as they were
          base         \* history: settled and revision when the run began

env == <<disk, mounted, version, told, edits>>
ledger == <<generations, saved, revision>>
history == <<touched, retold, settled, base>>
vars == <<disk, mounted, version, told, generations, saved, revision, wpc, scan, report, edits, nruns,
          touched, retold, settled, base>>

Notes == {"projects", "titles"}
Unsettled == {-1}                 \* no roots
NoScan == [roots |-> {}, towalk |-> {}, todo |-> {}, reading |-> {}, data |-> Absent,
           batch |-> {}, found |-> {}, error |-> FALSE]

Supported(f, d) == Kind[f][d] # "unsupported"
Newest(f) == generations[f][Len(generations[f])]
Known(f) == generations[f] # <<>>
First(S) == CHOOSE x \in S : \A y \in S : x <= y

Init == /\ disk \in [Files -> Data \cup {Absent}]
        /\ mounted = Roots
        /\ version = 0
        /\ told = [n \in Notes |-> Absent]
        /\ generations = [f \in Files |-> <<>>]
        /\ saved = [n \in Notes |-> [f \in Files |-> Absent]]
        /\ revision = 0
        /\ wpc = "idle"
        /\ scan = NoScan
        /\ report = [revision |-> revision, generations |-> generations, saved |-> saved]
        /\ edits = 0
        /\ nruns = 0
        /\ touched = {}
        /\ retold = FALSE
        /\ settled = Unsettled
        /\ base = [settled |-> Unsettled, revision |-> 0]

-----------------------------------------------------------------------------
(* The world: histories are written, replaced and deleted by other programs,
   disks go away and come back; directories move and sessions are renamed. *)
WorldStep == /\ edits < MaxEdits
             /\ edits' = edits + 1
             /\ settled' = Unsettled
             /\ UNCHANGED <<version, ledger, wpc, scan, report, nruns, base>>
Changed(fs) == WorldStep /\ touched' = touched \cup fs /\ UNCHANGED <<told, retold>>

(* A change of a file concerns the files whose payload or listing it is part of. *)
Concerned(fs) == fs \cup {f \in DOMAIN Sidecar : Sidecar[f] \in fs}
                    \cup {Sidecar[f] : f \in DOMAIN Sidecar \cap fs}

Edit(f) == /\ \E d \in (Data \cup {Absent}) \ {disk[f]} : disk' = [disk EXCEPT ![f] = d]
           /\ Changed(Concerned({f}))
           /\ UNCHANGED mounted

Mount(r) == /\ mounted' = (mounted \ {r}) \cup ({r} \ mounted)
            /\ Changed(Concerned(Under[r]))
            /\ UNCHANGED disk

Retell(n) == /\ \E name \in (Names \cup {Absent}) \ {told[n]} : told' = [told EXCEPT ![n] = name]
             /\ WorldStep
             /\ retold' = TRUE
             /\ UNCHANGED <<disk, mounted, touched>>

-----------------------------------------------------------------------------
(* The import. *)

Begin(roots) ==
  /\ wpc = "idle"
  /\ nruns < MaxRuns
  /\ nruns' = nruns + 1
  /\ wpc' = "walk"
  /\ scan' = [NoScan EXCEPT !.roots = roots, !.towalk = roots]
  /\ touched' = {}
  /\ retold' = FALSE
  /\ base' = [settled |-> settled, revision |-> revision]
  /\ settled' = IF roots = settled THEN settled ELSE Unsettled
  /\ UNCHANGED <<env, ledger, report>>

(* An error ends the scan; projects and titles are saved all the same. *)
Failed == scan' = [scan EXCEPT !.error = TRUE] /\ wpc' = "projects"

(* _scan: every root must be a readable directory, any error in one ends the
   scan; files found under two
   roots are listed once.  A sidecar is listed only in place of the session
   file it goes with. *)
Readable(f) == disk[f] # Absent /\ \E r \in mounted : f \in Under[r]
Listed(f) == \A g \in DOMAIN Sidecar : Sidecar[g] = f => f \in Metadata /\ disk[g] = Absent

WalkRoot ==
  /\ wpc = "walk"
  /\ scan.towalk # {}
  /\ \/ LET r == First(scan.towalk) IN
          /\ r \in mounted
          /\ scan' = [scan EXCEPT !.towalk = @ \ {r},
                                  !.todo = @ \cup {f \in Under[r] : Readable(f) /\ Listed(f)}]
          /\ UNCHANGED wpc
     \/ Failed
  /\ UNCHANGED <<env, ledger, report, nruns, history>>

WalkEnd == /\ wpc = "walk"
           /\ scan.towalk = {}
           /\ wpc' = "read"
           /\ UNCHANGED <<env, ledger, scan, report, nruns, history>>

(* Slip: a file that cannot be read is passed over. *)
ReadFilePassing ==
  /\ wpc = "read"
  /\ scan.todo # {}
  /\ LET f == First(scan.todo) IN
       \/ /\ Readable(f)
          /\ scan' = [scan EXCEPT !.todo = @ \ {f}, !.reading = {f}, !.data = disk[f]]
          /\ wpc' = "sidecar"
       \/ scan' = [scan EXCEPT !.todo = @ \ {f}] /\ UNCHANGED wpc
  /\ UNCHANGED <<env, ledger, report, nruns, history>>

(* Slip: the listing is trusted, the file may be gone. *)
ReadFileListed ==
  /\ wpc = "read"
  /\ scan.todo # {}
  /\ LET f == First(scan.todo) IN
       /\ scan' = [scan EXCEPT !.todo = @ \ {f}, !.reading = {f}, !.data = disk[f]]
       /\ wpc' = "sidecar"
  /\ UNCHANGED <<env, ledger, report, nruns, history>>

(* The file is read, then its sidecar; other programs may write in between.
   A file that cannot be read ends the scan. *)
ReadFile ==
  /\ wpc = "read"
  /\ scan.todo # {}
  /\ \/ LET f == First(scan.todo) IN
          /\ Readable(f)
          /\ scan' = [scan EXCEPT !.todo = @ \ {f}, !.reading = {f}, !.data = disk[f]]
          /\ wpc' = "sidecar"
     \/ Failed
  /\ UNCHANGED <<env, ledger, report, nruns, history>>

(* A sidecar that is not there or not under the roots of the run is no context;
   that is no failure. *)
Authorized(f) == \E r \in scan.roots : f \in Under[r]
Context(f) == IF f \in DOMAIN Sidecar /\ Readable(Sidecar[f]) /\ Authorized(Sidecar[f])
              THEN disk[Sidecar[f]]
              ELSE Absent

(* An unsupported file is skipped; a supported one joins the batch, which is
   committed when it is full.  A sidecar that is found but cannot be read, is
   gone when it is opened or is too large ends the scan. *)
ReadSidecar ==
  /\ wpc = "sidecar"
  /\ \E f \in scan.reading :
       \/ LET payload == [file |-> f, data |-> scan.data, side |-> Context(f)]
              full == scan.batch \cup (IF Supported(f, scan.data) THEN {payload} ELSE {})
          IN /\ scan' = [scan EXCEPT !.reading = {}, !.data = Absent, !.batch = full]
             /\ wpc' = IF Cardinality(full) = BatchSize THEN "commit" ELSE "read"
       \/ f \in DOMAIN Sidecar /\ Authorized(Sidecar[f]) /\ Failed
  /\ UNCHANGED <<env, ledger, report, nruns, history>>

ReadEnd == /\ wpc = "read"
           /\ scan.todo = {}
           /\ wpc' = IF scan.batch = {} THEN "missing" ELSE "commit"
           /\ UNCHANGED <<env, ledger, scan, report, nruns, history>>

SamePayload(g, p) == g.data = p.data /\ g.side = p.side
(* Slips: a fingerprint without the sidecar; no look at the availability. *)
CurrentBytes(f, p) == /\ Known(f)
                      /\ Newest(f).data = p.data
                      /\ Newest(f).available
                      /\ Kind[f][p.data] = "reprojected" => Newest(f).profile = version
CurrentMissing(f, p) == /\ Known(f)
                        /\ SamePayload(Newest(f), p)
                        /\ Kind[f][p.data] = "reprojected" => Newest(f).profile = version

(* _import_source: nothing to do for the bytes of the newest generation while
   it is available and its projection current; else a new generation. *)
Current(f, p) == /\ Known(f)
                 /\ SamePayload(Newest(f), p)
                 /\ Newest(f).available
                 /\ Kind[f][p.data] = "reprojected" => Newest(f).profile = version
Fresh(p) == [data |-> p.data, side |-> p.side, available |-> TRUE, profile |-> version,
             scanned |-> version]
(* Slip: the newest generation is replaced. *)
ImportedInPlace(f, p) ==
  IF ~Known(f) THEN <<Fresh(p)>>
  ELSE [generations[f] EXCEPT ![Len(generations[f])] = Fresh(p)]

Imported(f, p) ==
  IF ~Current(f, p) THEN Append(generations[f], Fresh(p))
  ELSE IF Kind[f][p.data] = "rescanned"
       THEN [generations[f] EXCEPT ![Len(generations[f])].scanned = version]
       ELSE generations[f]

(* Slip: the revision moves with every batch. *)
CommitMoving ==
  /\ wpc = "commit"
  /\ generations' = [f \in Files |->
                       IF \E p \in scan.batch : p.file = f
                       THEN Imported(f, CHOOSE p \in scan.batch : p.file = f)
                       ELSE generations[f]]
  /\ revision' = revision + 1
  /\ scan' = [scan EXCEPT !.batch = {}, !.found = @ \cup {p.file : p \in scan.batch}]
  /\ wpc' = "read"
  /\ UNCHANGED <<env, saved, report, nruns, history>>

(* import_sources: one transaction; the revision moves if anything did. *)
Commit ==
  /\ wpc = "commit"
  /\ \/ /\ generations' = [f \in Files |->
                             IF \E p \in scan.batch : p.file = f
                             THEN Imported(f, CHOOSE p \in scan.batch : p.file = f)
                             ELSE generations[f]]
        /\ revision' = IF generations' = generations THEN revision ELSE revision + 1
        /\ scan' = [scan EXCEPT !.batch = {}, !.found = @ \cup {p.file : p \in scan.batch}]
        /\ wpc' = "read"
     \/ Failed /\ UNCHANGED <<generations, revision>>
  /\ UNCHANGED <<env, saved, report, nruns, history>>

(* mark_missing: every generation of a known locator the scan did not find. *)
Flagged(gs) == [i \in DOMAIN gs |-> [gs[i] EXCEPT !.available = FALSE]]

(* Slip: the revision stays. *)
MarkMissingSilently ==
  /\ wpc = "missing"
  /\ wpc' = "projects"
  /\ generations' = [f \in Files |-> IF f \in scan.found THEN generations[f]
                                     ELSE Flagged(generations[f])]
  /\ UNCHANGED <<env, saved, revision, scan, report, nruns, history>>

MarkMissing ==
  /\ wpc = "missing"
  /\ wpc' = "projects"
  /\ \/ /\ generations' = [f \in Files |-> IF f \in scan.found THEN generations[f]
                                           ELSE Flagged(generations[f])]
        /\ revision' = IF generations' = generations THEN revision ELSE revision + 1
        /\ UNCHANGED scan
     \/ scan' = [scan EXCEPT !.error = TRUE] /\ UNCHANGED <<generations, revision>>
  /\ UNCHANGED <<env, saved, report, nruns, history>>

(* _assign_projects: of every session of the ledger git is asked for the
   project, and the index of Codex for the title; where nothing is told, what
   was saved stays.  Two transactions, the second only after the first. *)
Learned(n) == [f \in Files |-> IF Known(f) /\ told[n] # Absent THEN told[n] ELSE saved[n][f]]
Save(n, next) ==
  /\ wpc = n
  /\ \/ /\ saved' = [saved EXCEPT ![n] = Learned(n)]
        /\ revision' = IF saved' = saved THEN revision ELSE revision + 1
        /\ wpc' = next
        /\ UNCHANGED scan
     \/ scan' = [scan EXCEPT !.error = TRUE] /\ wpc' = "end" /\ UNCHANGED <<saved, revision>>
  /\ UNCHANGED <<env, generations, report, nruns, history>>
SaveAttributions == Save("projects", "titles")
SaveTitles == Save("titles", "end")

(* finish_import. *)
End == /\ wpc = "end"
       /\ wpc' = "idle"
       /\ scan' = NoScan
       /\ settled' = IF ~scan.error /\ touched = {} /\ ~retold THEN scan.roots ELSE settled
       /\ UNCHANGED <<env, ledger, report, nruns, touched, retold, base>>

ImportStep == \/ WalkRoot \/ WalkEnd \/ ReadFile \/ ReadSidecar \/ ReadEnd
              \/ Commit \/ MarkMissing \/ SaveAttributions \/ SaveTitles \/ End

(* The process dies; the committed ledger stays.  A new version may start. *)
Crash == /\ wpc # "idle"
         /\ wpc' = "idle"
         /\ scan' = NoScan
         /\ UNCHANGED <<env, ledger, report, nruns, history>>

Upgrade == /\ wpc = "idle"
           /\ version < MaxVersion
           /\ version' = version + 1
           /\ settled' = Unsettled
           /\ UNCHANGED <<disk, mounted, told, edits, ledger, wpc, scan, report, nruns, touched, retold, base>>

(* snapshot() and report_input(): one transaction. *)
ReadReport == /\ report' = [revision |-> revision, generations |-> generations, saved |-> saved]
              /\ UNCHANGED <<env, ledger, wpc, scan, nruns, history>>

Next == \/ \E f \in Files : Edit(f)
        \/ \E r \in Roots : Mount(r)
        \/ \E n \in Notes : Retell(n)
        \/ \E roots \in SUBSET Roots : Begin(roots)
        \/ ImportStep
        \/ Crash
        \/ Upgrade
        \/ ReadReport

Spec == Init /\ [][Next]_vars

-----------------------------------------------------------------------------
(* Properties. *)

(* Every variable has its type. *)
Generations == [data : Data, side : Data \cup {Absent}, available : BOOLEAN, profile : Nat,
                scanned : Nat]
Told == [Notes -> Names \cup {Absent}]
Saved == [Notes -> [Files -> Names \cup {Absent}]]
Payloads == [file : Files, data : Data, side : Data \cup {Absent}]
TypeOK == /\ disk \in [Files -> Data \cup {Absent}]
          /\ mounted \subseteq Roots
          /\ version \in 0 .. MaxVersion
          /\ told \in Told
          /\ generations \in [Files -> Seq(Generations)]
          /\ saved \in Saved
          /\ revision \in Nat
          /\ wpc \in {"idle", "walk", "read", "sidecar", "commit", "missing", "projects", "titles", "end"}
          /\ scan \in [roots : SUBSET Roots, towalk : SUBSET Roots, todo : SUBSET Files,
                       reading : SUBSET Files, data : Data \cup {Absent},
                       batch : SUBSET Payloads, found : SUBSET Files, error : BOOLEAN]
          /\ wpc = "sidecar" => \E f \in Files : scan.reading = {f} /\ scan.data \in Data
          /\ report \in [revision : Nat, generations : [Files -> Seq(Generations)], saved : Saved]
          /\ edits \in 0 .. MaxEdits
          /\ nruns \in 0 .. MaxRuns
          /\ touched \subseteq Files
          /\ retold \in BOOLEAN
          /\ settled \in (SUBSET Roots) \cup {Unsettled}
          /\ base \in [settled : (SUBSET Roots) \cup {Unsettled}, revision : Nat]

(* A run that succeeds leaves the ledger showing the file system: for every
   file nobody touched meanwhile, its present bytes with its sidecar's, read
   by the present reader, if the sources list it and a reader claims it; else
   nothing of it is available.  It does so whatever earlier runs were
   interrupted, failed, or read while files changed. *)
Imports(f) == Readable(f) /\ Authorized(f) /\ Listed(f) /\ Supported(f, disk[f])
Shows(f) == /\ Known(f)
            /\ LET g == Newest(f) IN
                 /\ g.data = disk[f] /\ g.side = Context(f)
                 /\ g.available
                 /\ Kind[f][disk[f]] = "reprojected" => g.profile = version
                 /\ Kind[f][disk[f]] = "rescanned" => g.scanned = version
Hides(f) == \A i \in DOMAIN generations[f] : ~generations[f][i].available
Succeeds == wpc \in {"projects", "titles", "end"} /\ ~scan.error
Complete == Succeeds => \A f \in Files \ touched : IF Imports(f) THEN Shows(f) ELSE Hides(f)

(* Nothing is declared missing on the word of an incomplete scan: a file that
   was there all along, under a root of the run, keeps what it had, whichever
   roots could not be read and whatever failed. *)
There(f) == disk[f] # Absent /\ Authorized(f) /\ Listed(f) /\ Supported(f, disk[f])
NoFalseMissing ==
  [][\A f \in Files : \A i \in DOMAIN generations[f] :
       generations[f][i].available /\ ~generations'[f][i].available
         => ~scan.error /\ (f \in touched \/ ~There(f))]_vars

(* What has been imported is kept: a file that is rewritten, truncated, deleted
   or out of the sources loses availability, never a generation. *)
Identity(g) == <<g.data, g.side, g.profile>>
Retained ==
  [][\A f \in Files :
       /\ Len(generations'[f]) \in Len(generations[f]) .. Len(generations[f]) + 1
       /\ \A i \in DOMAIN generations[f] :
            /\ Identity(generations'[f][i]) = Identity(generations[f][i])
            /\ generations'[f][i].available => generations[f][i].available]_vars

(* Importing the same sources again, with nothing changed since a run over them
   succeeded, neither in the files nor in what git and Codex tell, changes
   nothing, whether runs between failed or were interrupted: no revision, hence
   no reload of any page. *)
Idempotent == Succeeds /\ base.settled = scan.roots /\ touched = {} /\ ~retold => revision = base.revision

(* A page reloads its report when the status shows another revision: two
   reports of one revision are reports of one ledger, its projects and titles
   with it. *)
SameRevisionSameReport ==
  report.revision = revision => report.generations = generations /\ report.saved = saved
=============================================================================
