------------------------- MODULE SourceLedgerProofs -------------------------
(* Proofs about SourceLedger, for any files, roots, readers, sidecars and
   bounds: types, Retained, SameRevisionSameReport, NoFalseMissing, Complete and
   Idempotent. *)
EXTENDS SourceLedger, SequenceTheorems, WellFoundedInduction, TLAPS

Scans == [roots : SUBSET Roots, towalk : SUBSET Roots, todo : SUBSET Files,
          reading : SUBSET Files, data : Data \cup {Absent},
          batch : SUBSET Payloads, found : SUBSET Files, error : BOOLEAN]

(* A set of numbers that is not empty has a first one. *)
LEMMA FirstIsLeast ==
  ASSUME NEW S \in SUBSET Nat, S # {}
  PROVE  First(S) \in S /\ \A y \in S : First(S) <= y
<1> DEFINE Less == {ss \in Nat \X Nat : ss[1] < ss[2]}
<1>1. IsWellFoundedOn(Less, Nat)
  BY NatLessThanWellFounded DEF OpToRel
<1>2. PICK x \in S : \A y \in S : <<y, x>> \notin Less
  <2> HIDE DEF Less
  <2> QED BY <1>1, WFMin
<1>3. ASSUME NEW y \in S PROVE x <= y
  <2>1. x \in Nat /\ y \in Nat
    OBVIOUS
  <2>2. y < x => <<y, x>> \in Less
    BY <2>1
  <2> QED BY <1>2, <2>1, <2>2
<1> QED BY <1>3 DEF First

(* A file that can be read is one of the files and has bytes. *)
LEMMA ReadableHasBytes ==
  ASSUME TypeOK, NEW f, Readable(f)
  PROVE  f \in Files /\ disk[f] \in Data
  BY LedgerConstants DEF TypeOK, Readable

(* What the reader is given as context is bytes or nothing. *)
LEMMA ContextTyped ==
  ASSUME TypeOK, NEW f
  PROVE  Context(f) \in Data \cup {Absent}
<1>1. CASE Readable(Sidecar[f])
  BY <1>1, ReadableHasBytes DEF Context
<1>2. CASE ~Readable(Sidecar[f])
  BY <1>2 DEF Context
<1> QED BY <1>1, <1>2

(* _import_source keeps every generation in its place, with its payload and its
   profile, and adds at most one. *)
LEMMA ImportedKeeps ==
  ASSUME TypeOK, NEW f \in Files, NEW p \in Payloads
  PROVE  /\ Imported(f, p) \in Seq(Generations)
         /\ Len(Imported(f, p)) \in Len(generations[f]) .. Len(generations[f]) + 1
         /\ \A i \in DOMAIN generations[f] :
              /\ Identity(Imported(f, p)[i]) = Identity(generations[f][i])
              /\ Imported(f, p)[i].available = generations[f][i].available
<1> DEFINE gs == generations[f]
           n == Len(gs)
<1>1. gs \in Seq(Generations) /\ n \in Nat /\ DOMAIN gs = 1 .. n /\ version \in Nat
  BY LedgerConstants DEF TypeOK
<1>2. CASE ~Current(f, p)
  <2>1. Fresh(p) \in Generations
    BY <1>1 DEF Fresh, Generations, Payloads
  <2>2. Imported(f, p) = Append(gs, Fresh(p))
    BY <1>2 DEF Imported
  <2> HIDE DEF gs
  <2>3. /\ Append(gs, Fresh(p)) \in Seq(Generations)
        /\ Len(Append(gs, Fresh(p))) = n + 1
        /\ \A i \in 1 .. n : Append(gs, Fresh(p))[i] = gs[i]
    BY <1>1, <2>1
  <2> QED BY <1>1, <2>2, <2>3 DEF gs
<1>3. CASE Current(f, p) /\ Kind[f][p.data] = "rescanned"
  <2> DEFINE r == [gs[n] EXCEPT !.scanned = version]
             hs == [gs EXCEPT ![n] = r]
  <2>1. gs # <<>> /\ Imported(f, p) = hs
    BY <1>3 DEF Imported, Current, Known
  <2>2. n \in 1 .. n /\ gs[n] \in Generations
    BY <1>1, <2>1
  <2>3. /\ r \in Generations
        /\ r.data = gs[n].data /\ r.side = gs[n].side /\ r.profile = gs[n].profile
        /\ r.available = gs[n].available
    BY <1>1, <2>2 DEF Generations
  <2> HIDE DEF gs, r
  <2>4. /\ hs \in Seq(Generations)
        /\ Len(hs) = n
        /\ \A i \in 1 .. n : hs[i] = IF i = n THEN r ELSE gs[i]
    BY <1>1, <2>2, <2>3
  <2> HIDE DEF hs
  <2>5. \A i \in 1 .. n : Identity(hs[i]) = Identity(gs[i]) /\ hs[i].available = gs[i].available
    BY <2>3, <2>4 DEF Identity
  <2> QED BY <1>1, <2>1, <2>4, <2>5 DEF gs
<1>4. CASE Current(f, p) /\ Kind[f][p.data] # "rescanned"
  <2>1. Imported(f, p) = gs
    BY <1>4 DEF Imported
  <2> HIDE DEF gs
  <2> QED BY <1>1, <2>1 DEF gs
<1> QED BY <1>2, <1>3, <1>4

(* mark_missing flags every generation of a file and changes nothing else. *)
LEMMA FlaggedKeeps ==
  ASSUME NEW gs \in Seq(Generations)
  PROVE  /\ Flagged(gs) \in Seq(Generations)
         /\ Len(Flagged(gs)) = Len(gs)
         /\ \A i \in DOMAIN gs : Identity(Flagged(gs)[i]) = Identity(gs[i])
                                 /\ ~Flagged(gs)[i].available
<1> DEFINE flagged(i) == [gs[i] EXCEPT !.available = FALSE]
<1>1. \A i \in DOMAIN gs : gs[i] \in Generations
  OBVIOUS
<1>2. \A i \in DOMAIN gs : /\ flagged(i) \in Generations
                           /\ Identity(flagged(i)) = Identity(gs[i])
                           /\ ~flagged(i).available
  BY <1>1 DEF Generations, Identity
<1>3. Flagged(gs) = [i \in DOMAIN gs |-> flagged(i)]
  BY DEF Flagged
<1> HIDE DEF flagged
<1>4. Len(gs) \in Nat /\ DOMAIN gs = 1 .. Len(gs)
  OBVIOUS
<1>5. Flagged(gs) \in [1 .. Len(gs) -> Generations]
  BY <1>2, <1>3, <1>4
<1>6. Flagged(gs) \in Seq(Generations) /\ Len(Flagged(gs)) = Len(gs)
  BY <1>4, <1>5
<1> QED BY <1>2, <1>3, <1>6
-----------------------------------------------------------------------------
(* Types. *)

(* The commit of a batch replaces the generations of each file in it by what
   _import_source makes of them; the others keep theirs. *)
Committed == [f \in Files |-> IF \E p \in scan.batch : p.file = f
                               THEN Imported(f, CHOOSE p \in scan.batch : p.file = f)
                               ELSE generations[f]]

(* import_sources keeps every generation in its place and its availability. *)
LEMMA CommittedKeeps ==
  ASSUME TypeOK
  PROVE  /\ Committed \in [Files -> Seq(Generations)]
         /\ \A f \in Files :
              /\ Len(Committed[f]) \in Len(generations[f]) .. Len(generations[f]) + 1
              /\ \A i \in DOMAIN generations[f] :
                   /\ Identity(Committed[f][i]) = Identity(generations[f][i])
                   /\ Committed[f][i].available = generations[f][i].available
<1>1. ASSUME NEW f \in Files
      PROVE  /\ Committed[f] \in Seq(Generations)
             /\ Len(Committed[f]) \in Len(generations[f]) .. Len(generations[f]) + 1
             /\ \A i \in DOMAIN generations[f] :
                  /\ Identity(Committed[f][i]) = Identity(generations[f][i])
                  /\ Committed[f][i].available = generations[f][i].available
  <2>1. CASE \E p \in scan.batch : p.file = f
    <3> DEFINE p == CHOOSE q \in scan.batch : q.file = f
    <3>1. p \in Payloads
      BY <2>1 DEF TypeOK
    <3>2. Committed[f] = Imported(f, p)
      BY <2>1 DEF Committed
    <3> HIDE DEF p
    <3> QED BY <3>1, <3>2, ImportedKeeps
  <2>2. CASE ~ \E p \in scan.batch : p.file = f
    <3>1. Committed[f] = generations[f]
      BY <2>2 DEF Committed
    <3>2. generations[f] \in Seq(Generations) /\ Len(generations[f]) \in Nat
      BY DEF TypeOK
    <3> QED BY <3>1, <3>2
  <2> QED BY <2>1, <2>2
<1>2. Committed = [f \in Files |-> Committed[f]]
  BY DEF Committed
<1> QED BY <1>1, <1>2

(* The generations mark_missing leaves. *)
Missing == [f \in Files |-> IF f \in scan.found THEN generations[f] ELSE Flagged(generations[f])]

(* mark_missing keeps every generation in its place. *)
LEMMA MissingKeeps ==
  ASSUME TypeOK
  PROVE  /\ Missing \in [Files -> Seq(Generations)]
         /\ \A f \in Files :
              /\ Len(Missing[f]) = Len(generations[f])
              /\ Len(generations[f]) \in Nat
              /\ \A i \in DOMAIN generations[f] :
                   /\ Identity(Missing[f][i]) = Identity(generations[f][i])
                   /\ Missing[f][i].available => generations[f][i].available
<1>1. ASSUME NEW f \in Files
      PROVE  /\ Missing[f] \in Seq(Generations)
             /\ Len(Missing[f]) = Len(generations[f])
             /\ Len(generations[f]) \in Nat
             /\ \A i \in DOMAIN generations[f] :
                  /\ Identity(Missing[f][i]) = Identity(generations[f][i])
                  /\ Missing[f][i].available => generations[f][i].available
  <2>1. generations[f] \in Seq(Generations)
    BY DEF TypeOK
  <2>2. Missing[f] = IF f \in scan.found THEN generations[f] ELSE Flagged(generations[f])
    BY DEF Missing
  <2> QED BY <2>1, <2>2, FlaggedKeeps
<1>2. Missing = [f \in Files |-> Missing[f]]
  BY DEF Missing
<1> QED BY <1>1, <1>2

(* A step of the world, too. *)
LEMMA WorldTypes ==
  ASSUME TypeOK, UNCHANGED <<generations, saved, revision, report>>,
         told' \in Told, retold' \in BOOLEAN,
         disk' \in [Files -> Data \cup {Absent}], mounted' \subseteq Roots,
         version' \in 0 .. MaxVersion, edits' \in 0 .. MaxEdits, nruns' \in 0 .. MaxRuns,
         scan' \in Scans, UNCHANGED <<wpc, scan>> \/ wpc' = "walk",
         touched' \subseteq Files,
         settled' \in (SUBSET Roots) \cup {Unsettled},
         base' \in [settled : (SUBSET Roots) \cup {Unsettled}, revision : Nat]
  PROVE  TypeOK'
<1>1. wpc' = "sidecar" => \E f \in Files : scan'.reading = {f} /\ scan'.data \in Data
  BY DEF TypeOK
<1>2. wpc' \in {"idle", "walk", "read", "sidecar", "commit", "missing", "projects", "titles", "end"}
  BY DEF TypeOK
<1> QED BY <1>1, <1>2 DEF TypeOK, Scans, Payloads

(* Whatever a step of the import does to its locals and the ledger, what it
   leaves alone keeps its type. *)
LEMMA ImportTypes ==
  ASSUME TypeOK, UNCHANGED <<disk, mounted, version, told, edits, nruns, report, touched, retold, base>>,
         wpc' \in {"idle", "walk", "read", "commit", "missing", "projects", "titles", "end"},
         saved' \in Saved,
         scan' \in Scans, generations' \in [Files -> Seq(Generations)], revision' \in Nat,
         settled' \in (SUBSET Roots) \cup {Unsettled}
  PROVE  TypeOK'
  BY DEF TypeOK, Scans, Payloads

(* The initial state is typed. *)
LEMMA InitTyped == Init => TypeOK
<1> SUFFICES ASSUME Init PROVE TypeOK
  OBVIOUS
<1>1. <<>> \in Seq(Generations)
  OBVIOUS
<1>2. NoScan \in Scans
  BY DEF NoScan, Scans
<1>3. generations \in [Files -> Seq(Generations)]
  BY <1>1 DEF Init
<1>4. report \in [revision : Nat, generations : [Files -> Seq(Generations)], saved : Saved]
  BY <1>1 DEF Init, Saved
<1>5. base \in [settled : (SUBSET Roots) \cup {Unsettled}, revision : Nat]
  BY DEF Init
<1>6. version \in 0 .. MaxVersion /\ edits \in 0 .. MaxEdits /\ nruns \in 0 .. MaxRuns
  BY LedgerConstants DEF Init
<1>7. told \in Told /\ saved \in Saved /\ retold \in BOOLEAN
  BY DEF Init, Told, Saved
<1> QED BY <1>2, <1>3, <1>4, <1>5, <1>6, <1>7 DEF Init, TypeOK, Scans

(* A step of the import keeps the types. *)
LEMMA ImportStepTyped == TypeOK /\ ImportStep => TypeOK'
<1> SUFFICES ASSUME TypeOK, ImportStep PROVE TypeOK'
  OBVIOUS
<1> USE DEF env, ledger, history
<1>1. /\ scan \in Scans /\ generations \in [Files -> Seq(Generations)] /\ revision \in Nat
      /\ saved \in Saved /\ settled \in (SUBSET Roots) \cup {Unsettled}
  BY DEF TypeOK, Scans
<1>2. Failed => scan' \in Scans /\ wpc' = "projects"
  <2>1. [scan EXCEPT !.error = TRUE] \in Scans
    BY <1>1 DEF Scans
  <2> QED BY <2>1 DEF Failed
<1>3. ASSUME WalkRoot PROVE TypeOK'
  <2>1. scan' \in Scans /\ wpc' \in {"walk", "projects"}
    <3>1. CASE Failed
      BY <3>1, <1>2
    <3>2. CASE ~Failed
      <4> DEFINE r == First(scan.towalk)
                 listed == {f \in Under[r] : Readable(f) /\ Listed(f)}
      <4>1. /\ r \in mounted
            /\ scan' = [scan EXCEPT !.towalk = @ \ {r}, !.todo = @ \cup listed]
            /\ wpc' = "walk"
        BY <1>3, <3>2 DEF WalkRoot
      <4>2. listed \in SUBSET Files
        BY <4>1, LedgerConstants DEF TypeOK
      <4> HIDE DEF listed, r
      <4>3. [scan EXCEPT !.towalk = @ \ {r}, !.todo = @ \cup listed] \in Scans
        BY <1>1, <4>2 DEF Scans
      <4> QED BY <4>1, <4>3
    <3> QED BY <3>1, <3>2
  <2> QED BY <1>1, <1>3, <2>1, ImportTypes DEF WalkRoot
<1>4. ASSUME WalkEnd PROVE TypeOK'
  BY <1>1, <1>4, ImportTypes DEF WalkEnd
<1>5. ASSUME ReadFile PROVE TypeOK'
  <2>1. CASE Failed
    BY <1>1, <1>2, <1>5, <2>1, ImportTypes DEF ReadFile
  <2>2. CASE ~Failed
    <3> DEFINE f == First(scan.todo)
    <3>1. /\ Readable(f)
          /\ scan' = [scan EXCEPT !.todo = @ \ {f}, !.reading = {f}, !.data = disk[f]]
          /\ wpc' = "sidecar"
      BY <1>5, <2>2 DEF ReadFile
    <3>2. f \in Files /\ disk[f] \in Data
      BY <3>1, ReadableHasBytes
    <3> HIDE DEF f
    <3>3. [scan EXCEPT !.todo = @ \ {f}, !.reading = {f}, !.data = disk[f]] \in Scans
      BY <1>1, <3>2 DEF Scans
    <3>4. scan'.reading = {f} /\ scan'.data = disk[f]
      BY <1>1, <3>1 DEF Scans
    <3> QED BY <1>5, <3>1, <3>2, <3>3, <3>4 DEF ReadFile, TypeOK, Scans, Payloads
  <2> QED BY <2>1, <2>2
<1>6. ASSUME ReadSidecar, Failed PROVE TypeOK'
  BY <1>1, <1>2, <1>6, ImportTypes DEF ReadSidecar
<1>11. ASSUME ReadSidecar, ~Failed PROVE TypeOK'
  <2>1. PICK f \in scan.reading :
          LET payload == [file |-> f, data |-> scan.data, side |-> Context(f)]
              full == scan.batch \cup (IF Supported(f, scan.data) THEN {payload} ELSE {})
          IN /\ scan' = [scan EXCEPT !.reading = {}, !.data = Absent, !.batch = full]
             /\ wpc' = IF Cardinality(full) = BatchSize THEN "commit" ELSE "read"
    BY <1>11 DEF ReadSidecar
  <2> DEFINE payload == [file |-> f, data |-> scan.data, side |-> Context(f)]
             full == scan.batch \cup (IF Supported(f, scan.data) THEN {payload} ELSE {})
  <2>2. f \in Files /\ scan.data \in Data
    BY <1>11 DEF ReadSidecar, TypeOK
  <2>3. payload \in Payloads
    BY <2>2, ContextTyped DEF Payloads
  <2>4. full \in SUBSET Payloads
    BY <1>1, <2>3 DEF Scans
  <2>5. scan' = [scan EXCEPT !.reading = {}, !.data = Absent, !.batch = full]
        /\ wpc' \in {"commit", "read"}
    BY <2>1
  <2> HIDE DEF full
  <2>6. [scan EXCEPT !.reading = {}, !.data = Absent, !.batch = full] \in Scans
    BY <1>1, <2>4 DEF Scans
  <2> QED BY <1>1, <1>11, <2>5, <2>6, ImportTypes DEF ReadSidecar
<1>7. ASSUME ReadEnd PROVE TypeOK'
  BY <1>1, <1>7, ImportTypes DEF ReadEnd
<1>8. ASSUME Commit PROVE TypeOK'
  <2>1. CASE Failed /\ UNCHANGED <<generations, revision>>
    BY <1>1, <1>2, <1>8, <2>1, ImportTypes DEF Commit
  <2>2. CASE ~(Failed /\ UNCHANGED <<generations, revision>>)
    <3> DEFINE files == {p.file : p \in scan.batch}
    <3>1. /\ generations' = Committed
          /\ revision' = IF generations' = generations THEN revision ELSE revision + 1
          /\ scan' = [scan EXCEPT !.batch = {}, !.found = @ \cup files]
          /\ wpc' = "read"
      BY <1>8, <2>2 DEF Commit, Committed
    <3>2. files \in SUBSET Files
      BY <1>1 DEF Scans, Payloads
    <3> HIDE DEF files
    <3>3. [scan EXCEPT !.batch = {}, !.found = @ \cup files] \in Scans
      BY <1>1, <3>2 DEF Scans
    <3>4. revision' \in Nat
      BY <1>1, <3>1
    <3>5. generations' \in [Files -> Seq(Generations)]
      BY <3>1, CommittedKeeps
    <3> QED BY <1>1, <1>8, <3>1, <3>3, <3>4, <3>5, ImportTypes DEF Commit
  <2> QED BY <2>1, <2>2
<1>9. ASSUME MarkMissing PROVE TypeOK'
  <2>1. scan' \in Scans
    <3>1. [scan EXCEPT !.error = TRUE] \in Scans
      BY <1>1 DEF Scans
    <3> QED BY <1>1, <1>9, <3>1 DEF MarkMissing
  <2>2. generations' \in [Files -> Seq(Generations)] /\ revision' \in Nat
    <3>1. CASE UNCHANGED <<generations, revision>>
      BY <1>1, <3>1
    <3>2. CASE ~UNCHANGED <<generations, revision>>
      <4>1. /\ generations' = Missing
            /\ revision' = IF generations' = generations THEN revision ELSE revision + 1
        BY <1>9, <3>2 DEF MarkMissing, Missing
      <4> QED BY <1>1, <4>1, MissingKeeps
    <3> QED BY <3>1, <3>2
  <2> QED BY <1>1, <1>9, <2>1, <2>2, ImportTypes DEF MarkMissing
<1>10. ASSUME End PROVE TypeOK'
  <2>1. NoScan \in Scans
    BY DEF NoScan, Scans
  <2>2. settled' \in (SUBSET Roots) \cup {Unsettled}
    BY <1>1, <1>10 DEF End, Scans
  <2> QED BY <1>1, <1>10, <2>1, <2>2, ImportTypes DEF End
<1>12. ASSUME NEW n \in Notes, NEW next \in {"titles", "end"}, Save(n, next) PROVE TypeOK'
  <2>1. [scan EXCEPT !.error = TRUE] \in Scans
    BY <1>1 DEF Scans
  <2>2. Learned(n) \in [Files -> Names \cup {Absent}]
    BY DEF Learned, TypeOK, Told, Saved
  <2>3. saved' \in Saved
    BY <1>1, <1>12, <2>2 DEF Save, Saved
  <2>4. scan' \in Scans
    BY <1>1, <1>12, <2>1 DEF Save
  <2>5. revision' \in Nat
    <3>1. revision \in Nat /\ revision' \in {revision, revision + 1}
      BY <1>1, <1>12 DEF Save
    <3> QED BY <3>1
  <2>6. wpc' \in {"titles", "end"}
    BY <1>12 DEF Save
  <2> QED BY <1>1, <1>12, <2>3, <2>4, <2>5, <2>6, ImportTypes DEF Save
<1>13. ASSUME SaveAttributions \/ SaveTitles PROVE TypeOK'
  BY <1>12, <1>13 DEF SaveAttributions, SaveTitles, Notes
<1> QED BY <1>3, <1>4, <1>5, <1>6, <1>7, <1>8, <1>9, <1>10, <1>11, <1>13 DEF ImportStep

(* Every step keeps the types. *)
LEMMA NextTyped == TypeOK /\ [Next]_vars => TypeOK'
<1> SUFFICES ASSUME TypeOK, [Next]_vars PROVE TypeOK'
  OBVIOUS
<1> USE DEF env, ledger, history
<1>0. /\ disk \in [Files -> Data \cup {Absent}] /\ mounted \subseteq Roots
      /\ version \in 0 .. MaxVersion /\ edits \in 0 .. MaxEdits /\ nruns \in 0 .. MaxRuns
      /\ scan \in Scans /\ touched \subseteq Files /\ revision \in Nat
      /\ told \in Told /\ retold \in BOOLEAN
      /\ settled \in (SUBSET Roots) \cup {Unsettled}
      /\ base \in [settled : (SUBSET Roots) \cup {Unsettled}, revision : Nat]
  BY DEF TypeOK, Scans
<1>1. ASSUME NEW f \in Files, Edit(f) PROVE TypeOK'
  <2>1. disk' \in [Files -> Data \cup {Absent}]
    BY <1>1 DEF Edit, TypeOK
  <2>2. Concerned({f}) \subseteq Files
    BY LedgerConstants DEF Concerned
  <2>3. edits' \in 0 .. MaxEdits
    BY <1>1, LedgerConstants DEF Edit, Changed, WorldStep, TypeOK
  <2>4. touched' \subseteq Files
    BY <1>1, <2>2 DEF Edit, Changed, WorldStep, TypeOK
  <2> QED BY <1>0, <1>1, <2>1, <2>3, <2>4, WorldTypes DEF Edit, Changed, WorldStep
<1>2. ASSUME NEW r \in Roots, Mount(r) PROVE TypeOK'
  <2>1. mounted' \subseteq Roots
    BY <1>2 DEF Mount, TypeOK
  <2>2. Concerned(Under[r]) \subseteq Files
    BY LedgerConstants DEF Concerned
  <2>3. edits' \in 0 .. MaxEdits
    BY <1>2, LedgerConstants DEF Mount, Changed, WorldStep, TypeOK
  <2>4. touched' \subseteq Files
    BY <1>2, <2>2 DEF Mount, Changed, WorldStep, TypeOK
  <2> QED BY <1>0, <1>2, <2>1, <2>3, <2>4, WorldTypes DEF Mount, Changed, WorldStep
<1>3. ASSUME NEW roots \in SUBSET Roots, Begin(roots) PROVE TypeOK'
  <2>1. [NoScan EXCEPT !.roots = roots, !.towalk = roots] \in Scans
    BY DEF NoScan, Scans
  <2>2. nruns' \in 0 .. MaxRuns
    BY <1>3, LedgerConstants DEF Begin, TypeOK
  <2>3. base' \in [settled : (SUBSET Roots) \cup {Unsettled}, revision : Nat]
    BY <1>0, <1>3 DEF Begin
  <2> QED BY <1>0, <1>3, <2>1, <2>2, <2>3, WorldTypes DEF Begin
<1>4. ASSUME ImportStep PROVE TypeOK'
  BY <1>4, ImportStepTyped
<1>5. ASSUME Crash PROVE TypeOK'
  <2>1. NoScan \in Scans
    BY DEF NoScan, Scans
  <2> QED BY <1>5, <2>1, ImportTypes DEF Crash, TypeOK
<1>6. ASSUME Upgrade PROVE TypeOK'
  <2>1. version' \in 0 .. MaxVersion
    BY <1>6, LedgerConstants DEF Upgrade, TypeOK
  <2> QED BY <1>0, <1>6, <2>1, WorldTypes DEF Upgrade
<1>7. ASSUME ReadReport PROVE TypeOK'
  BY <1>7 DEF ReadReport, TypeOK, Payloads
<1>8. ASSUME UNCHANGED vars PROVE TypeOK'
  BY <1>8 DEF vars, TypeOK, Payloads
<1>9. ASSUME NEW n \in Notes, Retell(n) PROVE TypeOK'
  <2>1. told' \in Told
    BY <1>0, <1>9 DEF Retell, Told
  <2>2. edits' \in 0 .. MaxEdits
    BY <1>9, LedgerConstants DEF Retell, WorldStep, TypeOK
  <2> QED BY <1>0, <1>9, <2>1, <2>2, WorldTypes DEF Retell, WorldStep
<1> QED BY <1>1, <1>2, <1>3, <1>4, <1>5, <1>6, <1>7, <1>8, <1>9 DEF Next

(* Every variable keeps its type, whatever happens to the files and the runs. *)
THEOREM TypeCorrect == Spec => []TypeOK
  BY InitTyped, NextTyped, PTL DEF Spec

-----------------------------------------------------------------------------
(* What has been imported is kept. *)

(* A step of the ledger is a committed batch, mark_missing, or the saving of
   projects or titles, and moves the revision; any other step leaves it alone. *)
Saving == SaveAttributions \/ SaveTitles
LEMMA LedgerSteps ==
  ASSUME [Next]_vars
  PROVE  \/ UNCHANGED <<generations, saved, revision>>
         \/ /\ Commit /\ generations' = Committed
            /\ revision' = IF generations' = generations THEN revision ELSE revision + 1
            /\ UNCHANGED <<saved, report>>
         \/ /\ MarkMissing /\ generations' = Missing
            /\ revision' = IF generations' = generations THEN revision ELSE revision + 1
            /\ UNCHANGED <<saved, report>>
         \/ /\ Saving
            /\ revision' = IF saved' = saved THEN revision ELSE revision + 1
            /\ UNCHANGED <<generations, report>>
<1> USE DEF ledger
<1>9. CASE Saving
  BY <1>9 DEF Saving, SaveAttributions, SaveTitles, Save
<1>1. CASE Commit
  BY <1>1 DEF Commit, Committed
<1>2. CASE MarkMissing
  BY <1>2 DEF MarkMissing, Missing
<1>3. CASE UNCHANGED ledger
  BY <1>3
<1>4. ASSUME ImportStep, ~Commit, ~MarkMissing, ~Saving PROVE UNCHANGED ledger
  BY <1>4 DEF ImportStep, Saving, WalkRoot, WalkEnd, ReadFile, ReadSidecar, ReadEnd, End
<1>5. ASSUME NEW f \in Files, Edit(f) PROVE UNCHANGED ledger
  BY <1>5 DEF Edit, Changed, WorldStep
<1>6. ASSUME NEW r \in Roots, Mount(r) PROVE UNCHANGED ledger
  BY <1>6 DEF Mount, Changed, WorldStep
<1>7. ASSUME NEW roots \in SUBSET Roots, Begin(roots) PROVE UNCHANGED ledger
  BY <1>7 DEF Begin
<1>8. ASSUME Crash \/ Upgrade \/ ReadReport \/ UNCHANGED vars PROVE UNCHANGED ledger
  BY <1>8 DEF Crash, Upgrade, ReadReport, vars
<1>10. ASSUME NEW n \in Notes, Retell(n) PROVE UNCHANGED ledger
  BY <1>10 DEF Retell, WorldStep
<1> QED BY <1>1, <1>2, <1>3, <1>4, <1>5, <1>6, <1>7, <1>8, <1>9, <1>10 DEF Next

(* Whatever happens to the files, the roots, the runs and the readers, no
   imported generation is lost or altered, and none becomes available again:
   a file that comes back becomes a new generation. *)
THEOREM GenerationsRetained == Spec => Retained
<1>1. TypeOK /\ [Next]_vars =>
        \A f \in Files :
          /\ Len(generations'[f]) \in Len(generations[f]) .. Len(generations[f]) + 1
          /\ \A i \in DOMAIN generations[f] :
               /\ Identity(generations'[f][i]) = Identity(generations[f][i])
               /\ generations'[f][i].available => generations[f][i].available
  <2> SUFFICES ASSUME TypeOK, [Next]_vars, NEW f \in Files
               PROVE  /\ Len(generations'[f]) \in Len(generations[f]) .. Len(generations[f]) + 1
                      /\ \A i \in DOMAIN generations[f] :
                           /\ Identity(generations'[f][i]) = Identity(generations[f][i])
                           /\ generations'[f][i].available => generations[f][i].available
    OBVIOUS
  <2>1. Len(generations[f]) \in Nat
    BY DEF TypeOK
  <2>2. CASE UNCHANGED generations
    BY <2>1, <2>2
  <2>3. CASE generations' = Committed
    BY <2>3, CommittedKeeps
  <2>4. CASE generations' = Missing
    BY <2>1, <2>4, MissingKeeps
  <2> QED BY <2>2, <2>3, <2>4, LedgerSteps
<1> QED BY <1>1, TypeCorrect, PTL DEF Spec, Retained

-----------------------------------------------------------------------------
(* The revision tells ledgers apart. *)

(* A report is of the present revision or of an earlier one. *)
ReportIsOld == /\ revision \in Nat
               /\ report.revision \in Nat
               /\ report.revision <= revision
               /\ SameRevisionSameReport

(* A page that compares revisions misses no change of the ledger: two reports
   of one revision show the same generations, projects and titles. *)
THEOREM RevisionTellsReports == Spec => []SameRevisionSameReport
<1>1. Init => ReportIsOld
  BY DEF Init, ReportIsOld, SameRevisionSameReport
<1>2. ReportIsOld /\ [Next]_vars => ReportIsOld'
  <2> SUFFICES ASSUME ReportIsOld, [Next]_vars PROVE ReportIsOld'
    OBVIOUS
  <2>1. CASE UNCHANGED <<generations, saved, revision, report>>
    BY <2>1 DEF ReportIsOld, SameRevisionSameReport
  <2>2. CASE /\ revision' = IF generations' = generations /\ saved' = saved THEN revision ELSE revision + 1
             /\ UNCHANGED report
    <3>1. CASE generations' = generations /\ saved' = saved
      BY <2>2, <3>1 DEF ReportIsOld, SameRevisionSameReport
    <3>2. CASE ~(generations' = generations /\ saved' = saved)
      <4>1. revision' = revision + 1
        BY <2>2, <3>2
      <4> QED BY <2>2, <4>1 DEF ReportIsOld, SameRevisionSameReport
    <3> QED BY <3>1, <3>2
  <2>3. CASE ReadReport
    BY <2>3 DEF ReadReport, ledger, ReportIsOld, SameRevisionSameReport
  <2>4. UNCHANGED report \/ ReadReport
    <3>1. ImportStep => UNCHANGED report
      BY DEF ImportStep, WalkRoot, WalkEnd, ReadFile, ReadSidecar, ReadEnd, Commit, MarkMissing,
             SaveAttributions, SaveTitles, Save, End
    <3>6. \A n \in Notes : Retell(n) => UNCHANGED report
      BY DEF Retell, WorldStep
    <3>2. \A f \in Files : Edit(f) => UNCHANGED report
      BY DEF Edit, Changed, WorldStep
    <3>3. \A r \in Roots : Mount(r) => UNCHANGED report
      BY DEF Mount, Changed, WorldStep
    <3>4. \A roots \in SUBSET Roots : Begin(roots) => UNCHANGED report
      BY DEF Begin
    <3>5. Crash \/ Upgrade \/ UNCHANGED vars => UNCHANGED report
      BY DEF Crash, Upgrade, vars
    <3> QED BY <3>1, <3>2, <3>3, <3>4, <3>5, <3>6 DEF Next
  <2> QED BY <2>1, <2>2, <2>3, <2>4, LedgerSteps
<1>3. ReportIsOld => SameRevisionSameReport
  BY DEF ReportIsOld
<1> QED BY <1>1, <1>2, <1>3, PTL DEF Spec

-----------------------------------------------------------------------------
(* Nothing is declared missing on the word of an incomplete scan. *)

(* What the import has not looked at yet is accounted for.  Until it ends it
   has met no error; the bytes it holds of an untouched file are its bytes; and
   every untouched file that is there is listed by the roots walked so far,
   then waits to be read, is being read, waits in the batch, or is found. *)
Batched == {p.file : p \in scan.batch}
Importing == wpc \in {"walk", "read", "sidecar", "commit", "missing"}
NothingOverlooked ==
  /\ Importing => ~scan.error
  /\ wpc \in {"read", "commit"} => scan.reading = {}
  /\ wpc = "sidecar" => \A f \in scan.reading \ touched : scan.data = disk[f]
  /\ wpc = "missing" => scan.todo = {} /\ scan.reading = {} /\ scan.batch = {}
  /\ wpc = "walk" => /\ scan.reading = {}
                     /\ \A r \in scan.roots \ scan.towalk : \A f \in Under[r] \ touched :
                          There(f) => f \in scan.todo
  /\ Importing /\ wpc # "walk" => \A f \in Files \ touched :
       There(f) => f \in scan.todo \cup scan.reading \cup Batched \cup scan.found

(* A file the world's step leaves untouched is there as it was. *)
LEMMA UntouchedStays ==
  ASSUME TypeOK, UNCHANGED scan,
         NEW fs, touched' = touched \cup Concerned(fs),
         disk' \in [Files -> Data \cup {Absent}],
         \A g \in Files \ fs : disk'[g] = disk[g],
         NEW f \in Files \ touched'
  PROVE  /\ f \notin touched
         /\ disk'[f] = disk[f]
         /\ There(f)' => There(f)
<1>1. f \notin Concerned(fs)
  OBVIOUS
<1>2. f \notin fs /\ disk'[f] = disk[f]
  BY <1>1 DEF Concerned
<1>3. Listed(f)' => Listed(f)
  <2>1. \A g \in DOMAIN Sidecar : Sidecar[g] = f => g \in Files \ fs
    BY <1>1, LedgerConstants DEF Concerned
  <2> QED BY <2>1 DEF Listed
<1> QED BY <1>2, <1>3 DEF There, Authorized, Supported

(* So nothing is overlooked by a step of the world. *)
LEMMA WorldOverlooksNothing ==
  ASSUME TypeOK, NothingOverlooked, UNCHANGED <<scan, wpc>>,
         NEW fs, touched' = touched \cup Concerned(fs),
         disk' \in [Files -> Data \cup {Absent}],
         \A g \in Files \ fs : disk'[g] = disk[g]
  PROVE  NothingOverlooked'
<1>1. \A f \in Files \ touched' : /\ f \notin touched
                                  /\ disk'[f] = disk[f]
                                  /\ There(f)' => There(f)
  BY UntouchedStays
<1>2. \A r \in scan.roots : Under[r] \subseteq Files
  BY LedgerConstants DEF TypeOK
<1>3. scan.reading \subseteq Files
  BY DEF TypeOK
<1> QED BY <1>1, <1>2, <1>3 DEF NothingOverlooked, Importing, Batched

(* The import overlooks nothing. *)
LEMMA ImportOverlooksNothing ==
  TypeOK /\ NothingOverlooked /\ ImportStep => NothingOverlooked'
<1> SUFFICES ASSUME TypeOK, NothingOverlooked, ImportStep PROVE NothingOverlooked'
  OBVIOUS
<1> USE DEF env, ledger, history
<1>0. /\ scan \in Scans
      /\ UNCHANGED <<disk, touched>>
  BY DEF TypeOK, Scans, ImportStep, WalkRoot, WalkEnd, ReadFile, ReadSidecar, ReadEnd, Commit,
         MarkMissing, SaveAttributions, SaveTitles, Save, End
<1>1. wpc' \in {"projects", "titles", "end", "idle"} => NothingOverlooked'
  BY DEF NothingOverlooked, Importing
<1>2. scan'.roots = scan.roots => \A f : There(f)' <=> There(f)
  BY <1>0 DEF There, Authorized, Listed, Supported
<1>3. ASSUME WalkRoot, wpc' # "projects" PROVE NothingOverlooked'
  <2> DEFINE r == First(scan.towalk)
             listed == {f \in Under[r] : Readable(f) /\ Listed(f)}
  <2>1. /\ wpc = "walk" /\ wpc' = "walk" /\ r \in mounted
        /\ scan' = [scan EXCEPT !.towalk = @ \ {r}, !.todo = @ \cup listed]
    BY <1>3 DEF WalkRoot, Failed
  <2>2. \A f \in Under[r] : There(f) => f \in listed
    BY <2>1 DEF There, Readable
  <2> HIDE DEF r, listed
  <2>3. /\ scan'.roots = scan.roots /\ scan'.reading = scan.reading /\ scan'.error = scan.error
        /\ scan'.towalk = scan.towalk \ {r} /\ scan'.todo = scan.todo \cup listed
    BY <1>0, <2>1 DEF Scans
  <2> QED BY <1>0, <1>2, <2>1, <2>2, <2>3 DEF NothingOverlooked, Importing
<1>4. ASSUME WalkEnd PROVE NothingOverlooked'
  <2>1. /\ wpc = "walk" /\ wpc' = "read" /\ scan.towalk = {} /\ UNCHANGED scan
    BY <1>4 DEF WalkEnd
  <2>2. \A f \in Files \ touched : There(f) => f \in scan.todo
    BY <2>1 DEF NothingOverlooked, There, Authorized
  <2> QED BY <1>0, <1>2, <2>1, <2>2 DEF NothingOverlooked, Importing
<1>5. ASSUME ReadFile, wpc' # "projects" PROVE NothingOverlooked'
  <2> DEFINE g == First(scan.todo)
  <2>1. /\ wpc = "read" /\ wpc' = "sidecar" /\ Readable(g)
        /\ scan' = [scan EXCEPT !.todo = @ \ {g}, !.reading = {g}, !.data = disk[g]]
    BY <1>5 DEF ReadFile, Failed
  <2> HIDE DEF g
  <2>2. /\ scan'.roots = scan.roots /\ scan'.batch = scan.batch /\ scan'.found = scan.found
        /\ scan'.todo = scan.todo \ {g} /\ scan'.reading = {g} /\ scan'.data = disk[g]
        /\ scan'.error = scan.error
    BY <1>0, <2>1 DEF Scans
  <2> QED BY <1>0, <1>2, <2>1, <2>2 DEF NothingOverlooked, Importing, Batched
<1>6. ASSUME ReadSidecar, wpc' # "projects" PROVE NothingOverlooked'
  <2>1. PICK g \in scan.reading :
          LET payload == [file |-> g, data |-> scan.data, side |-> Context(g)]
              full == scan.batch \cup (IF Supported(g, scan.data) THEN {payload} ELSE {})
          IN /\ scan' = [scan EXCEPT !.reading = {}, !.data = Absent, !.batch = full]
             /\ wpc' = IF Cardinality(full) = BatchSize THEN "commit" ELSE "read"
    BY <1>6 DEF ReadSidecar, Failed
  <2> DEFINE payload == [file |-> g, data |-> scan.data, side |-> Context(g)]
             full == scan.batch \cup (IF Supported(g, scan.data) THEN {payload} ELSE {})
  <2>2. /\ scan' = [scan EXCEPT !.reading = {}, !.data = Absent, !.batch = full]
        /\ wpc = "sidecar" /\ wpc' \in {"commit", "read"}
    BY <1>6, <2>1 DEF ReadSidecar
  <2>3. scan.reading = {g}
    BY <2>2 DEF TypeOK
  <2>4. scan.batch \subseteq full /\ (Supported(g, scan.data) => payload \in full)
    OBVIOUS
  <2>5. payload.file = g
    OBVIOUS
  <2> HIDE DEF full, payload
  <2>6. /\ scan'.roots = scan.roots /\ scan'.todo = scan.todo /\ scan'.found = scan.found
        /\ scan'.reading = {} /\ scan'.batch = full /\ scan'.error = scan.error
    BY <1>0, <2>2 DEF Scans
  <2>7. Batched \subseteq Batched' /\ (Supported(g, scan.data) => g \in Batched')
    BY <2>4, <2>5, <2>6 DEF Batched
  <2>8. g \notin touched /\ There(g) => Supported(g, scan.data)
    BY <2>2, <2>3 DEF NothingOverlooked, There
  <2> QED BY <1>0, <1>2, <2>2, <2>3, <2>6, <2>7, <2>8 DEF NothingOverlooked, Importing
<1>7. ASSUME ReadEnd PROVE NothingOverlooked'
  <2>1. /\ wpc = "read" /\ scan.todo = {} /\ UNCHANGED scan
        /\ wpc' = IF scan.batch = {} THEN "missing" ELSE "commit"
    BY <1>7 DEF ReadEnd
  <2> QED BY <1>0, <1>2, <2>1 DEF NothingOverlooked, Importing, Batched
<1>8. ASSUME Commit, wpc' # "projects" PROVE NothingOverlooked'
  <2>1. /\ wpc = "commit" /\ wpc' = "read"
        /\ scan' = [scan EXCEPT !.batch = {}, !.found = @ \cup Batched]
    BY <1>8 DEF Commit, Failed, Batched
  <2>2. /\ scan'.roots = scan.roots /\ scan'.todo = scan.todo /\ scan'.reading = scan.reading
        /\ scan'.found = scan.found \cup Batched /\ scan'.error = scan.error
    BY <1>0, <2>1 DEF Scans
  <2> QED BY <1>0, <1>2, <2>1, <2>2 DEF NothingOverlooked, Importing
<1>9. ASSUME MarkMissing \/ SaveAttributions \/ SaveTitles \/ End PROVE NothingOverlooked'
  BY <1>1, <1>9 DEF MarkMissing, SaveAttributions, SaveTitles, Save, End
<1> QED BY <1>1, <1>3, <1>4, <1>5, <1>6, <1>7, <1>8, <1>9 DEF ImportStep

(* Nothing is ever overlooked. *)
LEMMA OverlooksNothing == Spec => []NothingOverlooked
<1>1. Init => NothingOverlooked
  BY DEF Init, NothingOverlooked, Importing
<1>2. TypeOK /\ TypeOK' /\ NothingOverlooked /\ [Next]_vars => NothingOverlooked'
  <2> SUFFICES ASSUME TypeOK, TypeOK', NothingOverlooked, [Next]_vars PROVE NothingOverlooked'
    OBVIOUS
  <2>0. disk' \in [Files -> Data \cup {Absent}]
    BY DEF TypeOK
  <2>1. ASSUME NEW f \in Files, Edit(f) PROVE NothingOverlooked'
    <3>1. /\ UNCHANGED <<scan, wpc>> /\ touched' = touched \cup Concerned({f})
          /\ \A g \in Files \ {f} : disk'[g] = disk[g]
      BY <2>1 DEF Edit, Changed, WorldStep, TypeOK
    <3> QED BY <2>0, <3>1, WorldOverlooksNothing
  <2>2. ASSUME NEW r \in Roots, Mount(r) PROVE NothingOverlooked'
    <3>1. /\ UNCHANGED <<scan, wpc>> /\ touched' = touched \cup Concerned(Under[r])
          /\ \A g \in Files \ Under[r] : disk'[g] = disk[g]
      BY <2>2 DEF Mount, Changed, WorldStep
    <3> QED BY <2>0, <3>1, WorldOverlooksNothing
  <2>3. ASSUME NEW roots \in SUBSET Roots, Begin(roots) PROVE NothingOverlooked'
    <3>1. /\ wpc' = "walk" /\ scan'.roots = roots /\ scan'.towalk = roots
          /\ scan'.reading = {} /\ ~scan'.error
      BY <2>3 DEF Begin, NoScan
    <3> QED BY <3>1 DEF NothingOverlooked, Importing
  <2>4. CASE ImportStep
    BY <2>4, ImportOverlooksNothing
  <2>5. CASE Crash
    BY <2>5 DEF Crash, NothingOverlooked, Importing
  <2>7. ASSUME NEW n \in Notes, Retell(n) PROVE NothingOverlooked'
    BY <2>7 DEF Retell, WorldStep, NothingOverlooked, Importing, Batched, There, Authorized, Listed, Supported
  <2>6. CASE Upgrade \/ ReadReport \/ UNCHANGED vars
    BY <2>6 DEF Upgrade, ReadReport, vars, env, history, NothingOverlooked, Importing, Batched, There,
                Authorized, Listed, Supported
  <2> QED BY <2>1, <2>2, <2>3, <2>4, <2>5, <2>6, <2>7 DEF Next
<1> QED BY <1>1, <1>2, TypeCorrect, PTL DEF Spec

(* Nothing is declared missing while it is there: whatever cannot be read,
   fails or dies under the run, and whatever is written meanwhile, availability
   is taken only by a scan without error, and only from a file that was touched
   or that the sources do not hold. *)
THEOREM NothingFalselyMissing == Spec => NoFalseMissing
<1>1. TypeOK /\ NothingOverlooked /\ [Next]_vars =>
        \A f \in Files : \A i \in DOMAIN generations[f] :
          generations[f][i].available /\ ~generations'[f][i].available
            => ~scan.error /\ (f \in touched \/ ~There(f))
  <2> SUFFICES ASSUME TypeOK, NothingOverlooked, [Next]_vars,
                      NEW f \in Files, NEW i \in DOMAIN generations[f],
                      generations[f][i].available, ~generations'[f][i].available
               PROVE  ~scan.error /\ (f \in touched \/ ~There(f))
    OBVIOUS
  <2>1. generations' # generations /\ generations' # Committed
    BY CommittedKeeps
  <2>2. MarkMissing /\ generations' = Missing
    BY <2>1, LedgerSteps
  <2>3. f \notin scan.found
    BY <2>2 DEF Missing
  <2>4. wpc = "missing"
    BY <2>2 DEF MarkMissing
  <2> QED BY <2>3, <2>4 DEF NothingOverlooked, Importing, Batched
<1> QED BY <1>1, TypeCorrect, OverlooksNothing, PTL DEF Spec, NoFalseMissing

-----------------------------------------------------------------------------
(* What a run that succeeds shows. *)

(* What sources with these roots offer of a file, and what the ledger displays
   of it, with the roots of any run in place of those of the present one. *)
Offers(roots, f) == /\ Readable(f) /\ Listed(f) /\ Supported(f, disk[f])
                    /\ \E r \in roots : f \in Under[r]
Beside(roots, f) == IF /\ f \in DOMAIN Sidecar /\ Readable(Sidecar[f])
                       /\ \E r \in roots : Sidecar[f] \in Under[r]
                    THEN disk[Sidecar[f]]
                    ELSE Absent
Payload(roots, f) == [file |-> f, data |-> disk[f], side |-> Beside(roots, f)]
Displays(roots, f) ==
  /\ Current(f, Payload(roots, f))
  /\ Kind[f][disk[f]] = "rescanned" => Newest(f).scanned = version

(* What the import holds of a file nobody touched is what the sources hold of
   it: a listed file can be read, a payload is the present bytes with those of
   the sidecar, and a file that was found is displayed. *)
Faithful ==
  wpc # "idle" =>
    /\ scan.towalk \subseteq scan.roots
    /\ \A f \in (scan.todo \cup scan.reading) \ touched :
         Readable(f) /\ Listed(f) /\ \E r \in scan.roots : f \in Under[r]
    /\ \A p \in scan.batch : p.file \notin touched =>
         Offers(scan.roots, p.file) /\ p = Payload(scan.roots, p.file)
    /\ \A f \in scan.found \ touched : Offers(scan.roots, f) /\ Displays(scan.roots, f)

(* These are the words of Complete. *)
Words(f) == /\ Imports(f) <=> Offers(scan.roots, f)
            /\ Shows(f) <=> Displays(scan.roots, f)
            /\ Context(f) = Beside(scan.roots, f)
LEMMA CompleteWords ==
  ASSUME NEW f
  PROVE  Words(f) /\ Words(f)'
<1>1. Imports(f) <=> Offers(scan.roots, f)
  BY DEF Imports, Offers, Authorized
<1>2. Context(f) = Beside(scan.roots, f)
  BY DEF Context, Beside, Authorized
<1>3. Shows(f) <=> Displays(scan.roots, f)
  BY <1>2 DEF Shows, Displays, Payload, Current, SamePayload
<1>4. Words(f)
  BY <1>1, <1>2, <1>3 DEF Words
<1> QED BY <1>4, PTL

(* Only a file concerned by a step of the world is offered differently. *)
WorldMoves(fs) == /\ disk' \in [Files -> Data \cup {Absent}]
                  /\ mounted \subseteq Roots /\ mounted' \subseteq Roots
                  /\ \A g \in Files \ fs : disk'[g] = disk[g]
                  /\ \A r \in Roots : \A g \in Under[r] \ fs : r \in mounted' <=> r \in mounted
                  /\ touched' = touched \cup Concerned(fs)
                  /\ UNCHANGED <<version, told, retold, generations, saved, revision>>

LEMMA UnconcernedStay ==
  ASSUME TypeOK, NEW fs, WorldMoves(fs), NEW f \in Files \ Concerned(fs), NEW roots
  PROVE  /\ disk'[f] = disk[f]
         /\ Readable(f)' <=> Readable(f)
         /\ Listed(f)' <=> Listed(f)
         /\ Offers(roots, f)' <=> Offers(roots, f)
         /\ Payload(roots, f)' = Payload(roots, f)
         /\ Displays(roots, f)' <=> Displays(roots, f)
<1>1. f \notin fs /\ disk'[f] = disk[f]
  BY DEF Concerned, WorldMoves
<1>2. \A g \in Files \ fs : Readable(g)' <=> Readable(g)
  BY DEF WorldMoves, Readable
<1>3. Listed(f)' <=> Listed(f)
  <2>1. \A g \in DOMAIN Sidecar : Sidecar[g] = f => g \in Files \ fs
    BY LedgerConstants DEF Concerned
  <2> QED BY <2>1 DEF Listed, WorldMoves
<1>4. Offers(roots, f)' <=> Offers(roots, f)
  BY <1>1, <1>2, <1>3 DEF Offers, Supported
<1>5. Beside(roots, f)' = Beside(roots, f)
  <2>1. CASE f \in DOMAIN Sidecar
    <3>1. Sidecar[f] \in Files \ fs
      BY <2>1, LedgerConstants DEF Concerned
    <3>2. disk'[Sidecar[f]] = disk[Sidecar[f]] /\ (Readable(Sidecar[f])' <=> Readable(Sidecar[f]))
      BY <3>1, <1>2 DEF WorldMoves
    <3> QED BY <3>2 DEF Beside
  <2>2. CASE f \notin DOMAIN Sidecar
    BY <2>2 DEF Beside
  <2> QED BY <2>1, <2>2
<1>6. Payload(roots, f)' = Payload(roots, f)
  BY <1>1, <1>5 DEF Payload
<1>7. UNCHANGED <<version, generations>>
  BY DEF WorldMoves
<1>8. Displays(roots, f)' <=> Displays(roots, f)
  BY <1>1, <1>6, <1>7 DEF Displays, Current, Known, Newest, SamePayload, Payload
<1> QED BY <1>1, <1>2, <1>3, <1>4, <1>6, <1>8

(* Edit and Mount are such steps. *)
LEMMA WorldSteps ==
  ASSUME TypeOK, TypeOK'
  PROVE  /\ \A f \in Files : Edit(f) => WorldMoves({f}) /\ UNCHANGED <<wpc, scan, base>>
         /\ \A r \in Roots : Mount(r) => WorldMoves(Under[r]) /\ UNCHANGED <<wpc, scan, base>>
<1> USE DEF ledger
<1>1. ASSUME NEW f \in Files, Edit(f)
      PROVE  WorldMoves({f}) /\ UNCHANGED <<wpc, scan, base>>
  <2>1. \A g \in Files \ {f} : disk'[g] = disk[g]
    BY <1>1 DEF Edit, TypeOK
  <2> QED BY <1>1, <2>1 DEF Edit, Changed, WorldStep, WorldMoves, TypeOK
<1>2. ASSUME NEW r \in Roots, Mount(r)
      PROVE  WorldMoves(Under[r]) /\ UNCHANGED <<wpc, scan, base>>
  <2>1. \A s \in Roots : s # r => (s \in mounted' <=> s \in mounted)
    BY <1>2 DEF Mount
  <2>2. \A s \in Roots : \A g \in Under[s] \ Under[r] : s \in mounted' <=> s \in mounted
    BY <2>1
  <2> QED BY <1>2, <2>2 DEF Mount, Changed, WorldStep, WorldMoves, TypeOK
<1> QED BY <1>1, <1>2

(* What was imported is displayed. *)
LEMMA ImportedDisplays ==
  ASSUME TypeOK, UNCHANGED <<disk, mounted, version>>, NEW roots, NEW f \in Files,
         generations' \in [Files -> Seq(Generations)],
         Offers(roots, f),
         generations'[f] = Imported(f, Payload(roots, f))
  PROVE  Displays(roots, f)'
<1> DEFINE p == Payload(roots, f)
           gs == generations[f]
           n == Len(gs)
<1>1. /\ gs \in Seq(Generations) /\ n \in Nat /\ version \in Nat
      /\ p.data = disk[f] /\ disk[f] \in Data /\ p.side \in Data \cup {Absent}
      /\ p = [data |-> disk[f], side |-> p.side, file |-> f]
  <2>1. disk[f] \in Data
    BY ReadableHasBytes DEF Offers
  <2>2. Beside(roots, f) \in Data \cup {Absent}
    <3>1. CASE Readable(Sidecar[f])
      BY <3>1, ReadableHasBytes DEF Beside
    <3>2. CASE ~Readable(Sidecar[f])
      BY <3>2 DEF Beside
    <3> QED BY <3>1, <3>2
  <2> QED BY <2>1, <2>2, LedgerConstants DEF TypeOK, Payload
<1>2. Payload(roots, f)' = p
  BY DEF Payload, Beside, Readable
<1>3. CASE ~Current(f, p)
  <2>1. Fresh(p) \in Generations
    BY <1>1 DEF Fresh, Generations
  <2>2. generations'[f] = Append(gs, Fresh(p))
    BY <1>3 DEF Imported
  <2> HIDE DEF gs
  <2>3. generations'[f] # <<>> /\ generations'[f][Len(generations'[f])] = Fresh(p)
    BY <1>1, <2>1, <2>2
  <2>4. Known(f)' /\ Newest(f)' = Fresh(p)
    BY <2>3 DEF Known, Newest
  <2> QED BY <1>1, <1>2, <2>4 DEF Displays, Current, SamePayload, Fresh
<1>4. CASE Current(f, p)
  <2>1. gs # <<>> /\ n \in 1 .. n /\ gs[n] \in Generations
    BY <1>1, <1>4 DEF Current, Known
  <2>2. CASE Kind[f][disk[f]] = "rescanned"
    <3> DEFINE r == [gs[n] EXCEPT !.scanned = version]
    <3>1. generations'[f] = [gs EXCEPT ![n] = r]
      BY <1>1, <1>4, <2>2 DEF Imported
    <3>2. /\ r \in Generations /\ r.data = gs[n].data /\ r.side = gs[n].side
          /\ r.available = gs[n].available /\ r.profile = gs[n].profile /\ r.scanned = version
      BY <1>1, <2>1 DEF Generations
    <3>3. /\ SamePayload(gs[n], p) /\ gs[n].available
          /\ Kind[f][p.data] = "reprojected" => gs[n].profile = version
      BY <1>4 DEF Current, Newest
    <3> HIDE DEF gs, r
    <3>4. generations'[f] # <<>> /\ generations'[f][Len(generations'[f])] = r
      BY <1>1, <2>1, <3>1, <3>2
    <3>5. Known(f)' /\ Newest(f)' = r
      BY <3>4 DEF Known, Newest
    <3>6. SamePayload(r, p)
      BY <3>2, <3>3 DEF SamePayload
    <3> QED BY <1>1, <1>2, <3>2, <3>3, <3>5, <3>6 DEF Displays, Current, SamePayload
  <2>3. CASE Kind[f][disk[f]] # "rescanned"
    <3>1. generations'[f] = generations[f]
      BY <1>1, <1>4, <2>3 DEF Imported
    <3> QED BY <1>1, <1>2, <1>4, <2>3, <3>1 DEF Displays, Current, Known, Newest, SamePayload
  <2> QED BY <2>2, <2>3
<1> QED BY <1>3, <1>4

(* A file is offered and displayed as long as the sources, the program and its
   generations stay. *)
LEMMA StaysDisplayed ==
  ASSUME UNCHANGED <<disk, mounted, version>>, NEW roots, NEW f
  PROVE  /\ Offers(roots, f)' <=> Offers(roots, f)
         /\ Payload(roots, f)' = Payload(roots, f)
         /\ Readable(f)' <=> Readable(f)
         /\ Listed(f)' <=> Listed(f)
         /\ generations'[f] = generations[f] => (Displays(roots, f)' <=> Displays(roots, f))
<1>1. Readable(f)' <=> Readable(f)
  BY DEF Readable
<1>2. Listed(f)' <=> Listed(f)
  BY DEF Listed
<1>3. Offers(roots, f)' <=> Offers(roots, f)
  BY <1>1, <1>2 DEF Offers, Supported
<1>4. Payload(roots, f)' = Payload(roots, f)
  BY DEF Payload, Beside, Readable
<1>5. generations'[f] = generations[f] => (Displays(roots, f)' <=> Displays(roots, f))
  BY <1>4 DEF Displays, Current, Known, Newest, SamePayload
<1> QED BY <1>1, <1>2, <1>3, <1>4, <1>5

(* A step of the world leaves what the import holds of the files it does not
   concern. *)
LEMMA WorldStaysFaithful ==
  ASSUME TypeOK, Faithful, NEW fs, WorldMoves(fs), UNCHANGED <<wpc, scan>>
  PROVE  Faithful'
<1>1. \A f \in Files \ touched' : f \in Files \ Concerned(fs) /\ f \notin touched
  BY DEF WorldMoves
<1>2. /\ scan.todo \cup scan.reading \cup scan.found \subseteq Files
      /\ \A p \in scan.batch : p.file \in Files
  BY DEF TypeOK, Payloads
<1>3. SUFFICES ASSUME wpc # "idle" PROVE Faithful'
  BY DEF Faithful
<1>4. \A f \in (scan.todo \cup scan.reading) \ touched' :
        Readable(f)' /\ Listed(f)' /\ \E r \in scan.roots : f \in Under[r]
  BY <1>1, <1>2, <1>3, UnconcernedStay DEF Faithful
<1>5. ASSUME NEW p \in scan.batch, p.file \notin touched'
      PROVE  Offers(scan.roots, p.file)' /\ p = Payload(scan.roots, p.file)'
  <2>1. p.file \in Files \ Concerned(fs) /\ p.file \notin touched
    BY <1>1, <1>2, <1>5
  <2>2. Offers(scan.roots, p.file) /\ p = Payload(scan.roots, p.file)
    BY <1>3, <2>1 DEF Faithful
  <2> QED BY <2>1, <2>2, UnconcernedStay
<1>6. ASSUME NEW f \in scan.found \ touched'
      PROVE  Offers(scan.roots, f)' /\ Displays(scan.roots, f)'
  <2>1. f \in Files \ Concerned(fs) /\ f \notin touched
    BY <1>1, <1>2, <1>6
  <2>2. Offers(scan.roots, f) /\ Displays(scan.roots, f)
    BY <1>3, <1>6, <2>1 DEF Faithful
  <2> QED BY <2>1, <2>2, UnconcernedStay
<1> QED BY <1>4, <1>5, <1>6 DEF Faithful

(* Neither do the steps of the import. *)
LEMMA ImportStaysFaithful ==
  ASSUME TypeOK, TypeOK', NothingOverlooked, Faithful, ImportStep
  PROVE  Faithful'
<1> USE DEF env, ledger, history
<1>0. /\ scan \in Scans
      /\ UNCHANGED <<disk, mounted, version, touched>>
      /\ wpc # "idle"
  BY DEF TypeOK, Scans, ImportStep, WalkRoot, WalkEnd, ReadFile, ReadSidecar, ReadEnd, Commit,
         MarkMissing, SaveAttributions, SaveTitles, Save, End
<1>a. \A roots, f : /\ Offers(roots, f)' <=> Offers(roots, f)
                    /\ Payload(roots, f)' = Payload(roots, f)
                    /\ Readable(f)' <=> Readable(f)
                    /\ Listed(f)' <=> Listed(f)
                    /\ generations'[f] = generations[f] => (Displays(roots, f)' <=> Displays(roots, f))
  BY <1>0, StaysDisplayed
<1>b. ASSUME UNCHANGED <<scan, generations>> PROVE Faithful'
  BY <1>0, <1>a, <1>b DEF Faithful
<1>c. ASSUME scan' = [scan EXCEPT !.error = TRUE], UNCHANGED generations PROVE Faithful'
  <2>1. /\ scan'.roots = scan.roots /\ scan'.towalk = scan.towalk /\ scan'.todo = scan.todo /\ scan'.reading = scan.reading
        /\ scan'.batch = scan.batch /\ scan'.found = scan.found
    BY <1>0, <1>c DEF Scans
  <2> QED BY <1>0, <1>a, <1>c, <2>1 DEF Faithful
<1>1. ASSUME WalkRoot, ~Failed PROVE Faithful'
  <2> DEFINE r == First(scan.towalk)
             listed == {f \in Under[r] : Readable(f) /\ Listed(f)}
  <2>1. /\ wpc = "walk" /\ UNCHANGED <<wpc, generations>> /\ scan.towalk # {} /\ r \in mounted
        /\ scan' = [scan EXCEPT !.towalk = @ \ {r}, !.todo = @ \cup listed]
    BY <1>1 DEF WalkRoot
  <2>2. \A f \in listed : Readable(f) /\ Listed(f) /\ f \in Under[r]
    OBVIOUS
  <2> HIDE DEF listed, r
  <2>3. /\ scan'.roots = scan.roots /\ scan'.todo = scan.todo \cup listed
        /\ scan'.reading = scan.reading /\ scan'.batch = scan.batch /\ scan'.found = scan.found
        /\ scan'.towalk = scan.towalk \ {r}
    BY <1>0, <2>1 DEF Scans
  <2>4. r \in scan.roots
    <3>1. scan.towalk \subseteq Nat
      BY <1>0, LedgerConstants DEF Scans
    <3>2. First(scan.towalk) \in scan.towalk
      BY <2>1, <3>1, FirstIsLeast
    <3> QED BY <1>0, <3>2 DEF Faithful, r
  <2> QED BY <1>0, <1>a, <2>1, <2>2, <2>3, <2>4 DEF Faithful
<1>2. ASSUME WalkEnd \/ ReadEnd PROVE Faithful'
  BY <1>2, <1>b DEF WalkEnd, ReadEnd
<1>3. ASSUME ReadFile, ~Failed PROVE Faithful'
  <2> DEFINE g == First(scan.todo)
  <2>1. /\ scan' = [scan EXCEPT !.todo = @ \ {g}, !.reading = {g}, !.data = disk[g]]
        /\ scan.todo # {} /\ UNCHANGED generations
    BY <1>3 DEF ReadFile
  <2>2. g \in scan.todo
    <3>1. scan.todo \subseteq Nat
      BY <1>0, LedgerConstants DEF Scans
    <3> QED BY <2>1, <3>1, FirstIsLeast
  <2> HIDE DEF g
  <2>3. /\ scan'.roots = scan.roots /\ scan'.towalk = scan.towalk /\ scan'.todo = scan.todo \ {g}
        /\ scan'.reading = {g} /\ scan'.batch = scan.batch /\ scan'.found = scan.found
    BY <1>0, <2>1 DEF Scans
  <2> QED BY <1>0, <1>a, <2>1, <2>2, <2>3 DEF Faithful
<1>4. ASSUME ReadSidecar, ~Failed PROVE Faithful'
  <2>1. PICK g \in scan.reading :
          LET payload == [file |-> g, data |-> scan.data, side |-> Context(g)]
              full == scan.batch \cup (IF Supported(g, scan.data) THEN {payload} ELSE {})
          IN scan' = [scan EXCEPT !.reading = {}, !.data = Absent, !.batch = full]
    BY <1>4 DEF ReadSidecar
  <2> DEFINE payload == [file |-> g, data |-> scan.data, side |-> Context(g)]
             full == scan.batch \cup (IF Supported(g, scan.data) THEN {payload} ELSE {})
  <2>2. scan' = [scan EXCEPT !.reading = {}, !.data = Absent, !.batch = full]
        /\ wpc = "sidecar" /\ UNCHANGED generations
    BY <1>4, <2>1 DEF ReadSidecar
  <2>3. payload.file = g /\ full \subseteq scan.batch \cup {payload}
        /\ (payload \notin scan.batch /\ payload \in full => Supported(g, scan.data))
    OBVIOUS
  <2>4. g \notin touched => payload = Payload(scan.roots, g)
    BY <2>2, CompleteWords DEF Words, NothingOverlooked, Payload
  <2> HIDE DEF full, payload
  <2>5. /\ scan'.roots = scan.roots /\ scan'.towalk = scan.towalk /\ scan'.todo = scan.todo
        /\ scan'.reading = {} /\ scan'.batch = full /\ scan'.found = scan.found
    BY <1>0, <2>2 DEF Scans
  <2>6. ASSUME payload \in full, payload \notin scan.batch, g \notin touched
        PROVE  Offers(scan.roots, g)
    <3>1. Supported(g, disk[g])
      BY <2>2, <2>3, <2>6 DEF NothingOverlooked
    <3> QED BY <1>0, <2>6, <3>1 DEF Faithful, Offers
  <2> QED BY <1>0, <1>a, <2>2, <2>3, <2>4, <2>5, <2>6 DEF Faithful
<1>5. ASSUME Commit, ~Failed PROVE Faithful'
  <2>1. /\ generations' = Committed
        /\ scan' = [scan EXCEPT !.batch = {}, !.found = @ \cup Batched]
    BY <1>5 DEF Commit, Committed, Batched
  <2>2. /\ scan'.roots = scan.roots /\ scan'.towalk = scan.towalk /\ scan'.todo = scan.todo /\ scan'.reading = scan.reading
        /\ scan'.batch = {} /\ scan'.found = scan.found \cup Batched
    BY <1>0, <2>1 DEF Scans
  <2>3. ASSUME NEW f \in (scan.found \cup Batched) \ touched
        PROVE  Offers(scan.roots, f) /\ Displays(scan.roots, f)'
    <3>1. f \in Files
      BY <1>0, <2>3 DEF Batched, Scans, Payloads
    <3>2. CASE f \in Batched
      <4> DEFINE p == CHOOSE q \in scan.batch : q.file = f
      <4>1. p \in scan.batch /\ p.file = f
        BY <3>2 DEF Batched
      <4>2. generations'[f] = Imported(f, p)
        BY <2>1, <3>1, <3>2 DEF Committed, Batched
      <4>3. Offers(scan.roots, f) /\ p = Payload(scan.roots, f)
        BY <1>0, <2>3, <4>1 DEF Faithful
      <4> HIDE DEF p
      <4>4. generations' \in [Files -> Seq(Generations)]
        BY <2>1, CommittedKeeps
      <4>5. generations'[f] = Imported(f, Payload(scan.roots, f))
        BY <4>2, <4>3
      <4> DEFINE R == scan.roots
      <4>6. Displays(scan.roots, f)'
        BY <1>0, <2>2, <3>1, <4>3, <4>4, <4>5, ImportedDisplays
      <4> QED BY <4>3, <4>6
    <3>3. CASE f \notin Batched
      <4>1. generations'[f] = generations[f]
        BY <2>1, <3>1, <3>3 DEF Committed, Batched
      <4>2. Offers(scan.roots, f) /\ Displays(scan.roots, f)
        BY <1>0, <2>3, <3>3 DEF Faithful
      <4> QED BY <1>a, <2>2, <4>1, <4>2
    <3> QED BY <3>2, <3>3
  <2> QED BY <1>0, <1>a, <2>2, <2>3 DEF Faithful
<1>6. ASSUME MarkMissing, UNCHANGED scan PROVE Faithful'
  <2>1. generations' = Missing \/ UNCHANGED generations
    BY <1>6 DEF MarkMissing, Missing
  <2>2. \A f \in scan.found : generations'[f] = generations[f]
    BY <1>0, <2>1 DEF Missing, Scans
  <2> QED BY <1>0, <1>a, <1>6, <2>2 DEF Faithful
<1>7. ASSUME End PROVE Faithful'
  BY <1>7 DEF End, Faithful
<1>10. ASSUME SaveAttributions \/ SaveTitles PROVE Faithful'
  <2>1. UNCHANGED generations /\ (UNCHANGED scan \/ scan' = [scan EXCEPT !.error = TRUE])
    BY <1>10 DEF SaveAttributions, SaveTitles, Save
  <2> QED BY <1>b, <1>c, <2>1
<1>8. ASSUME WalkRoot \/ ReadFile \/ ReadSidecar \/ Commit, Failed PROVE Faithful'
  <2>1. UNCHANGED generations
    BY <1>8 DEF WalkRoot, ReadFile, ReadSidecar, Commit, Failed
  <2> QED BY <1>c, <1>8, <2>1 DEF Failed
<1>9. ASSUME MarkMissing, ~UNCHANGED scan PROVE Faithful'
  BY <1>c, <1>9 DEF MarkMissing
<1> QED BY <1>1, <1>2, <1>3, <1>4, <1>5, <1>6, <1>7, <1>8, <1>9, <1>10 DEF ImportStep

(* A generation flagged missing is not available. *)
LEMMA FlaggedHides ==
  ASSUME TypeOK, NEW f \in Files, generations'[f] = Flagged(generations[f])
  PROVE  Hides(f)'
<1>1. generations[f] \in Seq(Generations)
  BY DEF TypeOK
<1>2. DOMAIN Flagged(generations[f]) = DOMAIN generations[f]
  BY DEF Flagged
<1> QED BY <1>1, <1>2, FlaggedKeeps DEF Hides

(* mark_missing completes a run: what it does not find is not offered. *)
LEMMA MarkingCompletes ==
  ASSUME TypeOK, NothingOverlooked, Faithful, MarkMissing, UNCHANGED scan,
         generations' = Missing,
         NEW f \in Files \ touched
  PROVE  IF Offers(scan.roots, f) THEN Displays(scan.roots, f)' ELSE Hides(f)'
<1>1. wpc = "missing" /\ UNCHANGED <<disk, mounted, version>>
  BY DEF MarkMissing, env
<1>2. CASE f \in scan.found
  <2>1. generations'[f] = generations[f]
    BY <1>2 DEF Missing
  <2>2. Offers(scan.roots, f) /\ Displays(scan.roots, f)
    BY <1>1, <1>2 DEF Faithful
  <2> QED BY <1>1, <2>1, <2>2, StaysDisplayed
<1>3. CASE f \notin scan.found
  <2>1. generations'[f] = Flagged(generations[f])
    BY <1>3 DEF Missing
  <2>2. Hides(f)'
    BY <2>1, FlaggedHides
  <2>3. ~There(f)
    BY <1>1, <1>3 DEF NothingOverlooked, Importing, Batched
  <2>4. ~Offers(scan.roots, f)
    BY <2>3 DEF There, Offers, Readable, Authorized
  <2> QED BY <2>2, <2>4
<1> QED BY <1>2, <1>3

(* Every step leaves a run that succeeds complete. *)
LEMMA CompleteStep ==
  ASSUME TypeOK, TypeOK', NothingOverlooked, Faithful, Complete, [Next]_vars
  PROVE  Complete'
<1> USE DEF env, ledger, history
<1>1. ASSUME NEW fs, WorldMoves(fs), UNCHANGED <<wpc, scan>> PROVE Complete'
  <2> SUFFICES ASSUME Succeeds, NEW f \in Files \ touched'
               PROVE  IF Imports(f)' THEN Shows(f)' ELSE Hides(f)'
    BY <1>1 DEF Complete, Succeeds
  <2>1. f \in Files \ Concerned(fs) /\ f \notin touched
    BY <1>1 DEF WorldMoves
  <2>2. IF Offers(scan.roots, f) THEN Displays(scan.roots, f) ELSE Hides(f)
    BY <2>1, CompleteWords DEF Words, Complete
  <2>3. /\ Offers(scan.roots, f)' <=> Offers(scan.roots, f)
        /\ Displays(scan.roots, f)' <=> Displays(scan.roots, f)
    BY <1>1, <2>1, UnconcernedStay
  <2>4. Hides(f)' <=> Hides(f)
    BY <1>1 DEF WorldMoves, Hides
  <2>5. (Imports(f)' <=> Offers(scan.roots, f)') /\ (Shows(f)' <=> Displays(scan.roots, f)')
    BY <1>1, CompleteWords DEF Words
  <2> QED BY <2>2, <2>3, <2>4, <2>5
<1>2. ASSUME NEW f \in Files, Edit(f) PROVE Complete'
  BY <1>1, <1>2, WorldSteps
<1>3. ASSUME NEW r \in Roots, Mount(r) PROVE Complete'
  BY <1>1, <1>3, WorldSteps
<1>4. ASSUME wpc' \notin {"projects", "titles", "end"} PROVE Complete'
  BY <1>4 DEF Complete, Succeeds
<1>5. ASSUME MarkMissing PROVE Complete'
  <2>1. CASE scan' = [scan EXCEPT !.error = TRUE]
    <3>1. scan'.error
      BY <2>1 DEF TypeOK
    <3> QED BY <3>1 DEF Complete, Succeeds
  <2>2. CASE UNCHANGED scan /\ generations' = Missing
    <3> SUFFICES ASSUME NEW f \in Files \ touched
                 PROVE  IF Imports(f)' THEN Shows(f)' ELSE Hides(f)'
      BY <1>5 DEF Complete, Succeeds, MarkMissing
    <3>1. IF Offers(scan.roots, f) THEN Displays(scan.roots, f)' ELSE Hides(f)'
      BY <1>5, <2>2, MarkingCompletes
    <3>2. Offers(scan.roots, f)' <=> Offers(scan.roots, f)
      BY <1>5, <2>2, StaysDisplayed DEF MarkMissing
    <3>3. (Imports(f)' <=> Offers(scan.roots, f)') /\ (Shows(f)' <=> Displays(scan.roots, f)')
      BY <2>2, CompleteWords DEF Words
    <3> QED BY <3>1, <3>2, <3>3
  <2> QED BY <1>5, <2>1, <2>2 DEF MarkMissing, Missing
<1>6. ASSUME Failed PROVE Complete'
  <2>1. scan'.error
    BY <1>6 DEF Failed, TypeOK
  <2> QED BY <2>1 DEF Complete, Succeeds
<1>7. ASSUME ImportStep, ~Failed, ~MarkMissing, ~Saving PROVE wpc' \notin {"projects", "titles", "end"}
  BY <1>7 DEF ImportStep, Saving, WalkRoot, WalkEnd, ReadFile, ReadSidecar, ReadEnd, Commit, End
<1>8. ASSUME NEW roots \in SUBSET Roots, Begin(roots) PROVE wpc' = "walk"
  BY <1>8 DEF Begin
<1>9. ASSUME Crash \/ Upgrade PROVE wpc' = "idle"
  BY <1>9 DEF Crash, Upgrade
<1>10. ASSUME UNCHANGED <<disk, mounted, version, generations, scan, touched>>,
              wpc' \in {"projects", "titles", "end"} => wpc \in {"projects", "titles", "end"}
       PROVE  Complete'
  BY <1>10 DEF Complete, Succeeds, Imports, Shows, Hides, Known, Newest, Context, Readable,
               Authorized, Listed, Supported
<1>11. ASSUME ReadReport \/ UNCHANGED vars PROVE Complete'
  BY <1>10, <1>11 DEF ReadReport, vars
<1>12. ASSUME NEW n \in Notes, Retell(n) PROVE Complete'
  BY <1>10, <1>12 DEF Retell, WorldStep
<1>13. ASSUME Saving PROVE Complete'
  <2>1. /\ wpc \in {"projects", "titles"} /\ UNCHANGED <<disk, mounted, version, generations, touched>>
        /\ UNCHANGED scan \/ scan' = [scan EXCEPT !.error = TRUE]
    BY <1>13 DEF Saving, SaveAttributions, SaveTitles, Save
  <2>2. CASE UNCHANGED scan
    BY <1>10, <2>1, <2>2
  <2>3. CASE scan' = [scan EXCEPT !.error = TRUE]
    <3>1. scan'.error
      BY <2>3 DEF TypeOK
    <3> QED BY <3>1 DEF Complete, Succeeds
  <2> QED BY <2>1, <2>2, <2>3
<1> QED BY <1>2, <1>3, <1>4, <1>5, <1>6, <1>7, <1>8, <1>9, <1>11, <1>12, <1>13 DEF Next

(* The import is always faithful to the files nobody touched. *)
LEMMA FaithfulAlways == Spec => []Faithful
<1>1. Init => Faithful
  BY DEF Init, Faithful
<1>2. TypeOK /\ TypeOK' /\ NothingOverlooked /\ Faithful /\ [Next]_vars => Faithful'
  <2> SUFFICES ASSUME TypeOK, TypeOK', NothingOverlooked, Faithful, [Next]_vars PROVE Faithful'
    OBVIOUS
  <2> USE DEF env, ledger, history
  <2>1. ASSUME NEW f \in Files, Edit(f) PROVE Faithful'
    BY <2>1, WorldSteps, WorldStaysFaithful
  <2>2. ASSUME NEW r \in Roots, Mount(r) PROVE Faithful'
    BY <2>2, WorldSteps, WorldStaysFaithful
  <2>3. ASSUME NEW roots \in SUBSET Roots, Begin(roots) PROVE Faithful'
    <3>1. /\ scan'.roots = roots /\ scan'.towalk = roots /\ scan'.todo = {}
          /\ scan'.reading = {} /\ scan'.batch = {} /\ scan'.found = {}
      BY <2>3 DEF Begin, NoScan
    <3> QED BY <3>1 DEF Faithful
  <2>4. CASE ImportStep
    BY <2>4, ImportStaysFaithful
  <2>5. CASE Crash \/ Upgrade
    BY <2>5 DEF Crash, Upgrade, Faithful
  <2>7. ASSUME NEW n \in Notes, Retell(n) PROVE Faithful'
    <3>1. UNCHANGED <<disk, mounted, version, generations, wpc, scan, touched>>
      BY <2>7 DEF Retell, WorldStep
    <3> QED BY <3>1, StaysDisplayed DEF Faithful
  <2>6. CASE ReadReport \/ UNCHANGED vars
    <3>1. UNCHANGED <<disk, mounted, version, generations, wpc, scan, touched>>
      BY <2>6 DEF ReadReport, vars
    <3> QED BY <3>1, StaysDisplayed DEF Faithful
  <2> QED BY <2>1, <2>2, <2>3, <2>4, <2>5, <2>6, <2>7 DEF Next
<1> QED BY <1>1, <1>2, TypeCorrect, OverlooksNothing, PTL DEF Spec

(* Whatever earlier runs missed, a run that succeeds leaves the ledger showing
   every file nobody touched meanwhile as it is, and hiding what the sources do
   not hold. *)
THEOREM RunsShowTheFiles == Spec => []Complete
<1>1. Init => Complete
  BY DEF Init, Complete, Succeeds
<1> QED BY <1>1, CompleteStep, TypeCorrect, OverlooksNothing, FaithfulAlways, PTL DEF Spec

-----------------------------------------------------------------------------
(* Importing again. *)

(* What a run that succeeded showed stays shown, as long as files, roots,
   program, and what git and Codex tell, stay, through every run over the same
   roots; such a run moves the revision no further. *)
Noted(n) == saved[n] = Learned(n)
UpToDate(roots) ==
  /\ \A f \in Files : IF Offers(roots, f) THEN Displays(roots, f) ELSE Hides(f)
  /\ \A n \in Notes : Noted(n)
Quiet == base.settled = scan.roots /\ touched = {} /\ ~retold
SettledIsShown ==
  /\ wpc = "idle" /\ settled # Unsettled => UpToDate(settled)
  /\ wpc # "idle" /\ settled # Unsettled => Quiet /\ settled = scan.roots
  /\ wpc # "idle" /\ Quiet => UpToDate(scan.roots) /\ revision = base.revision

(* It stays so while the ledger does. *)
LEMMA StaysUpToDate ==
  ASSUME UNCHANGED <<disk, mounted, version, told, generations, saved>>, NEW roots
  PROVE  UpToDate(roots)' <=> UpToDate(roots)
<1>1. \A f : Hides(f)' <=> Hides(f)
  BY DEF Hides
<1>2. \A n \in Notes : Noted(n)' <=> Noted(n)
  BY DEF Noted, Learned, Known
<1> QED BY <1>1, <1>2, StaysDisplayed DEF UpToDate

(* Until git or Codex tell something else, what this run has saved is what they
   tell. *)
NotesTaken == ~retold /\ ~scan.error => /\ wpc \in {"titles", "end"} => Noted("projects")
                                        /\ wpc = "end" => Noted("titles")

(* What is saved is what is told of the sessions there are. *)
LEMMA SavingNotes ==
  ASSUME TypeOK, NEW n \in Notes, UNCHANGED <<told, generations>>,
         saved' = [saved EXCEPT ![n] = Learned(n)]
  PROVE  /\ Noted(n)'
         /\ \A m \in Notes : Noted(m) => Noted(m)'
         /\ (\A m \in Notes : Noted(m)) => saved' = saved
<1>1. /\ saved \in Saved /\ saved'[n] = Learned(n)
      /\ \A m \in Notes \ {n} : saved'[m] = saved[m]
  BY DEF TypeOK, Saved
<1>2. \A f : Known(f)' <=> Known(f)
  BY DEF Known
<1>3. \A m \in Notes \ {n} : Learned(m)' = Learned(m)
  BY <1>1, <1>2 DEF Learned
<1>4. Learned(n)' = Learned(n)
  <2>1. ASSUME NEW f \in Files
        PROVE  (IF Known(f)' /\ told'[n] # Absent THEN told'[n] ELSE saved'[n][f])
                 = IF Known(f) /\ told[n] # Absent THEN told[n] ELSE saved[n][f]
    <3>1. Learned(n)[f] = IF Known(f) /\ told[n] # Absent THEN told[n] ELSE saved[n][f]
      BY DEF Learned
    <3> QED BY <1>1, <1>2, <3>1
  <2> QED BY <2>1 DEF Learned
<1>5. ASSUME Noted(n) PROVE saved' = saved
  BY <1>1, <1>5 DEF Noted, Saved
<1> QED BY <1>1, <1>3, <1>4, <1>5 DEF Noted

LEMMA NotesStep ==
  ASSUME TypeOK, TypeOK', NotesTaken, [Next]_vars
  PROVE  NotesTaken'
<1> USE DEF env, ledger, history
<1>1. ASSUME UNCHANGED <<told, generations, saved, wpc, scan, retold>> PROVE NotesTaken'
  BY <1>1 DEF NotesTaken, Noted, Learned, Known
<1>2. ASSUME NEW f \in Files, Edit(f) PROVE NotesTaken'
  BY <1>1, <1>2 DEF Edit, Changed, WorldStep
<1>3. ASSUME NEW r \in Roots, Mount(r) PROVE NotesTaken'
  BY <1>1, <1>3 DEF Mount, Changed, WorldStep
<1>4. ASSUME NEW n \in Notes, Retell(n) PROVE NotesTaken'
  BY <1>4 DEF Retell, NotesTaken
<1>5. ASSUME wpc' \notin {"titles", "end"} PROVE NotesTaken'
  BY <1>5 DEF NotesTaken
<1>6. ASSUME ImportStep, ~Saving PROVE wpc' \notin {"titles", "end"}
  BY <1>6 DEF ImportStep, Saving, Failed, WalkRoot, WalkEnd, ReadFile, ReadSidecar, ReadEnd, Commit,
              MarkMissing, End
<1>7. ASSUME SaveAttributions PROVE NotesTaken'
  <2>1. CASE scan' = [scan EXCEPT !.error = TRUE] /\ wpc' = "end"
    <3>1. scan'.error
      BY <2>1 DEF TypeOK
    <3> QED BY <3>1 DEF NotesTaken
  <2>2. CASE saved' = [saved EXCEPT !["projects"] = Learned("projects")] /\ wpc' = "titles"
    <3>1. UNCHANGED <<told, generations>> /\ "projects" \in Notes
      BY <1>7 DEF SaveAttributions, Save, Notes
    <3>2. Noted("projects")'
      BY <2>2, <3>1, SavingNotes
    <3> QED BY <2>2, <3>2 DEF NotesTaken
  <2> QED BY <1>7, <2>1, <2>2 DEF SaveAttributions, Save
<1>8. ASSUME SaveTitles PROVE NotesTaken'
  <2>1. CASE scan' = [scan EXCEPT !.error = TRUE]
    <3>1. scan'.error
      BY <2>1 DEF TypeOK
    <3> QED BY <3>1 DEF NotesTaken
  <2>2. CASE saved' = [saved EXCEPT !["titles"] = Learned("titles")] /\ UNCHANGED scan
    <3>1. UNCHANGED <<told, generations, retold>> /\ wpc = "titles" /\ {"projects", "titles"} \subseteq Notes
      BY <1>8 DEF SaveTitles, Save, Notes
    <3>2. Noted("titles")' /\ (Noted("projects") => Noted("projects")')
      BY <2>2, <3>1, SavingNotes
    <3> QED BY <2>2, <3>1, <3>2 DEF NotesTaken
  <2> QED BY <1>8, <2>1, <2>2 DEF SaveTitles, Save
<1>9. ASSUME NEW roots \in SUBSET Roots, Begin(roots) PROVE wpc' = "walk"
  BY <1>9 DEF Begin
<1>10. ASSUME Crash \/ Upgrade PROVE wpc' = "idle"
  BY <1>10 DEF Crash, Upgrade
<1>11. ASSUME ReadReport \/ UNCHANGED vars PROVE NotesTaken'
  BY <1>1, <1>11 DEF ReadReport, vars
<1> QED BY <1>2, <1>3, <1>4, <1>5, <1>6, <1>7, <1>8, <1>9, <1>10, <1>11 DEF Next, Saving

(* To import what is displayed changes nothing. *)
LEMMA DisplayedIsCurrent ==
  ASSUME TypeOK, NEW roots, NEW f \in Files, Displays(roots, f)
  PROVE  Imported(f, Payload(roots, f)) = generations[f]
<1> DEFINE p == Payload(roots, f)
           gs == generations[f]
           n == Len(gs)
<1>1. /\ gs \in Seq(Generations) /\ n \in Nat /\ gs # <<>> /\ Current(f, p)
      /\ p.data = disk[f]
  BY DEF TypeOK, Displays, Current, Known, Payload
<1>2. CASE Kind[f][disk[f]] = "rescanned"
  <2> DEFINE r == [gs[n] EXCEPT !.scanned = version]
  <2>1. Imported(f, p) = [gs EXCEPT ![n] = r]
    BY <1>1, <1>2 DEF Imported
  <2>2. gs[n] \in Generations /\ gs[n].scanned = version
    BY <1>1, <1>2 DEF Displays, Newest
  <2>3. r = gs[n]
    BY <2>2 DEF Generations
  <2> HIDE DEF gs, r
  <2>4. [gs EXCEPT ![n] = r] = gs
    BY <1>1, <2>3
  <2> QED BY <2>1, <2>4 DEF gs
<1>3. CASE Kind[f][disk[f]] # "rescanned"
  BY <1>1, <1>3 DEF Imported
<1> QED BY <1>2, <1>3

(* To flag what is hidden changes nothing. *)
LEMMA HiddenIsFlagged ==
  ASSUME TypeOK, NEW f \in Files, Hides(f)
  PROVE  Flagged(generations[f]) = generations[f]
<1> DEFINE gs == generations[f]
           flagged(i) == [gs[i] EXCEPT !.available = FALSE]
<1>1. gs \in Seq(Generations)
  BY DEF TypeOK
<1>2. \A i \in DOMAIN gs : gs[i] \in Generations /\ ~gs[i].available
  BY <1>1 DEF Hides
<1> HIDE DEF gs
<1>3. \A i \in DOMAIN gs : flagged(i) = gs[i]
  BY <1>2 DEF Generations
<1>4. Flagged(gs) = [i \in DOMAIN gs |-> flagged(i)]
  BY DEF Flagged
<1> HIDE DEF flagged
<1>5. Flagged(gs) = gs
  BY <1>1, <1>3, <1>4
<1> QED BY <1>5 DEF gs

(* So a quiet run changes nothing. *)
LEMMA QuietChangesNothing ==
  ASSUME TypeOK, NothingOverlooked, Faithful, Quiet, UpToDate(scan.roots)
  PROVE  /\ wpc # "idle" => Committed = generations
         /\ wpc = "missing" => Missing = generations
<1>1. generations = [f \in Files |-> generations[f]]
  BY DEF TypeOK
<1>2. ASSUME wpc # "idle", NEW f \in Files PROVE Committed[f] = generations[f]
  <2>1. CASE f \in Batched
    <3> DEFINE p == CHOOSE q \in scan.batch : q.file = f
    <3>1. p \in scan.batch /\ p.file = f
      BY <2>1 DEF Batched
    <3>2. Committed[f] = Imported(f, p)
      BY <2>1 DEF Committed, Batched
    <3>3. Offers(scan.roots, f) /\ p = Payload(scan.roots, f)
      BY <1>2, <3>1 DEF Faithful, Quiet
    <3> HIDE DEF p
    <3>4. Displays(scan.roots, f)
      BY <3>3 DEF UpToDate
    <3> QED BY <3>2, <3>3, <3>4, DisplayedIsCurrent
  <2>2. CASE f \notin Batched
    BY <2>2 DEF Committed, Batched
  <2> QED BY <2>1, <2>2
<1>3. ASSUME wpc = "missing", NEW f \in Files PROVE Missing[f] = generations[f]
  <2>1. CASE f \in scan.found
    BY <2>1 DEF Missing
  <2>2. CASE f \notin scan.found
    <3>1. ~There(f)
      BY <1>3, <2>2 DEF NothingOverlooked, Importing, Batched, Quiet
    <3>2. Hides(f)
      BY <3>1 DEF UpToDate, There, Offers, Readable, Authorized
    <3> QED BY <2>2, <3>2, HiddenIsFlagged DEF Missing
  <2> QED BY <2>1, <2>2
<1> QED BY <1>1, <1>2, <1>3 DEF Committed, Missing

(* Every step keeps it. *)
LEMMA SettledStep ==
  ASSUME TypeOK, TypeOK', NothingOverlooked, Faithful, Complete, NotesTaken, SettledIsShown, [Next]_vars
  PROVE  SettledIsShown'
<1> USE DEF env, ledger, history
<1>0. Unsettled \notin SUBSET Roots /\ scan.roots \in SUBSET Roots
  BY LedgerConstants DEF Unsettled, TypeOK
<1>1. ASSUME NEW fs, WorldMoves(fs), fs \subseteq Files, UNCHANGED <<wpc, scan, base>>,
             settled' = Unsettled
      PROVE  SettledIsShown'
  <2> SUFFICES ASSUME wpc # "idle", Quiet'
               PROVE  UpToDate(scan.roots)' /\ revision' = base'.revision
    BY <1>1 DEF SettledIsShown
  <2>1. /\ touched = {} /\ Concerned(fs) = {} /\ ~retold
        /\ UNCHANGED <<scan, base, revision>>
    BY <1>1 DEF WorldMoves, Quiet
  <2>2. Quiet /\ UpToDate(scan.roots) /\ revision = base.revision
    <3>1. Quiet
      BY <1>1, <2>1 DEF Quiet
    <3> QED BY <1>1, <3>1 DEF SettledIsShown
  <2>3. \A f \in Files : /\ Offers(scan.roots, f)' <=> Offers(scan.roots, f)
                         /\ Displays(scan.roots, f)' <=> Displays(scan.roots, f)
    BY <1>1, <2>1, UnconcernedStay
  <2>4. \A f : Hides(f)' <=> Hides(f)
    BY <1>1 DEF WorldMoves, Hides
  <2>5. \A n \in Notes : Noted(n)' <=> Noted(n)
    BY <1>1 DEF WorldMoves, Noted, Learned, Known
  <2> QED BY <1>1, <2>2, <2>3, <2>4, <2>5 DEF UpToDate, WorldMoves
<1>2. ASSUME NEW f \in Files, Edit(f) PROVE SettledIsShown'
  BY <1>1, <1>2, WorldSteps DEF Edit, Changed, WorldStep
<1>3. ASSUME NEW r \in Roots, Mount(r) PROVE SettledIsShown'
  BY <1>1, <1>3, WorldSteps, LedgerConstants DEF Mount, Changed, WorldStep
<1>4. ASSUME NEW roots \in SUBSET Roots, Begin(roots) PROVE SettledIsShown'
  <2>1. /\ wpc = "idle" /\ wpc' # "idle" /\ touched' = {} /\ scan'.roots = roots
        /\ base'.settled = settled /\ base'.revision = revision
        /\ UNCHANGED <<disk, mounted, version, told, generations, saved, revision>>
        /\ settled' = IF roots = settled THEN settled ELSE Unsettled
    BY <1>4 DEF Begin, NoScan
  <2>2. UpToDate(roots)' <=> UpToDate(roots)
    BY <2>1, StaysUpToDate
  <2>3. settled = roots => UpToDate(roots)
    BY <1>0, <2>1 DEF SettledIsShown
  <2>4. Quiet' => settled = roots
    BY <2>1 DEF Quiet
  <2>5. ASSUME settled' # Unsettled PROVE Quiet' /\ settled' = scan'.roots
    <3>1. settled' = roots /\ settled = roots
      BY <2>1, <2>5
    <3>2. base'.settled = scan'.roots /\ touched' = {} /\ ~retold'
      BY <1>4, <2>1, <3>1 DEF Begin
    <3> QED BY <2>1, <3>1, <3>2 DEF Quiet
  <2>6. ASSUME Quiet' PROVE UpToDate(scan.roots)' /\ revision' = base'.revision
    <3>1. UpToDate(roots)'
      BY <2>2, <2>3, <2>4, <2>6
    <3>2. UpToDate(scan.roots)' <=> UpToDate(roots)'
      BY <2>1 DEF UpToDate, Offers, Displays, Payload, Beside
    <3> QED BY <2>1, <3>1, <3>2
  <2> QED BY <2>1, <2>5, <2>6 DEF SettledIsShown
<1>5. ASSUME Commit \/ MarkMissing PROVE SettledIsShown'
  <2>1. /\ wpc # "idle" /\ wpc' # "idle"
        /\ UNCHANGED <<disk, mounted, version, told, saved, touched, retold, settled, base>>
        /\ scan'.roots = scan.roots
    BY <1>5 DEF Commit, MarkMissing, Failed, TypeOK
  <2>2. Quiet' <=> Quiet
    BY <2>1 DEF Quiet
  <2>3. ASSUME Quiet PROVE UpToDate(scan.roots)' /\ revision' = base.revision
    <3>1. UpToDate(scan.roots) /\ revision = base.revision
      BY <2>1, <2>3 DEF SettledIsShown
    <3>2. Committed = generations /\ (wpc = "missing" => Missing = generations)
      BY <2>1, <2>3, <3>1, QuietChangesNothing
    <3>3. UNCHANGED <<generations, revision>>
      BY <1>5, <3>2 DEF Commit, MarkMissing, Committed, Missing
    <3> QED BY <2>1, <3>1, <3>3, StaysUpToDate
  <2> QED BY <2>1, <2>2, <2>3 DEF SettledIsShown
<1>6. ASSUME WalkRoot \/ WalkEnd \/ ReadFile \/ ReadSidecar \/ ReadEnd PROVE SettledIsShown'
  <2>1. /\ wpc # "idle" /\ wpc' # "idle"
        /\ UNCHANGED <<disk, mounted, version, told, generations, saved, revision, touched, retold, settled, base>>
    BY <1>6 DEF WalkRoot, WalkEnd, ReadFile, ReadSidecar, ReadEnd, Failed
  <2>2. scan'.roots = scan.roots
    BY <1>6 DEF WalkRoot, WalkEnd, ReadFile, ReadSidecar, ReadEnd, Failed, TypeOK
  <2> QED BY <2>1, <2>2, StaysUpToDate DEF SettledIsShown, Quiet
<1>7. ASSUME End PROVE SettledIsShown'
  <2>1. /\ wpc = "end" /\ wpc' = "idle"
        /\ UNCHANGED <<disk, mounted, version, told, generations, saved, revision>>
        /\ settled' = IF ~scan.error /\ touched = {} /\ ~retold THEN scan.roots ELSE settled
    BY <1>7 DEF End
  <2>2. CASE ~scan.error /\ touched = {} /\ ~retold
    <3>2. \A n \in Notes : Noted(n)
      BY <2>1, <2>2 DEF NotesTaken, Notes
    <3>1. UpToDate(scan.roots)
      BY <2>1, <2>2, <3>2, CompleteWords DEF Complete, Succeeds, Words, UpToDate
    <3> QED BY <2>1, <2>2, <3>1, StaysUpToDate DEF SettledIsShown
  <2>3. CASE settled' = settled
    BY <2>1, <2>3, StaysUpToDate DEF SettledIsShown
  <2> QED BY <2>1, <2>2, <2>3
<1>8. ASSUME Crash PROVE SettledIsShown'
  BY <1>8, StaysUpToDate DEF Crash, SettledIsShown
<1>9. ASSUME Upgrade PROVE SettledIsShown'
  BY <1>9 DEF Upgrade, SettledIsShown
<1>10. ASSUME ReadReport \/ UNCHANGED vars PROVE SettledIsShown'
  <2>1. UNCHANGED <<disk, mounted, version, told, generations, saved, revision, wpc, scan, touched, retold, settled, base>>
    BY <1>10 DEF ReadReport, vars
  <2> QED BY <2>1, StaysUpToDate DEF SettledIsShown, Quiet
<1>11. ASSUME NEW n \in Notes, Retell(n) PROVE SettledIsShown'
  BY <1>11 DEF Retell, WorldStep, SettledIsShown, Quiet
<1>12. ASSUME Saving PROVE SettledIsShown'
  <2>1. /\ wpc # "idle" /\ wpc' # "idle"
        /\ UNCHANGED <<disk, mounted, version, told, generations, touched, retold, settled, base>>
        /\ scan'.roots = scan.roots
    BY <1>12 DEF Saving, SaveAttributions, SaveTitles, Save, TypeOK
  <2>2. Quiet' <=> Quiet
    BY <2>1 DEF Quiet
  <2>3. ASSUME Quiet PROVE UpToDate(scan.roots)' /\ revision' = base.revision
    <3>1. UpToDate(scan.roots) /\ revision = base.revision
      BY <2>1, <2>3 DEF SettledIsShown
    <3>2. \/ \E n \in Notes : saved' = [saved EXCEPT ![n] = Learned(n)]
          \/ UNCHANGED saved
      BY <1>12 DEF Saving, SaveAttributions, SaveTitles, Save, Notes
    <3>3. saved' = saved
      BY <2>1, <3>1, <3>2, SavingNotes DEF UpToDate
    <3>4. revision' = revision
      BY <1>12, <3>3 DEF Saving, SaveAttributions, SaveTitles, Save
    <3> QED BY <2>1, <3>1, <3>3, <3>4, StaysUpToDate
  <2> QED BY <2>1, <2>2, <2>3 DEF SettledIsShown
<1> QED BY <1>2, <1>3, <1>4, <1>5, <1>6, <1>7, <1>8, <1>9, <1>10, <1>11, <1>12 DEF Next, ImportStep, Saving

(* Importing the same sources again, with nothing changed since a run over them
   succeeded, does not move the revision: no page reloads for it, whatever
   failed or died in between. *)
THEOREM ImportingAgainIsIdle == Spec => []Idempotent
<1>1. Init => SettledIsShown /\ NotesTaken
  BY DEF Init, SettledIsShown, NotesTaken
<1>2. SettledIsShown => Idempotent
  BY DEF SettledIsShown, Idempotent, Succeeds, Quiet
<1> QED BY <1>1, <1>2, NotesStep, SettledStep, TypeCorrect, OverlooksNothing, FaithfulAlways,
           RunsShowTheFiles, PTL DEF Spec
=============================================================================
