-------------------------- MODULE LiveReportProofs --------------------------
(* Proofs about LiveReport for any number of revisions, clicks, failures and
   reconnections. *)
EXTENDS LiveReport, TLAPS

(* Statuses: what the stream tells, in order, is never ahead of the server nor
   behind what the page was told last. *)
Statuses == [state : {"idle", "running", "succeeded", "failed"}, revision : 0..MaxRevision]
StreamInv ==
  /\ status \in Statuses /\ stream \in Seq(Statuses)
  /\ latestRevision \in 0..MaxRevision /\ latestRevision <= status.revision
  /\ \A i \in 1..Len(stream) : /\ latestRevision <= stream[i].revision /\ stream[i].revision <= status.revision
                               /\ \A j \in i..Len(stream) : stream[i].revision <= stream[j].revision

(* The page: a reload is of the report that is shown, and is not older than what
   the page had been told of when it began, nor than what it was told since unless
   that overtook it. *)
PageTypes ==
  /\ shown # None => shown \in [id : Nat, revision : 0..MaxRevision]
  /\ reload # None => reload \in [report : Nat, revision : 0..MaxRevision \cup {None}]
  /\ navigation # None => navigation \in [page : {"report", "sources"}, revision : 0..MaxRevision \cup {None}]
  /\ importing \in BOOLEAN /\ refreshing \in BOOLEAN /\ retryTimer \in BOOLEAN /\ overtaken \in BOOLEAN
  /\ refreshing = (reload # None)
  /\ bounds \in [clicks : Nat, failures : Nat, reconnects : Nat]
ReloadInv ==
  reload # None => /\ shown # None /\ reload.report = shown.id
                   /\ reload.revision # None => latestRevision <= reload.revision \/ overtaken
PageInv == StreamInv /\ PageTypes /\ ReloadInv /\ Remembered

LEMMA PageInit == ASSUME PageConstants, Init PROVE PageInv
<1>1. StreamInv
  <2>1. status.revision = 0 /\ status \in Statuses
    BY DEF PageConstants, Init, Statuses
  <2> QED BY <2>1 DEF PageConstants, Init, StreamInv
<1>2. PageTypes
  <2>1. shown \in [id : Nat, revision : 0..MaxRevision]
    BY DEF PageConstants, Init
  <2>2. bounds \in [clicks : Nat, failures : Nat, reconnects : Nat]
    BY DEF Init
  <2>3. reload = None /\ navigation = None /\ refreshing = FALSE /\ importing = FALSE
        /\ retryTimer = FALSE /\ overtaken = FALSE
    BY DEF Init
  <2> QED BY <2>1, <2>2, <2>3 DEF PageTypes
<1>3. ReloadInv /\ Remembered
  BY DEF Init, ReloadInv, Remembered
<1> QED BY <1>1, <1>2, <1>3 DEF PageInv

-----------------------------------------------------------------------------
(* What the server does, and the stream. *)

LEMMA ServerStep == ASSUME PageConstants, PageInv, Server PROVE PageInv'
<1>1. UNCHANGED <<previous, stream, shown, script, navigation, bounds>>
  BY DEF Server
<1>2. status' \in Statuses /\ status'.revision >= status.revision
  <2> USE DEF PageConstants, PageInv, StreamInv, Statuses
  <2>1. CASE StartImport
    BY <2>1 DEF StartImport
  <2>2. CASE Commit
    BY <2>2 DEF Commit
  <2>3. CASE FinishImport
    BY <2>3 DEF FinishImport
  <2> QED BY <2>1, <2>2, <2>3 DEF Server
<1>3. StreamInv'
  <2> SUFFICES ASSUME NEW s, s = status', s \in Statuses, s.revision >= status.revision
               PROVE  StreamInv'
    BY <1>2
  <2>1. status.revision \in Nat /\ s.revision \in Nat
    BY DEF Statuses, PageInv, StreamInv, PageConstants
  <2>2. \A i \in 1..Len(stream) : stream[i] \in Statuses
    BY DEF PageInv, StreamInv
  <2> QED BY <1>1, <2>1, <2>2 DEF PageInv, StreamInv, Statuses, script, PageConstants
<1>4. PageTypes' /\ ReloadInv' /\ Remembered'
  BY <1>1 DEF script, PageInv, PageTypes, ReloadInv, Remembered
<1> QED BY <1>3, <1>4 DEF PageInv

LEMMA PollStep == ASSUME PageConstants, PageInv, Poll PROVE PageInv'
<1>1. /\ stream' = Append(stream, status)
      /\ UNCHANGED <<status, shown, script, navigation, bounds>>
  BY DEF Poll
<1>2. StreamInv'
  <2>1. /\ status \in Statuses /\ stream \in Seq(Statuses) /\ Len(stream) \in Nat
        /\ status.revision \in 0..MaxRevision /\ latestRevision \in 0..MaxRevision
    BY DEF PageInv, StreamInv, Statuses
  <2>2. stream' \in Seq(Statuses) /\ Len(stream') = Len(stream) + 1
    BY <1>1, <2>1
  <2>3. \A i \in 1..Len(stream) : stream'[i] = stream[i]
    BY <1>1, <2>1
  <2>4. stream'[Len(stream) + 1] = status
    BY <1>1, <2>1
  <2>5. \A i \in 1..Len(stream) : stream[i].revision \in 0..MaxRevision
    <3>1. \A i \in 1..Len(stream) : stream[i] \in Statuses
      BY <2>1
    <3> QED BY <3>1 DEF Statuses
  <2>6. ASSUME NEW i \in 1..Len(stream')
        PROVE  /\ latestRevision <= stream'[i].revision /\ stream'[i].revision <= status.revision
               /\ \A j \in i..Len(stream') : stream'[i].revision <= stream'[j].revision
    <3>1. CASE i \in 1..Len(stream)
      <4>1. latestRevision <= stream'[i].revision /\ stream'[i].revision <= status.revision
        BY <2>3, <3>1 DEF PageInv, StreamInv
      <4>2. ASSUME NEW j \in i..Len(stream')
            PROVE  stream'[i].revision <= stream'[j].revision
        <5>1. CASE j = Len(stream) + 1
          BY <2>4, <4>1, <5>1
        <5>2. CASE j \in i..Len(stream)
          BY <2>1, <2>3, <3>1, <5>2 DEF PageInv, StreamInv
        <5> QED BY <2>1, <2>2, <3>1, <5>1, <5>2
      <4> QED BY <4>1, <4>2
    <3>2. CASE i = Len(stream) + 1
      <4>1. \A j \in i..Len(stream') : j = i
        BY <2>1, <2>2, <3>2
      <4> QED BY <2>1, <2>4, <3>2, <4>1 DEF PageInv, StreamInv
    <3> QED BY <2>1, <2>2, <3>1, <3>2
  <2> QED BY <1>1, <2>1, <2>2, <2>6 DEF StreamInv, script, PageInv
<1>3. stream' # <<>>
  BY <1>1 DEF PageInv, StreamInv
<1>4. PageTypes' /\ ReloadInv'
  BY <1>1 DEF script, PageInv, PageTypes, ReloadInv
<1>5. Remembered'
  BY <1>1, <1>3 DEF script, PageInv, Remembered
<1> QED BY <1>2, <1>4, <1>5 DEF PageInv

LEMMA ReconnectStep == ASSUME PageConstants, PageInv, Reconnect PROVE PageInv'
<1>1. /\ stream' = <<>> /\ previous' = None /\ retryTimer' \in {retryTimer, FALSE}
      /\ bounds' = [bounds EXCEPT !["reconnects"] = @ + 1]
      /\ UNCHANGED <<status, shown, importing, latestRevision, refreshing, reload, navigation, overtaken>>
  BY DEF Reconnect, Count
<1>2. StreamInv'
  BY <1>1 DEF PageInv, StreamInv
<1>3. bounds' \in [clicks : Nat, failures : Nat, reconnects : Nat] /\ bounds'.reconnects > 0
  BY <1>1 DEF PageInv, PageTypes
<1>4. PageTypes'
  BY <1>1, <1>3 DEF PageInv, PageTypes
<1>5. ReloadInv' /\ Remembered'
  BY <1>1, <1>3 DEF PageInv, ReloadInv, Remembered
<1> QED BY <1>2, <1>4, <1>5 DEF PageInv

LEMMA ServeStep == ASSUME PageConstants, PageInv, ServeReload \/ ServePage PROVE PageInv'
<1>0. status.revision \in 0..MaxRevision /\ latestRevision <= status.revision /\ None \notin 0..MaxRevision
  BY DEF PageInv, StreamInv, Statuses, PageConstants
<1>1. CASE ServeReload
  <2>1. /\ reload # None /\ reload' = [reload EXCEPT !.revision = status.revision]
        /\ UNCHANGED <<status, previous, stream, shown, importing, latestRevision, refreshing, retryTimer,
                       navigation, overtaken, bounds>>
    BY <1>1 DEF ServeReload
  <2>2. /\ reload' \in [report : Nat, revision : 0..MaxRevision] /\ reload'.report = reload.report
        /\ reload'.revision = status.revision
    BY <1>0, <2>1 DEF PageInv, PageTypes
  <2>3. reload' # None
    BY <2>2 DEF PageConstants
  <2>4. StreamInv'
    BY <2>1 DEF PageInv, StreamInv
  <2>5. PageTypes'
    BY <2>1, <2>2, <2>3 DEF PageInv, PageTypes
  <2>6. ReloadInv' /\ Remembered'
    BY <1>0, <2>1, <2>2, <2>3 DEF PageInv, ReloadInv, Remembered
  <2> QED BY <2>4, <2>5, <2>6 DEF PageInv
<1>2. CASE ServePage
  <2>1. /\ navigation' = [navigation EXCEPT !.revision = status.revision]
        /\ UNCHANGED <<status, previous, stream, shown, script, bounds>>
    BY <1>2 DEF ServePage
  <2>2. navigation' \in [page : {"report", "sources"}, revision : 0..MaxRevision]
    BY <1>0, <1>2, <2>1 DEF PageInv, PageTypes, ServePage
  <2> QED BY <2>1, <2>2 DEF PageInv, StreamInv, PageTypes, ReloadInv, Remembered, script
<1> QED BY <1>1, <1>2

-----------------------------------------------------------------------------
(* What the page does. *)

(* A report that is behind is reloaded at once, unless the page must wait. *)
LEMMA Refreshes ==
  ASSUME NEW report, NEW waiting, NEW newest, RefreshReport(report, waiting, newest),
         PageConstants, report # None => report \in [id : Nat, revision : 0..MaxRevision]
  PROVE  /\ refreshing' \in BOOLEAN /\ refreshing' = (reload' # None) /\ overtaken' \in {FALSE, overtaken}
         /\ refreshing' = Wanted(report, FALSE, waiting, newest)
         /\ reload' # None => /\ reload' \in [report : Nat, revision : {None}]
                              /\ report # None /\ reload'.report = report.id /\ reload'.revision = None
<1>1. CASE Wanted(report, FALSE, waiting, newest)
  <2>1. refreshing' = TRUE /\ reload' = [report |-> report.id, revision |-> None] /\ overtaken' = FALSE
    BY <1>1 DEF RefreshReport, Started
  <2>2. report # None
    BY <1>1 DEF Wanted
  <2>3. reload' \in [report : Nat, revision : {None}] /\ reload'.report = report.id /\ reload'.revision = None
    BY <2>1, <2>2
  <2>4. reload' # None
    BY <2>3 DEF PageConstants
  <2> QED BY <1>1, <2>1, <2>2, <2>3, <2>4
<1>2. CASE ~Wanted(report, FALSE, waiting, newest)
  <2>1. refreshing' = FALSE /\ reload' = None /\ overtaken' = overtaken
    BY <1>2 DEF RefreshReport
  <2>2. Wanted(report, FALSE, waiting, newest) = FALSE
    BY <1>2 DEF Wanted
  <2> QED BY <2>1, <2>2
<1> QED BY <1>1, <1>2

LEMMA ReceiveStep == ASSUME PageConstants, PageInv, Receive PROVE PageInv'
<1> DEFINE told == Head(stream)
           running == told.state = "running"
<1>1. /\ stream # <<>> /\ stream' = Tail(stream)
      /\ importing' = running /\ latestRevision' = told.revision
      /\ UNCHANGED <<status, previous, shown, retryTimer, navigation, bounds>>
  BY DEF Receive
<1>2. /\ stream \in Seq(Statuses) /\ Len(stream) \in Nat /\ Len(stream) # 0
      /\ Len(stream') = Len(stream) - 1 /\ stream' \in Seq(Statuses)
      /\ \A i \in 1..Len(stream') : stream'[i] = stream[i + 1]
      /\ told = stream[1] /\ 1 \in 1..Len(stream)
  <2>1. stream \in Seq(Statuses) /\ stream # <<>> /\ stream' = Tail(stream)
    BY <1>1 DEF PageInv, StreamInv
  <2> HIDE DEF Statuses
  <2> QED BY <2>1
<1>3. told \in Statuses /\ latestRevision <= told.revision /\ told.revision <= status.revision
  <2>1. stream[1] \in Statuses
    BY <1>2
  <2> QED BY <1>2, <2>1 DEF PageInv, StreamInv
<1>4. told.revision \in 0..MaxRevision
  BY <1>3 DEF Statuses
<1> HIDE DEF told
<1>5. StreamInv'
  <2>1. \A i \in 1..Len(stream') : /\ told.revision <= stream'[i].revision
                                   /\ stream'[i].revision <= status.revision
                                   /\ \A j \in i..Len(stream') : stream'[i].revision <= stream'[j].revision
    <3> TAKE i \in 1..Len(stream')
    <3>1. i + 1 \in 1..Len(stream) /\ stream'[i] = stream[i + 1]
      BY <1>2
    <3>2. told.revision <= stream'[i].revision /\ stream'[i].revision <= status.revision
      BY <1>2, <3>1 DEF PageInv, StreamInv
    <3>3. ASSUME NEW j \in i..Len(stream')
          PROVE  stream'[i].revision <= stream'[j].revision
      <4>1. j + 1 \in (i + 1)..Len(stream) /\ stream'[j] = stream[j + 1]
        BY <1>2, <3>3
      <4> QED BY <3>1, <4>1 DEF PageInv, StreamInv
    <3> QED BY <3>2, <3>3
  <2> QED BY <1>1, <1>2, <1>3, <1>4, <2>1 DEF PageInv, StreamInv
<1>6. /\ latestRevision \in Nat /\ told.revision \in Nat /\ latestRevision <= told.revision
      /\ running \in BOOLEAN
  BY <1>3, <1>4 DEF PageInv, StreamInv
<1>7. CASE refreshing
  <2>1. /\ refreshing' = refreshing /\ reload' = reload
        /\ overtaken' = (overtaken \/ told.revision > latestRevision)
    BY <1>7 DEF Receive, told
  <2>2. PageTypes'
    BY <1>1, <1>6, <2>1 DEF PageInv, PageTypes
  <2>3. ReloadInv'
    <3>1. SUFFICES ASSUME reload # None, reload.revision # None, ~overtaken'
                   PROVE  latestRevision' <= reload.revision
      BY <1>1, <2>1 DEF PageInv, ReloadInv
    <3>2. latestRevision <= reload.revision
      BY <2>1, <3>1 DEF PageInv, ReloadInv
    <3>3. ~(told.revision > latestRevision)
      BY <2>1, <3>1, Zenon
    <3>4. told.revision = latestRevision
      BY <1>6, <3>3
    <3> QED BY <1>1, <3>2, <3>4
  <2>4. Remembered'
    BY <1>7, <2>1 DEF Remembered
  <2> QED BY <1>5, <2>2, <2>3, <2>4 DEF PageInv
<1>8. CASE ~refreshing
  <2> DEFINE newest == told.revision
  <2>1. RefreshReport(shown, running, newest)
    BY <1>8 DEF Receive, told
  <2> HIDE DEF newest, running
  <2>2. shown # None => shown \in [id : Nat, revision : 0..MaxRevision]
    BY DEF PageInv, PageTypes
  <2>3. /\ refreshing' \in BOOLEAN /\ refreshing' = (reload' # None) /\ overtaken' \in {FALSE, overtaken}
        /\ refreshing' = Wanted(shown, FALSE, running, newest)
        /\ reload' # None => /\ reload' \in [report : Nat, revision : {None}]
                             /\ shown # None /\ reload'.report = shown.id /\ reload'.revision = None
    BY <2>1, <2>2, Refreshes
  <2>4. PageTypes'
    BY <1>1, <1>6, <2>3 DEF PageInv, PageTypes
  <2>5. ReloadInv'
    BY <1>1, <2>3 DEF PageInv, ReloadInv
  <2>6. Remembered'
    BY <1>1, <1>6, <2>3 DEF Remembered, Wanted, newest
  <2> QED BY <1>5, <2>4, <2>5, <2>6 DEF PageInv
<1> QED BY <1>7, <1>8 DEF PageInv, PageTypes

LEMMA LoadedStep ==
  ASSUME PageConstants, PageInv, Loaded
  PROVE  PageInv' /\ (shown # None /\ shown' # None => shown'.revision >= shown.revision)
<1>1. /\ reload # None /\ reload.revision # None
      /\ refreshing' = FALSE /\ reload' = None
      /\ UNCHANGED <<status, previous, stream, importing, latestRevision, retryTimer, navigation, overtaken, bounds>>
  BY DEF Loaded
<1>2. /\ shown # None /\ shown \in [id : Nat, revision : 0..MaxRevision] /\ reload.report = shown.id
      /\ reload.revision \in 0..MaxRevision
      /\ latestRevision <= reload.revision \/ overtaken
  BY <1>1 DEF PageInv, PageTypes, ReloadInv
<1>3. /\ shown' \in [id : Nat, revision : 0..MaxRevision] /\ shown'.revision >= shown.revision
      /\ shown'.revision >= reload.revision
  <2>1. CASE Older(reload.revision)
    <3>1. reload.revision < shown.revision
      BY <2>1 DEF Older
    <3>2. shown' = shown
      BY <2>1 DEF Loaded
    <3> QED BY <1>2, <3>1, <3>2
  <2>2. CASE ~Older(reload.revision)
    <3>1. ~(reload.revision < shown.revision)
      BY <1>1, <1>2, <2>2 DEF Older
    <3>2. shown' = [shown EXCEPT !.revision = reload.revision]
      BY <1>2, <2>2 DEF Loaded
    <3> QED BY <1>2, <3>1, <3>2
  <2> QED BY <2>1, <2>2
<1>4. StreamInv'
  BY <1>1 DEF PageInv, StreamInv
<1>5. PageTypes'
  BY <1>1, <1>3 DEF PageInv, PageTypes
<1>6. ReloadInv'
  BY <1>1 DEF ReloadInv
<1>7. Remembered'
  <2>1. latestRevision \in Nat /\ shown'.revision \in Nat /\ reload.revision \in Nat
    BY <1>2, <1>3 DEF PageInv, StreamInv
  <2>2. overtaken \/ ~(latestRevision > shown'.revision)
    BY <1>2, <1>3, <2>1
  <2> QED BY <1>1, <2>2 DEF Remembered
<1> QED BY <1>3, <1>4, <1>5, <1>6, <1>7 DEF PageInv

LEMMA FailureStep ==
  ASSUME PageConstants, PageInv, Failed, StreamInv', shown' # None => shown' \in [id : Nat, revision : 0..MaxRevision],
         navigation' # None => navigation' \in [page : {"report", "sources"}, revision : 0..MaxRevision \cup {None}],
         importing' = importing, bounds' \in [clicks : Nat, failures : Nat, reconnects : Nat]
  PROVE  PageInv'
<1>1. refreshing' = FALSE /\ reload' = None /\ retryTimer' = TRUE /\ overtaken' = overtaken
  BY DEF Failed, Retry
<1>2. PageTypes'
  BY <1>1 DEF PageInv, PageTypes
<1>3. ReloadInv' /\ Remembered'
  BY <1>1 DEF ReloadInv, Remembered
<1> QED BY <1>2, <1>3 DEF PageInv

LEMMA Counts ==
  ASSUME PageTypes, NEW what \in {"clicks", "failures", "reconnects"}, NEW most, Count(what, most)
  PROVE  /\ bounds' \in [clicks : Nat, failures : Nat, reconnects : Nat]
         /\ bounds.reconnects > 0 => bounds'.reconnects > 0
BY DEF Count, PageTypes

LEMMA ReloadFailsStep == ASSUME PageConstants, PageInv, ReloadFails PROVE PageInv'
<1>1. /\ Count("failures", MaxFailures) /\ Failed
      /\ UNCHANGED <<status, previous, stream, shown, importing, latestRevision, navigation>>
  BY DEF ReloadFails
<1>2. StreamInv'
  BY <1>1 DEF PageInv, StreamInv
<1>3. bounds' \in [clicks : Nat, failures : Nat, reconnects : Nat]
  BY <1>1, Counts DEF PageInv
<1> QED BY <1>1, <1>2, <1>3, FailureStep DEF PageInv, PageTypes

LEMMA TimerStep == ASSUME PageConstants, PageInv, Timer PROVE PageInv'
<1>1. /\ retryTimer' = FALSE
      /\ UNCHANGED <<status, previous, stream, shown, importing, latestRevision, navigation, bounds>>
  BY DEF Timer
<1>2. StreamInv'
  BY <1>1 DEF PageInv, StreamInv
<1>3. CASE refreshing
  <2>1. UNCHANGED <<refreshing, reload, overtaken>>
    BY <1>3 DEF Timer
  <2> QED BY <1>1, <1>2, <1>3, <2>1 DEF PageInv, PageTypes, ReloadInv, Remembered
<1>4. CASE ~refreshing
  <2>1. RefreshReport(shown, importing, latestRevision)
    BY <1>4 DEF Timer
  <2>2. shown # None => shown \in [id : Nat, revision : 0..MaxRevision]
    BY DEF PageInv, PageTypes
  <2>3. /\ refreshing' \in BOOLEAN /\ refreshing' = (reload' # None) /\ overtaken' \in {FALSE, overtaken}
        /\ refreshing' = Wanted(shown, FALSE, importing, latestRevision)
        /\ reload' # None => /\ reload' \in [report : Nat, revision : {None}]
                             /\ shown # None /\ reload'.report = shown.id /\ reload'.revision = None
    BY <2>1, <2>2, Refreshes
  <2>4. PageTypes'
    BY <1>1, <2>3 DEF PageInv, PageTypes
  <2>5. ReloadInv'
    BY <1>1, <2>3 DEF PageInv, ReloadInv
  <2>6. Remembered'
    BY <1>1, <2>3 DEF Remembered, Wanted
  <2> QED BY <1>2, <2>4, <2>5, <2>6 DEF PageInv
<1> QED BY <1>3, <1>4 DEF PageInv, PageTypes

LEMMA ClickStep == ASSUME PageConstants, PageInv, Click \/ ClickFails PROVE PageInv'
<1>1. CASE Click
  <2>1. /\ Count("clicks", MaxClicks) /\ Abort
        /\ UNCHANGED <<status, previous, stream, shown, importing, latestRevision>>
    BY <1>1 DEF Click
  <2>2. PICK page \in {"report", "sources"} : navigation' = [page |-> page, revision |-> None]
    BY <1>1 DEF Click
  <2>3. navigation' \in [page : {"report", "sources"}, revision : 0..MaxRevision \cup {None}]
    BY <2>2
  <2>4. StreamInv'
    BY <2>1 DEF PageInv, StreamInv
  <2>5. /\ bounds' \in [clicks : Nat, failures : Nat, reconnects : Nat]
        /\ bounds.reconnects > 0 => bounds'.reconnects > 0
    BY <2>1, Counts DEF PageInv
  <2>6. CASE refreshing
    <3>1. Failed
      BY <2>1, <2>6 DEF Abort
    <3> QED BY <2>1, <2>3, <2>4, <2>5, <3>1, FailureStep DEF PageInv, PageTypes
  <2>7. CASE ~refreshing
    <3>1. UNCHANGED <<refreshing, reload, retryTimer, overtaken>>
      BY <2>1, <2>7 DEF Abort
    <3>2. PageTypes'
      BY <2>1, <2>3, <2>5, <3>1 DEF PageInv, PageTypes
    <3>3. ReloadInv' /\ Remembered'
      BY <2>1, <2>5, <3>1 DEF PageInv, ReloadInv, Remembered
    <3> QED BY <2>4, <3>2, <3>3 DEF PageInv
  <2> QED BY <2>6, <2>7 DEF PageInv, PageTypes
<1>2. CASE ClickFails
  <2>1. /\ Count("failures", MaxFailures) /\ navigation' = None
        /\ UNCHANGED <<status, previous, stream, shown, script>>
    BY <1>2 DEF ClickFails
  <2>2. /\ bounds' \in [clicks : Nat, failures : Nat, reconnects : Nat]
        /\ bounds.reconnects > 0 => bounds'.reconnects > 0
    BY <2>1, Counts DEF PageInv
  <2>3. StreamInv'
    BY <2>1 DEF PageInv, StreamInv, script
  <2>4. PageTypes'
    BY <2>1, <2>2 DEF PageInv, PageTypes, script
  <2>5. ReloadInv' /\ Remembered'
    BY <2>1, <2>2 DEF PageInv, ReloadInv, Remembered, script
  <2> QED BY <2>3, <2>4, <2>5 DEF PageInv
<1> QED BY <1>1, <1>2

LEMMA InsertStep ==
  ASSUME PageConstants, PageInv, Insert
  PROVE  PageInv' /\ (shown # None /\ shown' # None => shown'.revision >= shown.revision)
<1>1. /\ navigation # None /\ navigation.revision # None /\ navigation' = None
      /\ UNCHANGED <<status, previous, stream, bounds>>
  BY DEF Insert
<1>2. navigation.revision \in 0..MaxRevision /\ navigation.page \in {"report", "sources"}
  BY <1>1 DEF PageInv, PageTypes
<1>3. CASE navigation.page = "report" /\ Older(navigation.revision)
  <2>1. UNCHANGED <<shown, script>>
    BY <1>3 DEF Insert
  <2>2. PageInv'
    BY <1>1, <2>1 DEF PageInv, StreamInv, PageTypes, ReloadInv, Remembered, script
  <2>3. shown # None => shown'.revision >= shown.revision
    BY <2>1 DEF PageInv, PageTypes
  <2> QED BY <2>2, <2>3
<1>4. CASE ~(navigation.page = "report" /\ Older(navigation.revision))
  <2>1. /\ shown' = IF navigation.page = "sources" THEN None
                    ELSE [id |-> bounds.clicks + 1, revision |-> navigation.revision]
        /\ importing' = importing /\ latestRevision' = latestRevision
        /\ IF refreshing THEN Failed
           ELSE RefreshReport(shown', importing, latestRevision) /\ UNCHANGED retryTimer
    BY <1>4 DEF Insert
  <2>2. StreamInv'
    BY <1>1, <2>1 DEF PageInv, StreamInv
  <2>3. shown' # None => /\ shown' \in [id : Nat, revision : 0..MaxRevision]
                         /\ shown'.revision = navigation.revision /\ navigation.page = "report"
    <3>1. bounds.clicks + 1 \in Nat
      BY DEF PageInv, PageTypes
    <3> QED BY <1>2, <2>1, <3>1
  <2>4. shown # None /\ shown' # None => shown'.revision >= shown.revision
    <3>1. SUFFICES ASSUME shown # None, shown' # None PROVE shown'.revision >= shown.revision
      OBVIOUS
    <3>2. ~(navigation.revision < shown.revision)
      BY <1>1, <1>4, <2>3, <3>1 DEF Older
    <3> QED BY <1>2, <2>3, <3>1, <3>2 DEF PageInv, PageTypes
  <2>5. CASE refreshing
    <3>1. Failed
      BY <2>1, <2>5
    <3>2. PageInv'
      BY <1>1, <2>1, <2>2, <2>3, <3>1, FailureStep DEF PageInv, PageTypes
    <3> QED BY <2>4, <3>2
  <2>6. CASE ~refreshing
    <3> SUFFICES ASSUME NEW page, page = shown' PROVE PageInv'
      BY <2>4
    <3>1. RefreshReport(page, importing, latestRevision) /\ retryTimer' = retryTimer
      BY <2>1, <2>6
    <3>2. page # None => page \in [id : Nat, revision : 0..MaxRevision]
      BY <2>3
    <3>3. /\ refreshing' \in BOOLEAN /\ refreshing' = (reload' # None) /\ overtaken' \in {FALSE, overtaken}
          /\ refreshing' = Wanted(page, FALSE, importing, latestRevision)
          /\ reload' # None => /\ reload' \in [report : Nat, revision : {None}]
                               /\ page # None /\ reload'.report = page.id /\ reload'.revision = None
      BY <3>1, <3>2, Refreshes
    <3>4. PageTypes'
      BY <1>1, <2>1, <2>3, <3>1, <3>3 DEF PageInv, PageTypes
    <3>5. ReloadInv'
      BY <3>3 DEF ReloadInv
    <3>6. Remembered'
      BY <2>1, <3>3 DEF Remembered, Wanted
    <3> QED BY <2>2, <3>4, <3>5, <3>6 DEF PageInv
  <2> QED BY <2>5, <2>6 DEF PageInv, PageTypes
<1> QED BY <1>3, <1>4

-----------------------------------------------------------------------------
(* Theorems. *)

LEMMA PageStep == ASSUME PageConstants, PageInv, [Next]_vars PROVE PageInv'
<1>1. CASE UNCHANGED vars
  BY <1>1 DEF vars, PageInv, StreamInv, PageTypes, ReloadInv, Remembered
<1>2. CASE Next
  BY <1>2, ServerStep, PollStep, ReconnectStep, ServeStep, ReceiveStep, LoadedStep, TimerStep, InsertStep,
     ReloadFailsStep, ClickStep DEF Next, Page
<1> QED BY <1>1, <1>2

LEMMA PageAlways == ASSUME PageConstants PROVE Spec => []PageInv
<1>1. Init => PageInv
  BY PageInit
<1>2. PageInv /\ [Next]_vars => PageInv'
  BY PageStep
<1> QED BY <1>1, <1>2, PTL DEF Spec

(* A reload is in flight exactly while refreshing says so. *)
THEOREM LivePageTypes == ASSUME PageConstants PROVE Spec => []TypeOK
<1>1. PageInv => TypeOK
  BY DEF PageInv, StreamInv, PageTypes, Statuses, TypeOK
<1> QED BY <1>1, PageAlways, PTL

(* A report that is behind what the page was told of is being reloaded, or a timer
   or the next status of a new stream will reload it, however statuses, reloads,
   failures, clicks and reconnections interleave; the exception is a status that
   overtook a reload. *)
THEOREM ReportsRemembered == ASSUME PageConstants PROVE Spec => []Remembered
<1>1. PageInv => Remembered
  BY DEF PageInv
<1> QED BY <1>1, PageAlways, PTL

(* Whichever of several requests for a report is answered last, what is shown is
   never replaced by something older. *)
THEOREM ReportsNeverOlder == ASSUME PageConstants PROVE Spec => NeverOlder
<1>1. ASSUME PageInv, [Next]_vars
      PROVE  [shown # None /\ shown' # None => shown'.revision >= shown.revision]_vars
  <2>1. CASE UNCHANGED vars
    BY <2>1 DEF vars
  <2>2. CASE Loaded
    BY <1>1, <2>2, LoadedStep
  <2>3. CASE Insert
    BY <1>1, <2>3, InsertStep
  <2>4. CASE UNCHANGED shown
    <3>1. shown # None => shown.revision \in Nat
      BY <1>1 DEF PageInv, PageTypes
    <3> QED BY <2>4, <3>1
  <2>5. \/ UNCHANGED vars \/ Loaded \/ Insert \/ UNCHANGED shown
    BY <1>1 DEF Next, Page, Server, Poll, Reconnect, ServeReload, ServePage, Receive, Timer, ReloadFails, Click,
                ClickFails, script
  <2> QED BY <2>1, <2>2, <2>3, <2>4, <2>5, <1>1
<1> QED BY <1>1, PageAlways, PTL DEF Spec, NeverOlder
=============================================================================
