----------------------------- MODULE LiveReport -----------------------------
(* The page that shows a report while imports commit new revisions: the event
   stream that polls the status, the reload of the report, navigation by the
   user, and what Unpoly does with requests that overtake each other.  A request
   for what is being replaced is aborted, by the click and by the insertion. *)
EXTENDS Naturals, Sequences, SequencesExt

CONSTANTS None,
          MaxRevision, MaxClicks, MaxFailures, MaxReconnects  \* bounds

PageConstants ==
  /\ MaxRevision \in Nat /\ MaxClicks \in Nat /\ MaxFailures \in Nat /\ MaxReconnects \in Nat
  /\ None \notin Nat /\ None \notin [report : Nat, revision : Nat \cup {None}]

VARIABLES status,     \* what the application tells: [state, revision]
          previous,   \* the status the stream sent last, None for a new stream
          stream,     \* statuses on their way
          shown,      \* the report in the page: [id, revision], None without one
          importing, latestRevision, refreshing, retryTimer,  \* of app.js
          reload,     \* the reload in flight: [report, revision], None without one
          navigation, \* the page asked for: [page, revision], None without one
          overtaken,  \* a newer status came while a report was reloaded
          bounds      \* clicks, failures and reconnections so far

vars == <<status, previous, stream, shown, importing, latestRevision, refreshing, retryTimer,
          reload, navigation, overtaken, bounds>>
script == <<importing, latestRevision, refreshing, retryTimer, reload, overtaken>>

Count(what, most) == bounds[what] < most /\ bounds' = [bounds EXCEPT ![what] = @ + 1]

-----------------------------------------------------------------------------
(* The server. *)

StartImport == /\ status.state # "running" /\ status.revision < MaxRevision
               /\ status' = [status EXCEPT !.state = "running"]
Commit == /\ status.state = "running" /\ status.revision < MaxRevision
          /\ status' = [status EXCEPT !.revision = @ + 1]
FinishImport == /\ status.state = "running"
                /\ \E end \in {"succeeded", "failed"} : status' = [status EXCEPT !.state = end]
Server == /\ StartImport \/ Commit \/ FinishImport
          /\ UNCHANGED <<previous, stream, shown, script, navigation, bounds>>

(* Once a second, if it is not what was sent last. *)
Poll == /\ status # previous /\ Len(stream) < 2
        /\ stream' = Append(stream, status) /\ previous' = status
        /\ UNCHANGED <<status, shown, script, navigation, bounds>>
(* The stream breaks and is opened again, after pagehide without the timer. *)
Reconnect == /\ Count("reconnects", MaxReconnects)
             /\ stream' = <<>> /\ previous' = None /\ retryTimer' \in {retryTimer, FALSE}
             /\ UNCHANGED <<status, shown, importing, latestRevision, refreshing, reload, navigation, overtaken>>

(* The report is read when the request is served. *)
ServeReload == /\ reload # None /\ reload.revision = None
               /\ reload' = [reload EXCEPT !.revision = status.revision]
               /\ UNCHANGED <<status, previous, stream, shown, importing, latestRevision, refreshing, retryTimer,
                              navigation, overtaken, bounds>>
ServePage == /\ navigation # None /\ navigation.revision = None
             /\ navigation' = [navigation EXCEPT !.revision = status.revision]
             /\ UNCHANGED <<status, previous, stream, shown, script, bounds>>

-----------------------------------------------------------------------------
(* app.js *)

Wanted(report, busy, waiting, newest) == report # None /\ ~busy /\ ~waiting /\ newest > report.revision
Started(report) == [report |-> report.id, revision |-> None]
(* refreshReport, while nothing is being reloaded. *)
RefreshReport(report, waiting, newest) ==
  IF Wanted(report, FALSE, waiting, newest)
  THEN refreshing' = TRUE /\ reload' = Started(report) /\ overtaken' = FALSE
  ELSE refreshing' = FALSE /\ reload' = None /\ UNCHANGED overtaken

(* The listener of status. *)
Receive ==
  /\ stream # <<>> /\ stream' = Tail(stream)
  /\ LET told == Head(stream)  running == told.state = "running" IN
     /\ importing' = running /\ latestRevision' = told.revision
     /\ IF refreshing
        THEN UNCHANGED <<refreshing, reload>> /\ overtaken' = (overtaken \/ told.revision > latestRevision)
        ELSE RefreshReport(shown, running, told.revision)
  /\ UNCHANGED <<status, previous, shown, retryTimer, navigation, bounds>>

(* The timer that a failure starts.  Slip: a failure is only written off. *)
NoRetry == FALSE
Retry == TRUE
Failed == refreshing' = FALSE /\ reload' = None /\ retryTimer' = Retry /\ UNCHANGED overtaken

(* A response that is older than what is shown is skipped, and so is a reload of
   a report that is not there any more.  Slip: the last response wins. *)
LastWins(revision) == FALSE
Older(revision) == shown # None /\ revision # None /\ revision < shown.revision
Loaded ==
  /\ reload # None /\ reload.revision # None
  /\ shown' = IF Older(reload.revision) \/ shown = None \/ shown.id # reload.report THEN shown
              ELSE [shown EXCEPT !.revision = reload.revision]
  \* The insertion asks for a refresh while refreshing is still set.
  /\ refreshing' = FALSE /\ reload' = None
  /\ UNCHANGED <<status, previous, stream, importing, latestRevision, retryTimer, navigation, overtaken, bounds>>
ReloadFails == /\ reload # None /\ Count("failures", MaxFailures) /\ Failed
               /\ UNCHANGED <<status, previous, stream, shown, importing, latestRevision, navigation>>
Timer == /\ retryTimer /\ retryTimer' = FALSE
         /\ IF refreshing THEN UNCHANGED <<refreshing, reload, overtaken>>
            ELSE RefreshReport(shown, importing, latestRevision)
         /\ UNCHANGED <<status, previous, stream, shown, importing, latestRevision, navigation, bounds>>

(* A click: the page it asks for replaces #main, with the report in it. *)
(* Slip: what aborts a reload leaves its timer and its flag. *)
Ignored == reload' = None /\ UNCHANGED <<refreshing, retryTimer, overtaken>>
Abort == IF refreshing THEN Failed ELSE UNCHANGED <<refreshing, reload, retryTimer, overtaken>>
Click == /\ Count("clicks", MaxClicks)
         /\ \E page \in {"report", "sources"} : navigation' = [page |-> page, revision |-> None]
         /\ Abort /\ UNCHANGED <<status, previous, stream, shown, importing, latestRevision>>
ClickFails == /\ navigation # None /\ Count("failures", MaxFailures) /\ navigation' = None
              /\ UNCHANGED <<status, previous, stream, shown, script>>
Insert ==
  /\ navigation # None /\ navigation.revision # None /\ navigation' = None
  /\ IF navigation.page = "report" /\ Older(navigation.revision) THEN UNCHANGED <<shown, script>>
     ELSE /\ shown' = IF navigation.page = "sources" THEN None
                      ELSE [id |-> bounds.clicks + 1, revision |-> navigation.revision]
          /\ UNCHANGED <<importing, latestRevision>>
          /\ IF refreshing THEN Failed
             ELSE RefreshReport(shown', importing, latestRevision) /\ UNCHANGED retryTimer
  /\ UNCHANGED <<status, previous, stream, bounds>>

Init ==
  /\ status \in [state : {"idle", "running"}, revision : {0}]
  /\ previous = None /\ stream = <<>> /\ shown = [id |-> 0, revision |-> 0]
  /\ importing = FALSE /\ latestRevision = 0 /\ refreshing = FALSE /\ retryTimer = FALSE
  /\ reload = None /\ navigation = None /\ overtaken = FALSE
  /\ bounds = [clicks |-> 0, failures |-> 0, reconnects |-> 0]
Page == Receive \/ Loaded \/ Timer \/ Insert
Next == Server \/ Poll \/ Reconnect \/ ServeReload \/ ServePage \/ Page \/ ReloadFails \/ Click \/ ClickFails
Spec == Init /\ [][Next]_vars
(* Polls, answers and what is due in the page happen; imports, clicks and
   failures need not. *)
FairSpec == /\ Spec /\ WF_vars(Poll) /\ WF_vars(ServeReload) /\ WF_vars(ServePage)
            /\ WF_vars(Receive) /\ WF_vars(Loaded) /\ WF_vars(Timer) /\ WF_vars(Insert)

-----------------------------------------------------------------------------
(* Properties. *)

(* Every variable has its type; a reload is in flight exactly while refreshing. *)
TypeOK ==
  /\ status.revision \in 0..MaxRevision /\ latestRevision \in 0..MaxRevision
  /\ shown # None => shown.revision \in 0..MaxRevision
  /\ {importing, refreshing, retryTimer, overtaken} \subseteq BOOLEAN
  /\ refreshing = (reload # None)

(* A report that is shown is never replaced by an older one, whichever of the
   requests for it is answered last. *)
NeverOlder == [][shown # None /\ shown' # None => shown'.revision >= shown.revision]_vars

(* Nothing is left undone: a report that is older than what the page was told
   of is being reloaded or will be, by the timer or, when pagehide cleared that,
   by the first status of the new stream, unless a status overtook a reload. *)
Remembered ==
  (shown # None /\ ~importing /\ latestRevision > shown.revision) =>
    \/ refreshing \/ retryTimer \/ overtaken
    \/ bounds.reconnects > 0 /\ (previous = None \/ stream # <<>>)

Quiet == <>[](status.state # "running" /\ navigation = None)
UpToDate == shown = None \/ shown.revision = status.revision
(* Once imports and clicks end the page shows the last revision, after failed
   and aborted reloads too, unless a status overtook a reload. *)
CatchesUp == Quiet => <>[](UpToDate \/ overtaken)
=============================================================================
