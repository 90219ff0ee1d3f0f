----------------------------- MODULE MCLiveness -----------------------------
(* What must eventually happen, for TLC: in the program that imports, and in a
   page that shows its reports.  A behaviour is about one of them, named by the
   variable "part"; the other stays as it was in the beginning. *)
EXTENDS ImportRuns, TLC

CONSTANT None

VARIABLES part,
          status, previous, stream, shown, importing, latestRevision, refreshing, retryTimer,
          reload, navigation, overtaken, bounds \* of LiveReport
tab == <<status, previous, stream, shown, importing, latestRevision, refreshing, retryTimer,
         reload, navigation, overtaken, bounds>>

Tab == INSTANCE LiveReport WITH MaxRevision <- 2, MaxClicks <- 1, MaxFailures <- 1, MaxReconnects <- 1
ASSUME LivenessConstants == Tab!PageConstants

(* Faults that leave every run accounted for: all but a start_import that dies
   after saving sources and a finish_import that cannot write. *)
AccountedFaults == FaultKinds \ {"begin", "spawn", "finish"}

LiveInit == /\ Init /\ Tab!Init
            /\ (part = "runs" /\ status.state = "idle") \/ part = "page"
InRuns == part = "runs" /\ UNCHANGED <<part, tab>>
InPage == part = "page" /\ UNCHANGED <<part, vars>>
LiveNext == (Next /\ InRuns) \/ (Tab!Next /\ InPage)

(* The fairness of both: FairSpec of ImportRuns and of LiveReport. *)
liveVars == <<part, vars, tab>>
LiveSpec == /\ LiveInit /\ [][LiveNext]_liveVars
            /\ WF_liveVars(WorkerStep /\ InRuns) /\ WF_liveVars(Serve /\ InRuns) /\ WF_liveVars(Exit /\ InRuns)
            /\ \A t \in Threads : WF_liveVars(ThreadStep(t) /\ InRuns)
            /\ WF_liveVars(Tab!Poll /\ InPage) /\ WF_liveVars(Tab!ServeReload /\ InPage) /\ WF_liveVars(Tab!ServePage /\ InPage)
            /\ WF_liveVars(Tab!Receive /\ InPage) /\ WF_liveVars(Tab!Loaded /\ InPage)
            /\ WF_liveVars(Tab!Timer /\ InPage) /\ WF_liveVars(Tab!Insert /\ InPage)

-----------------------------------------------------------------------------
(* Every import that begins comes to an end, no thread keeps Application._lock
   for ever, and a shutdown that began ends, whatever the requests and the worker
   are at and whichever of AccountedFaults occur. *)
NothingHangs == RunsEnd /\ LockReleased /\ ShutdownEnds

(* Once imports and clicks end the page shows the last revision, after reloads
   that failed or were aborted too, unless a status overtook a reload; and until
   then a report that is behind is being reloaded or will be, and none is ever
   replaced by an older one. *)
CatchesUp == Tab!CatchesUp /\ [](Tab!TypeOK /\ Tab!Remembered) /\ Tab!NeverOlder
=============================================================================
