---------------------------- MODULE MCImportRuns ----------------------------
(* Instances of ImportRuns for TLC. *)
EXTENDS ImportRuns, TLC

AllFaults == FaultKinds
(* Faults that leave every run accounted for: all but a start_import that dies
   after saving sources and a finish_import that cannot write. *)
AccountedFaults == FaultKinds \ {"begin", "spawn", "finish"}
FinishFault == {"finish"}

(* The two clients are interchangeable, and so are the two source lists. *)
Interchangeable == Permutations(Clients) \cup Permutations(Roots)
=============================================================================
