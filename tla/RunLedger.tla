----------------------------- MODULE RunLedger -----------------------------
(* What the import service promises to whoever reads the ledger's import_run
   table and the saved sources: imports run one at a time, each over exactly
   the sources saved when it begins; the sources do not change under a running
   import; a run ends once, as succeeded or failed, or is interrupted by the
   next launch after the process died under it.  ImportRuns, the threads and
   the requests of the real process, implements this. *)
EXTENDS Integers, Sequences

CONSTANTS Sources, NoRoots

VARIABLES config,   \* the saved sources (sources.json)
          history,  \* the rows of import_run in ordinal order
          up        \* is a process running on the data directory?

ledgerVars == <<config, history, up>>

Running(h) == h # <<>> /\ h[Len(h)].state = "running"

Init == /\ config = NoRoots
        /\ history = <<>>
        /\ up = FALSE

(* Sources are saved only while no import runs; saving them again unchanged
   is harmless and invisible. *)
Configure == /\ up
             /\ ~Running(history)
             /\ config' \in Sources
             /\ UNCHANGED <<history, up>>

Begin == /\ up
         /\ ~Running(history)
         /\ history' = Append(history, [state |-> "running", roots |-> config, processed |-> 0])
         /\ UNCHANGED <<config, up>>

(* The newest row may count more files; no other field and no other row moves. *)
Counted(h, g) == /\ Len(g) = Len(h)
                 /\ g[Len(h)].processed >= h[Len(h)].processed
                 /\ g = [h EXCEPT ![Len(h)] = [state |-> g[Len(h)].state, roots |-> @.roots,
                                               processed |-> g[Len(h)].processed]]

Advance == /\ up
           /\ Running(history)
           /\ Running(history')
           /\ Counted(history, history')
           /\ UNCHANGED <<config, up>>

Finish == /\ up
          /\ Running(history)
          /\ Counted(history, history')
          /\ history'[Len(history)].state \in {"succeeded", "failed"}
          /\ UNCHANGED <<config, up>>

Stop == /\ up
        /\ up' = FALSE
        /\ UNCHANGED <<config, history>>

Launch == /\ ~up
          /\ up' = TRUE
          /\ history' = IF Running(history)
                        THEN [history EXCEPT ![Len(history)].state = "interrupted"]
                        ELSE history
          /\ UNCHANGED config

Next == Configure \/ Begin \/ Advance \/ Finish \/ Stop \/ Launch

Spec == Init /\ [][Next]_ledgerVars
=============================================================================
