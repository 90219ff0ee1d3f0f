----------------------------- MODULE Accounting -----------------------------
(* The accounts of the five harnesses.  Storage._reconcile calls one after the
   other, each on its own rows: what one decides no other reads.  A behaviour is
   therefore about one of them, named by the variable "harness"; the variables
   of the others are None. *)
EXTENDS Integers, Sequences, FiniteSets

CONSTANTS None, Invalid,
          PiFiles, CodexFiles, ClaudeFiles, CliFiles, VscodeFiles,  \* the files an import may find
          PiUses, PiSessions, PiLocators, PiNatives,                \* what Pi files tell of
          Fields, CoreFields, Total, Measure,                       \* the counters of Codex
          FinalVersions, PlaceholderVersions,                       \* the versions of Claude Code
          MaxBatch,                                                 \* files committed per transaction (32 in the code)
          MaxRead, MaxSources                                       \* bounds: generations imported

VARIABLES harness,
          ledger, decision,      \* Pi, and decision of Codex and Claude
          read, modelDisputes,   \* Codex, and read of all but Pi
          varying,               \* Claude
          tokens, amounts,       \* Copilot CLI, and tokens of VS Code
          credits                \* VS Code
vars == <<harness, ledger, decision, read, modelDisputes, varying, tokens, amounts, credits>>

Pi == INSTANCE PiAccounting WITH
  Sources <- PiFiles, Uses <- PiUses, Sessions <- PiSessions, Locators <- PiLocators, Natives <- PiNatives
Codex == INSTANCE CodexAccounting WITH Files <- CodexFiles, Core <- CoreFields
Claude == INSTANCE ClaudeAccounting WITH Files <- ClaudeFiles
Cli == INSTANCE CopilotCliAccounting WITH Files <- CliFiles
Vscode == INSTANCE CopilotVscodeAccounting WITH Files <- VscodeFiles

ASSUME Constants ==
  /\ Pi!PiConstants
  /\ Codex!FieldsHaveTotal /\ Codex!CodexConstants
  /\ Claude!VersionsDiffer /\ Claude!ClaudeConstants /\ Cli!CliConstants /\ Vscode!VscodeConstants

(* What does not belong to the harness. *)
NoPi == ledger = None
NoCodex == modelDisputes = None
NoClaude == varying = None
NoCopilot == tokens = None /\ amounts = None /\ credits = None

Init ==
  \/ harness = "pi" /\ Pi!Init /\ read = None /\ NoCodex /\ NoClaude /\ NoCopilot
  \/ harness = "codex" /\ Codex!LedgerInit /\ NoPi /\ NoClaude /\ NoCopilot
  \/ harness = "claude" /\ Claude!Init /\ NoPi /\ NoCodex /\ NoCopilot
  \/ harness = "cli" /\ Cli!Init /\ credits = None /\ decision = None /\ NoPi /\ NoCodex /\ NoClaude
  \/ harness = "vscode" /\ Vscode!Init /\ amounts = None /\ decision = None /\ NoPi /\ NoCodex /\ NoClaude

copilot == <<tokens, amounts, credits>>
Next ==
  \/ harness = "pi" /\ Pi!Next /\ UNCHANGED <<harness, read, modelDisputes, varying, copilot>>
  \/ harness = "codex" /\ Codex!Next /\ UNCHANGED <<harness, ledger, varying, copilot>>
  \/ harness = "claude" /\ Claude!Next /\ UNCHANGED <<harness, ledger, modelDisputes, copilot>>
  \/ harness = "cli" /\ Cli!Next /\ UNCHANGED <<harness, ledger, decision, modelDisputes, varying, credits>>
  \/ harness = "vscode" /\ Vscode!Next /\ UNCHANGED <<harness, ledger, decision, modelDisputes, varying, amounts>>
Spec == Init /\ [][Next]_vars

-----------------------------------------------------------------------------
(* Properties. *)

(* Every variable of a harness has its type: what is decided is decided for all
   that was read, and stands for something that was. *)
TypeOK ==
  /\ harness = "pi" => Pi!TypeOK
  /\ harness = "codex" => Codex!TypeOK
  /\ harness = "claude" => Claude!TypeOK
  /\ harness = "cli" => Cli!TypeOK
  /\ harness = "vscode" => Vscode!TypeOK

(* Storage decides again only what its dependency closure reaches from the files
   of a transaction.  It decides as if it decided everything: files arrive in
   any order, change and vanish, and no decision that one of them could alter is
   left as it was. *)
Incremental ==
  /\ harness = "pi" => Pi!Incremental
  /\ harness = "codex" => Codex!Incremental
  /\ harness = "claude" => Claude!Incremental
  /\ harness = "cli" => Cli!Incremental
  /\ harness = "vscode" => Vscode!Incremental

(* One use counts once, however many files hold it: forks and resumed sessions
   that begin with a copy of their parent's entries (Pi), a call in both
   dialects or repeated (Codex), lines that share a message, a request or an
   entry (Claude), tokens told by models and by a summary, credits told by a
   request and by a control (VS Code). *)
CountedOnce ==
  /\ harness = "pi" => Pi!CountedOnce
  /\ harness = "codex" => Codex!CountedOnce
  /\ harness = "claude" => Claude!CountedOnce
  /\ harness = "vscode" => Vscode!CountedOnce /\ Vscode!CreditsOnce

(* No use is lost by being excluded: it stands for one that counts and says the
   same; a control that replaces credits tells of them. *)
NothingLost ==
  /\ harness = "pi" => Pi!NothingLost
  /\ harness = "codex" => Codex!NothingLost
  /\ harness = "claude" => Claude!NothingLost
  /\ harness = "vscode" => Vscode!CreditsKept

(* Nothing is made up: a use is taken for a copy only where histories prove it
   (Pi, Codex), and what counts is in the files as they are now (Copilot). *)
CopiesProven ==
  /\ harness = "pi" => Pi!CopiesProven
  /\ harness = "codex" => Codex!CopiesAreInherited
  /\ harness = "cli" => Cli!OnlyWhatIsThere
  /\ harness = "vscode" => Vscode!OnlyWhatIsTold

(* Where files tell of one use as it grows, the last word counts: the final
   output of a Claude call and not what its stream started with, the readings of
   the current reader and not the previous one's; of a Copilot CLI session the
   largest counters, none while copies continue it differently, and no model
   that its last shutdown no longer reports. *)
LastWordCounts ==
  /\ harness = "claude" => Claude!FinalWins /\ Claude!UpgradeHeals
  /\ harness = "cli" => Cli!LargestCounts /\ Cli!NoRivals /\ Cli!ForgottenModels

(* Nothing counts on contradictory evidence, in whatever order it came. *)
UndisputedOnly ==
  /\ harness = "pi" => Pi!UndisputedOnly
  /\ harness = "codex" => Codex!UndisputedOnly
  /\ harness = "cli" => Cli!Undisputed
=============================================================================
