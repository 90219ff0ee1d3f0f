------------------------ MODULE CopilotCliTranscript ------------------------
(* A call of a tool is recorded up to three times in a session of the Copilot
   command line: in the message that requests it, when it starts and when it is
   complete.  The page shows it once, with its output.  The file is read twice:
   first calls and completions are collected, then the entries are made. *)
EXTENDS Naturals, Sequences, FiniteSets, SequencesExt, FiniteSetsExt

CONSTANTS None, Calls,
          MaxCalls, MaxLines \* bounds: requests of a message, lines of a file

CopilotCliTranscriptConstants == MaxCalls \in Nat /\ MaxLines \in Nat /\ None \notin Calls

VARIABLES lines,     \* of the file
          line,      \* read in this pass
          pass,      \* "write", "collect" or "show"
          preferred, \* the line of the message that first requests a call
          fallback,  \* the line where a call first starts
          completed, \* for each call the lines of its completions, in order
          entries,   \* what the page shows: [line, call, output], or notices
          emitted    \* calls shown
vars == <<lines, line, pass, preferred, fallback, completed, entries, emitted>>

(* A message that is not valid has no text or identity; a completion that is not
   valid contradicts itself.  Events of other conversations are not visible. *)
Messages == [kind : {"message"}, visible : BOOLEAN, valid : BOOLEAN, calls : BoundedSeq(Calls, MaxCalls)]
Starts == [kind : {"start"}, visible : BOOLEAN, valid : {TRUE}, calls : {<<c>> : c \in Calls}]
Completions == [kind : {"complete"}, visible : BOOLEAN, valid : BOOLEAN, calls : {<<c>> : c \in Calls}]
Events == Messages \cup Starts \cup Completions

Write(event) ==
  /\ pass = "write" /\ Len(lines) < MaxLines
  /\ lines' = Append(lines, event)
  /\ UNCHANGED <<line, pass, preferred, fallback, completed, entries, emitted>>
Open ==
  /\ pass = "write" /\ lines # <<>> /\ pass' = "collect"
  /\ UNCHANGED <<lines, line, preferred, fallback, completed, entries, emitted>>

Reading(what) == pass = what /\ line < Len(lines) /\ line' = line + 1
Event == lines[line + 1]
SetDefault(f, calls) == [c \in Calls |-> IF f[c] = None /\ c \in ToSet(calls) THEN line' ELSE f[c]]

Collect ==
  /\ Reading("collect")
  /\ LET taken(kind) == Event.visible /\ Event.kind = kind IN
     /\ preferred' = IF taken("message") /\ Event.valid THEN SetDefault(preferred, Event.calls) ELSE preferred
     /\ fallback' = IF taken("start") THEN SetDefault(fallback, Event.calls) ELSE fallback
     /\ completed' = IF taken("complete") THEN [completed EXCEPT ![Event.calls[1]] = Append(@, line')] ELSE completed
  /\ UNCHANGED <<lines, pass, entries, emitted>>
Rewind ==
  /\ pass = "collect" /\ line = Len(lines)
  /\ pass' = "show" /\ line' = 0
  /\ UNCHANGED <<lines, preferred, fallback, completed, entries, emitted>>

(* The first completion after the call's origin, if it is well formed.  Slip:
   wherever it is. *)
Origin(call) == IF preferred[call] # None THEN preferred[call] ELSE fallback[call]
Anywhere(call) == completed[call]
Later(call) == SelectSeq(completed[call], LAMBDA n : n > Origin(call))
Output(call) ==
  IF Origin(call) = None \/ Later(call) = <<>> THEN None
  ELSE IF lines[Head(Later(call))].valid THEN Head(Later(call)) ELSE None

Shown(call) == [line |-> line', call |-> call, output |-> Output(call)]
(* Slip: counted from 0. *)
FromZero == [line |-> line, call |-> None, output |-> None]
Notice == [line |-> line', call |-> None, output |-> None]
(* The calls of the event that are shown there: a start only if no message
   requests the call.  Slip: if none has yet. *)
NoneYet(call) == call \notin emitted
Unrequested(call) == preferred[call] = None /\ call \notin emitted
New(calls) == SelectSeq([n \in DOMAIN calls |-> IF calls[n] \notin emitted /\ \A m \in 1 .. n - 1 : calls[m] # calls[n]
                                               THEN calls[n] ELSE None], LAMBDA c : c # None)
Here ==
  IF ~Event.visible THEN <<>>
  ELSE CASE Event.kind = "message" -> IF Event.valid THEN New(Event.calls) ELSE <<>>
         [] Event.kind = "start"   -> SelectSeq(Event.calls, Unrequested)
         [] OTHER                  -> <<>>
(* A message without its text and a contradictory completion leave a notice. *)
Unreadable == Event.visible /\ ~Event.valid
Show ==
  /\ Reading("show")
  /\ entries' = entries \o (IF Unreadable THEN <<Notice>> ELSE [n \in DOMAIN Here |-> Shown(Here[n])])
  /\ emitted' = emitted \cup ToSet(Here)
  /\ UNCHANGED <<lines, pass, preferred, fallback, completed>>

Init == /\ lines = <<>> /\ line = 0 /\ pass = "write"
        /\ preferred = [c \in Calls |-> None] /\ fallback = preferred
        /\ completed = [c \in Calls |-> <<>>] /\ entries = <<>> /\ emitted = {}
Next == (\E event \in Events : Write(event)) \/ Open \/ Collect \/ Rewind \/ Show
Spec == Init /\ [][Next]_vars

-----------------------------------------------------------------------------
Done == pass = "show" /\ line = Len(lines)
Of(kind, call) == {n \in DOMAIN lines : lines[n].visible /\ lines[n].kind = kind /\ call \in ToSet(lines[n].calls)}
Requests(call) == {n \in Of("message", call) : lines[n].valid}
ShownAt(call) == {n \in DOMAIN entries : entries[n].call = call}

TypeOK == /\ pass \in {"write", "collect", "show"} /\ line \in 0 .. Len(lines)
          /\ \A n \in DOMAIN entries : entries[n].line \in 1 .. line /\ entries[n].call \in Calls \cup {None}

(* Every call of the conversation that a message or a start records is shown
   exactly once, at its first request, or at its first start if there is none,
   before or after. *)
CallsShownOnce ==
  Done => \A call \in Calls :
    LET recorded == IF Requests(call) # {} THEN Requests(call) ELSE Of("start", call)
    IN  /\ Cardinality(ShownAt(call)) = IF recorded = {} THEN 0 ELSE 1
        /\ \A n \in ShownAt(call) : entries[n].line = Min(recorded)

(* A call's output is recorded after the call is shown, and no completion of
   the call lies between them: an output is never the one of an earlier use of
   the identity, nor of one that an invalid completion stands before. *)
OutputFollows ==
  Done => \A n \in DOMAIN entries :
    LET call == entries[n].call
        after == {m \in Of("complete", call) : m > entries[n].line}
    IN  call # None => entries[n].output = IF after # {} /\ lines[Min(after)].valid THEN Min(after) ELSE None
=============================================================================
