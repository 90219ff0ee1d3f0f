-------------------------- MODULE TranscriptAccess --------------------------
(* A transcript is read on demand from the files a session was imported from,
   while harnesses go on writing them, replace or remove them, the sources are
   imported again and the configured folders change.  One request is followed
   from the ledger to the answer.

   A file holds blocks; a block is the session it is written for and a number no
   other block has, and the first one is the header.  Every change of a file
   stamps it with a later time (mtime and ctime advance). *)
EXTENDS Naturals, Sequences, FiniteSets, SequencesExt

CONSTANTS None, Sessions, Locators, Inodes,
          Harness,    \* of each session
          Recorder,   \* the session whose files record it: its own, but for agents of the Copilot CLI
          Logs,       \* the paths of operation logs of VS Code, *.jsonl
          Listed,     \* the inode each path has in the beginning
          Limit,      \* MAX_TRANSCRIPT_BYTES, in blocks
          MaxWrites,  \* bound: changes of files
          MaxImports  \* bound: generations imported

ASSUME AccessConstants ==
  /\ Limit \in Nat /\ MaxWrites \in Nat /\ MaxImports \in Nat
  /\ Locators \subseteq Nat /\ IsFiniteSet(Locators) /\ Listed \in [Locators -> Inodes \cup {None}]
  /\ None \notin Locators
  /\ Harness \in [Sessions -> {"pi", "codex", "claude", "copilot-vscode", "copilot-cli"}]
  /\ Recorder \in [Sessions -> Sessions]
  /\ \A s \in Sessions : Recorder[s] # s => Harness[s] = "copilot-cli" /\ Recorder[Recorder[s]] = Recorder[s]

VARIABLES ledger,   \* table source_generation: per locator its generations, [session, available, size]
          parents,  \* session.parent_locator of agents of the CLI
          names,    \* the inode each path leads to, None if there is none without a link
          inodes,   \* [blocks, stamp] of each inode
          writes,   \* changes made so far; the time
          request   \* the request that is being answered

vars == <<ledger, parents, names, inodes, writes, request>>
files == <<names, inodes, writes>>

Writers == {s \in Sessions : Recorder[s] = s}
Blocks == Seq(Sessions \X Nat)
Idle == [phase |-> "idle"]
Current(l) == Last(ledger[l])

(* The files that may be read for a session: those whose newest generation is of
   it, whether still there or not.  Of VS Code those that are available and of
   which something counts, whichever the accounting has selected; of the CLI
   those that are available, of an agent the one it was first found in. *)
IsAgent(s) == Recorder[s] # s
Held(s) == {l \in Locators : ledger[l] # <<>> /\ Current(l).session = s}
Available == {l \in Locators : ledger[l] # <<>> /\ Current(l).available}
Candidates(s) ==
  CASE Harness[s] = "copilot-vscode" -> SUBSET (Held(s) \cap Available)
    [] Harness[s] = "copilot-cli"    -> {(IF IsAgent(s) THEN {parents[s]} ELSE Held(s)) \cap Available}
    [] OTHER                         -> {Held(s)}

(* The order they are tried in: logs first, then by path; the longest first; or
   those that are available, then the longest, then by path. *)
Before(s, k, l) ==
  LET a == Current(k)  b == Current(l) IN
  CASE Harness[s] = "copilot-vscode" -> IF k \in Logs <=> l \in Logs THEN k < l ELSE k \in Logs
    [] Harness[s] = "copilot-cli"    -> a.size > b.size
    [] OTHER -> IF a.available # b.available THEN a.available
                ELSE IF a.size # b.size THEN a.size > b.size ELSE k < l
Orders(s) == {q \in UNION {SetToSeqs(c) : c \in Candidates(s)} :
                \A i, j \in DOMAIN q : i < j => ~Before(s, q[j], q[i])}

-----------------------------------------------------------------------------
(* The world: harnesses write, sources are imported. *)

Changed(i, blocks) == inodes' = [inodes EXCEPT ![i] = [blocks |-> blocks, stamp |-> writes + 1]]
Written == writes < MaxWrites /\ writes' = writes + 1

(* A harness goes on, rewrites its file in place, or replaces it by another. *)
GoOn(i) ==
  /\ Written /\ UNCHANGED <<ledger, parents, names>>
  /\ LET b == inodes[i].blocks IN
     \E s \in Writers : (b # <<>> => s = b[1][1]) /\ Changed(i, Append(b, <<s, writes + 1>>))
Truncate(i) == Written /\ inodes[i].blocks # <<>> /\ Changed(i, <<>>) /\ UNCHANGED <<ledger, parents, names>>
Replace(l) ==
  /\ Written
  /\ \E i \in Inodes \ {names[k] : k \in Locators} : \E s \in Writers :
       /\ inodes[i].blocks = <<>>
       /\ names' = [names EXCEPT ![l] = i]
       /\ Changed(i, <<<<s, writes + 1>>>>)
  /\ UNCHANGED <<ledger, parents>>
Unlink(l) == Written /\ names[l] # None /\ names' = [names EXCEPT ![l] = None] /\ UNCHANGED <<ledger, parents, inodes>>
World == (\E i \in Inodes : GoOn(i) \/ Truncate(i)) \/ (\E l \in Locators : Replace(l) \/ Unlink(l))

(* A file that holds something becomes a generation; an agent it records keeps
   the file it was found in first.  A file that is gone is declared missing. *)
Import(l) ==
  /\ IF names[l] \in Inodes /\ inodes[names[l]].blocks # <<>>
     THEN LET b == inodes[names[l]].blocks IN
          /\ Len(ledger[l]) < MaxImports
          /\ ledger' = [ledger EXCEPT ![l] = Append(@, [session |-> b[1][1], available |-> TRUE, size |-> Len(b)])]
          /\ parents' = [s \in Sessions |-> IF IsAgent(s) /\ Recorder[s] = b[1][1] /\ parents[s] = None
                                            THEN l ELSE parents[s]]
     ELSE /\ ledger' = [ledger EXCEPT ![l] = [i \in DOMAIN @ |-> [@[i] EXCEPT !.available = FALSE]]]
          /\ UNCHANGED parents
  /\ UNCHANGED files

-----------------------------------------------------------------------------
(* read_transcript_page and source_snapshot. *)

Answer(how) == [phase |-> "answered", session |-> request.session, how |-> how, roots |-> request.roots,
                sources |-> request.sources, payload |-> request.payload, held |-> request.held, quiet |-> request.quiet]
(* A source that cannot be read is left for the next one. *)
Skip == request' = [request EXCEPT !.phase = "next", !.todo = Tail(@), !.payload = <<>>, !.held = {}]

(* One transaction chooses the sources.  roots: the locators that are inside
   the folders configured now.  held and quiet follow the request only. *)
Ask(s) ==
  /\ request = Idle
  /\ parents[s] # None \/ \E l \in Locators : \E i \in DOMAIN ledger[l] : ledger[l][i].session = s
  /\ \E roots \in SUBSET Locators : \E q \in Orders(s) :
       request' = [phase |-> "next", session |-> s, roots |-> roots, sources |-> q, todo |-> q, inode |-> None,
                   stat |-> None, payload |-> <<>>, held |-> {}, quiet |-> TRUE]

(* Slip: whatever the path leads to is opened. *)
Openable(l) == l \in request.roots /\ names[l] \in Inodes
Open ==
  /\ request.phase = "next" /\ request.todo # <<>>
  /\ LET l == Head(request.todo) IN
     IF Openable(l) /\ Len(inodes[names[l]].blocks) <= Limit
     THEN request' = [request EXCEPT !.phase = "reading", !.inode = names[l], !.stat = inodes[names[l]].stamp,
                                     !.held = {inodes[names[l]].blocks}]
     ELSE Skip

(* Blocks are read one at a time, up to one more than the limit.
   Slip: up to the end. *)
MoreAnyway(got, now) == got < Len(now)
More(got, now) == got < Len(now) /\ got <= Limit
ReadBlock ==
  LET got == Len(request.payload)  now == inodes[request.inode].blocks IN
  /\ request.phase = "reading"
  /\ request' = IF More(got, now) THEN [request EXCEPT !.payload = Append(@, now[got + 1])]
                ELSE [request EXCEPT !.phase = "read"]

(* Slip: only the length is compared with what it was. *)
LengthKept == \E b \in request.held : Len(b) = Len(inodes[request.inode].blocks)
Unchanged == inodes[request.inode].stamp = request.stat
(* Slip: what the file is of is not looked at again. *)
AnySession(payload) == payload # <<>>
OfSession(payload) == payload # <<>> /\ payload[1][1] = Recorder[request.session]
(* Without a header, and for harnesses whose parser refuses another session,
   the search ends with the first source that was read.
   Slip: it ends for every harness. *)
RefusedAny(payload) == ~OfSession(payload)
Refused(payload) == payload = <<>> \/ (payload[1][1] # Recorder[request.session] /\ Harness[request.session] \notin {"pi", "codex"})
Check ==
  /\ request.phase = "read"
  /\ IF ~Unchanged THEN Skip
     ELSE IF OfSession(request.payload) THEN request' = Answer("shown")
     ELSE IF Refused(request.payload) THEN request' = Answer("refused")
     ELSE Skip
GiveUp == request.phase = "next" /\ request.todo = <<>> /\ request' = Answer("unavailable")
Finish == request.phase = "answered" /\ request' = Idle

Step == (\E s \in Sessions : Ask(s)) \/ Open \/ ReadBlock \/ Check \/ GiveUp \/ Finish

(* held: what the open file held since it was opened; quiet: nothing changed. *)
Follow ==
  request' = IF request.phase = "idle" THEN request
             ELSE [request EXCEPT !.quiet = FALSE,
                     !.held = IF request.phase \notin {"reading", "read"} THEN @ ELSE @ \cup {inodes'[request.inode].blocks}]

Init ==
  /\ ledger = [l \in Locators |-> <<>>] /\ parents = [s \in Sessions |-> None] /\ names = Listed /\ writes = 0 /\ request = Idle
  /\ \E of \in [Locators -> Writers \X (1..Limit)] :
       inodes = [i \in Inodes |->
                  [blocks |-> IF \E l \in Locators : Listed[l] = i
                              THEN LET l == CHOOSE k \in Locators : Listed[k] = i IN [n \in 1..of[l][2] |-> <<of[l][1], 0>>]
                              ELSE <<>>,
                   stamp |-> 0]]
Next == \/ World /\ Follow
        \/ (\E l \in Locators : Import(l)) /\ UNCHANGED request
        \/ Step /\ UNCHANGED <<ledger, parents, files>>
Spec == Init /\ [][Next]_vars

-----------------------------------------------------------------------------
(* Properties. *)

Generations == [session : Sessions, available : BOOLEAN, size : Nat]
Readings == [phase : {"next", "reading", "read"}, session : Sessions, roots : SUBSET Locators,
             sources : Seq(Locators), todo : Seq(Locators), inode : Inodes \cup {None}, stat : Nat \cup {None},
             payload : Blocks, held : SUBSET Blocks, quiet : BOOLEAN]
Answers == [phase : {"answered"}, session : Sessions, how : {"shown", "refused", "unavailable"}, roots : SUBSET Locators,
            sources : Seq(Locators), payload : Blocks, held : SUBSET Blocks, quiet : BOOLEAN]

(* Every variable has its type; no file is stamped with a time to come, and what
   was read goes no further than the limit. *)
TypeOK ==
  /\ ledger \in [Locators -> Seq(Generations)]
  /\ parents \in [Sessions -> Locators \cup {None}]
  /\ names \in [Locators -> Inodes \cup {None}]
  /\ inodes \in [Inodes -> [blocks : Blocks, stamp : Nat]]
  /\ writes \in Nat /\ \A i \in Inodes : inodes[i].stamp <= writes
  /\ request \in {Idle} \cup Readings \cup Answers
  /\ request # Idle => Len(request.payload) <= Limit + 1

Shown == request.phase = "answered" /\ request.how = "shown"
(* A page is never put together from two states of a file: what is shown is what
   the file held at one moment of the reading. *)
ShownAtOnce == Shown => request.payload \in request.held /\ Len(request.payload) <= Limit
(* A page shows the session that was asked for, an agent the session it is
   recorded in, also if the file is of another by now. *)
ShownOwn == Shown => request.payload[1][1] = Recorder[request.session]
(* A session is not hidden: when nothing changes meanwhile, a page is refused
   only if none of its sources can be shown, or one before it is not of it. *)
NotHidden ==
  (request.phase = "answered" /\ ~Shown /\ request.quiet) =>
    \A n \in DOMAIN request.sources :
      LET l == request.sources[n]  b == inodes[names[l]].blocks IN
      (l \in request.roots /\ names[l] \in Inodes) =>
        \/ Len(b) > Limit \/ b = <<>> \/ b[1][1] # Recorder[request.session]
        \/ \E m \in 1..(n - 1) : LET k == request.sources[m] IN
             k \in request.roots /\ names[k] \in Inodes /\
               (inodes[names[k]].blocks = <<>> \/ Harness[request.session] \notin {"pi", "codex"})

(* A transcript is read while its files are written, replaced, moved and
   imported again: what is shown is one state of one file of the session, and a
   session is not hidden when one of its files can be shown. *)
ShownWhole == ShownAtOnce /\ ShownOwn /\ NotHidden
=============================================================================
