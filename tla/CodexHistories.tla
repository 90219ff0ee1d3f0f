--------------------------- MODULE CodexHistories ---------------------------
(* Codex threads write their rollouts while Storage reads them.  Threads make
   calls in turns, in either dialect, fill their context, repeat their counts,
   are forked with a copy of what they did, spawn threads that start afresh and
   are archived; an import reads any of the files as far as they are written.
   The writer is Codex itself, as far as read_codex relies on it.

   Call number n uses n tokens, so that a row shows which call it is about. *)
EXTENDS CodexAccounting

CONSTANTS Threads, Models,
          Window,    \* tokens a filled context reports, more than any call uses
          Events,    \* what happens in an instance besides turns, calls and imports
          MaxEvents, MaxCalls, MaxLines  \* bounds: how often, calls, lines per file

HistoryConstants == /\ Fields = {"input", "total"} /\ None \notin Threads
                    /\ Events \subseteq {"fork", "repeat", "fill", "upgrade", "archive"}
                    /\ MaxCalls \in Nat /\ Window \in Nat /\ Window > MaxCalls

VARIABLES file,   \* the rollout of each thread, None before it is created
          calls,  \* the calls made, in order: who made them, with which model
          events  \* how many of Events happened
histVars == <<read, decision, modelDisputes, file, calls, events>>

Existing == {t \in Threads : file[t] # None}
Use(n) == [input |-> n, total |-> n]
Nothing == Use(0)
Sum(u, v) == [f \in Fields |-> u[f] + v[f]]

(* The running total and turn at the end of some lines. *)
CountsIn(lines) == {i \in DOMAIN lines : lines[i].type = "count"}
RunningTotal(lines) ==
  IF CountsIn(lines) = {} THEN Nothing
  ELSE lines[CHOOSE i \in CountsIn(lines) : \A j \in CountsIn(lines) : j <= i].total
TurnsIn(lines) == {i \in DOMAIN lines : lines[i].type = "turn"}
LastTurn(lines) == lines[CHOOSE i \in TurnsIn(lines) : \A j \in TurnsIn(lines) : j <= i]

Fresh(parent, lines, dialect) ==
  [parent |-> parent, lines |-> lines, dialect |-> dialect, place |-> "sessions"]
Written(t, more) == /\ Len(file[t].lines) + Len(more) <= MaxLines
                    /\ file' = [file EXCEPT ![t].lines = @ \o more]
Happens(e) == e \in Events /\ events < MaxEvents /\ events' = events + 1
Root == CHOOSE t \in Threads : TRUE
Clock == Len(calls) + Cardinality(Existing)

HistInit == /\ LedgerInit /\ calls = <<>> /\ events = 0
            /\ \E d \in {"legacy", "both"} :
                 file = [t \in Threads |-> IF t = Root THEN Fresh(None, <<>>, d) ELSE None]

(* A turn begins, with a model. *)
BeginTurn(t, model) ==
  /\ file[t].lines # <<>> => Last(file[t].lines).type # "turn"
  /\ LET n == Cardinality(TurnsIn(file[t].lines)) IN
       Written(t, <<[type |-> "turn", turn |-> <<t, n>>, model |-> model]>>)
  /\ UNCHANGED <<read, decision, modelDisputes, calls, events>>

(* A call: the response record, if the version writes it, and the new count. *)
Call(t) ==
  LET turn == LastTurn(file[t].lines)
      use == Use(Len(calls) + 1)
      total == Sum(RunningTotal(file[t].lines), use)
      response == [type |-> "response", thread |-> t, turn |-> turn.turn, response |-> Len(calls) + 1,
                   total |-> total, last |-> use, at |-> Clock]
      count == [type |-> "count", total |-> total, last |-> use, at |-> Clock]
  IN /\ TurnsIn(file[t].lines) # {} /\ Len(calls) < MaxCalls
     /\ Written(t, IF file[t].dialect = "both" THEN <<response, count>> ELSE <<count>>)
     /\ calls' = Append(calls, [thread |-> t, model |-> turn.model])
     /\ UNCHANGED <<read, decision, modelDisputes, events>>

(* The rate limits change: the last count is written again. *)
RepeatCount(t) ==
  LET lines == file[t].lines IN
  /\ Happens("repeat") /\ lines # <<>> /\ Last(lines).type = "count"
  /\ Written(t, <<[Last(lines) EXCEPT !.at = Clock]>>)
  /\ UNCHANGED <<read, decision, modelDisputes, calls>>

(* fill_to_context_window *)
FillContext(t) ==
  LET filled == [input |-> 0, total |-> Window] IN
  /\ Happens("fill") /\ CountsIn(file[t].lines) # {}
  /\ Written(t, <<[type |-> "count", total |-> Sum(RunningTotal(file[t].lines), filled),
                   last |-> filled, at |-> Clock]>>)
  /\ UNCHANGED <<read, decision, modelDisputes, calls>>

(* A newer version of Codex goes on with the thread. *)
Upgrade(t) ==
  /\ Happens("upgrade") /\ file[t].dialect = "legacy" /\ file' = [file EXCEPT ![t].dialect = "both"]
  /\ UNCHANGED <<read, decision, modelDisputes, calls>>

(* A thread starts from another: with its lines up to a turn's beginning,
   stamped anew or not, or with none of them. *)
Fork(t, c, k, restamped) ==
  LET kept == SubSeq(file[t].lines, 1, k)
      line(i) == IF restamped /\ kept[i].type # "turn" THEN [kept[i] EXCEPT !.at = Clock + 1] ELSE kept[i]
  IN /\ Happens("fork") /\ file[c] = None
     /\ k < Len(file[t].lines) => file[t].lines[k + 1].type = "turn"
     /\ file' = [file EXCEPT ![c] = Fresh(t, [i \in 1 .. k |-> line(i)], file[t].dialect)]
     /\ UNCHANGED <<read, decision, modelDisputes, calls>>

Archive(t) ==
  /\ Happens("archive") /\ file[t].place = "sessions" /\ file' = [file EXCEPT ![t].place = "archived_sessions"]
  /\ UNCHANGED <<read, decision, modelDisputes, calls>>

(* What an import finds of a file: all of it, or all but a last line that is
   still being written (a turn that has begun adds no row). *)
Found(t, k) == Generation([locator |-> <<file[t].place, t>>, thread |-> t, parent |-> file[t].parent,
                           cwd |-> "d", provider |-> "openai", lines |-> SubSeq(file[t].lines, 1, k)])
ImportFiles ==
  /\ \E b \in Batches({Found(t, k) : <<t, k>> \in
                         {<<u, j>> \in Existing \X (0 .. MaxLines) :
                            /\ j \in {Len(file[u].lines) - 1, Len(file[u].lines)}
                            /\ j > 0 => file[u].lines[j].type # "turn"}} \ read) : Import(b)
  /\ UNCHANGED <<file, calls, events>>

HistNext ==
  \/ \E t \in Existing :
       \/ \E model \in Models : BeginTurn(t, model)
       \/ Call(t) \/ RepeatCount(t) \/ FillContext(t) \/ Upgrade(t) \/ Archive(t)
       \/ \E c \in Threads, k \in 0 .. Len(file[t].lines), restamped \in BOOLEAN : Fork(t, c, k, restamped)
  \/ ImportFiles
HistSpec == HistInit /\ [][HistNext]_histVars

-----------------------------------------------------------------------------
(* Properties. *)

CountedFor(n) == {o \in Counted : o.last = Use(n)}

(* However often a call is recorded, copied to forks, repeated, stamped anew,
   archived or read half written, it never counts twice once the file of the
   thread that made it has been read so far.  (Before that, what two forks
   copied from a file since it was read is theirs.) *)
ReadAt(n) == \E g \in read : g.thread = calls[n].thread /\ \E i \in DOMAIN g.rows : g.rows[i].last = Use(n)
NeverTwice == \A n \in DOMAIN calls : ReadAt(n) => Cardinality(CountedFor(n)) <= 1

(* Nothing else counts: no filled context, no repeated count, no sum. *)
OnlyCalls == \A o \in Counted : \E n \in DOMAIN calls : o.last = Use(n)

(* When every file has been read to its end, in whatever order and however
   often before, every call counts, for the thread that made it, at the model
   of its turn. *)
Finished(t) == file[t].lines # <<>> => Last(file[t].lines).type # "turn"
AllRead == \A t \in Existing : Finished(t) /\ Found(t, Len(file[t].lines)) \in read
EveryCall ==
  AllRead => \A n \in DOMAIN calls : \E o \in CountedFor(n) :
               o.owner = calls[n].thread /\ o.model.name = calls[n].model

(* A call that counts goes on counting, whatever is read later. *)
StaysCounted == \A n \in DOMAIN calls : CountedFor(n) # {} => CountedFor(n)' # {}
=============================================================================
