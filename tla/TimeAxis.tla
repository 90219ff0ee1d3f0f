------------------------------- MODULE TimeAxis -------------------------------
(* The range of a report and the buckets of its chart in a zone whose clocks
   change: a preset or entered dates become instants, and time_axis walks from
   one local midnight, hour or five minutes to the next until the end.
   Instants and local times are numbers of the smallest bucket. *)
EXTENDS Integers, Sequences, FiniteSets, FiniteSetsExt

CONSTANTS Instants, Asked,   \* intervals of numbers; Asked are those that are asked about
          Zones, UTC, Offset, \* of each zone at each instant
          Hour, Day, Week,   \* Week stands for a month too
          Short, Long,       \* up to so long a range has small buckets, hours
          MaxBuckets

AxisConstants == /\ {Hour, Day, Week, Short, Long, MaxBuckets} \subseteq Nat \ {0}
                 /\ Day % Hour = 0 /\ Week % Day = 0 /\ UTC \in Zones
                 /\ \A z \in Zones, i \in Instants : Offset[z][i] \in Int /\ Offset[UTC][i] = 0

VARIABLES zone, now,
          query,  \* [preset, start, end, bucket], the preset "custom" for entered dates
          cursor, axis, phase
vars == <<zone, now, query, cursor, axis, phase>>

Local(z, i) == i + Offset[z][i]
Fold(z, i) == \E j \in Instants : j < i /\ Local(z, j) = Local(z, i)
(* astimezone(UTC) of a local time: the first or, with a fold, the second that
   has it, and in a gap by the offset before or after it. *)
Instant(z, local, fold) ==
  LET at == {i \in Instants : Local(z, i) = local}
      after == Min({i \in Instants : Local(z, i) > local})
  IN CASE at = {} -> local - Offset[z][IF fold THEN after ELSE after - 1]
       [] OTHER -> IF fold THEN Max(at) ELSE Min(at)
Start(local, unit) == local - (local % unit)

(* What is entered must name one instant. *)
Parsed(z, local) == {i \in Instants : Local(z, i) = local}

(* preset_range.  A date that is moved has no fold.  Slip: a day is 24 hours. *)
ElapsedDay(z, i) == [start |-> Instant(z, Start(Local(z, i), Day), Fold(z, i)),
                     end |-> Instant(z, Start(Local(z, i), Day), Fold(z, i)) + Day]
PresetDay(z, i) == LET start == Start(Local(z, i), Day) IN
                   [start |-> Instant(z, start, Fold(z, i)), end |-> Instant(z, start + Day, FALSE)]
PresetWeek(z, i) == LET start == Start(Local(z, i), Week) IN
                    [start |-> Instant(z, start, FALSE), end |-> Instant(z, start + Week, FALSE)]
PresetHour(z, i) == LET start == Instant(z, Start(Local(z, i), Hour), Fold(z, i)) IN
                    [start |-> start, end |-> start + Hour]
Size(range) == LET length == range.end - range.start IN
               IF length <= Short THEN "five_minutes" ELSE IF length <= Long THEN "hour" ELSE "day"

-----------------------------------------------------------------------------
Query(preset, range, bucket) == query = [preset |-> preset, start |-> range.start, end |-> range.end, bucket |-> bucket]
Custom(z) == {[start |-> a, end |-> b] : a, b \in {i \in Asked : Cardinality(Parsed(z, Local(z, i))) = 1}}
(* All time, which is in UTC, starts at the first observation and ends after the last. *)
AllTime == zone = UTC /\ \E last \in Asked : last >= now /\ Query("all", [start |-> now, end |-> last + 1], "day")
Init == /\ now \in Asked /\ zone \in Zones
        /\ \/ AllTime
           \/ Query("day", PresetDay(zone, now), Size(PresetDay(zone, now)))
           \/ Query("week", PresetWeek(zone, now), Size(PresetWeek(zone, now)))
           \/ Query("hour", PresetHour(zone, now), Size(PresetHour(zone, now)))
           \/ \E range \in Custom(zone) : range.start = now /\ range.start < range.end /\ Query("custom", range, Size(range))
        /\ cursor = Instant(zone, Start(Local(zone, query.start), CASE query.bucket = "day" -> Day [] query.bucket = "hour" -> Hour
                                                                    [] OTHER -> 1), Fold(zone, query.start))
        /\ axis = <<>> /\ phase = "walk"

(* The midnight after the cursor.  Slips: 24 hours later, and the midnight
   before that. *)
HoursLater(z, i) == i + Day
ADayLater(z, i) == Instant(z, Start(Local(z, i + Day), Day), FALSE)
NextMidnight(z, i) == Instant(z, Start(Local(z, i), Day) + Day, FALSE)
Following == CASE query.bucket = "day" -> NextMidnight(zone, cursor)
               [] query.bucket = "hour" -> cursor + Hour
               [] OTHER -> cursor + 1
(* Slip: only the end is clipped. *)
EndClipped(from, to) == [start |-> from, end |-> IF query.preset = "all" THEN to ELSE Min({to, query.end})]
Clipped(from, to) == IF query.preset = "all" THEN [start |-> from, end |-> to]
                     ELSE [start |-> Max({from, query.start}), end |-> Min({to, query.end})]
(* Slip: without the limit. *)
StepAnyway == /\ phase = "walk" /\ cursor < query.end
              /\ axis' = Append(axis, Clipped(cursor, Following)) /\ cursor' = Following /\ UNCHANGED <<zone, now, query, phase>>
Step == /\ phase = "walk" /\ cursor < query.end /\ Len(axis) < MaxBuckets
        /\ axis' = Append(axis, Clipped(cursor, Following)) /\ cursor' = Following
        /\ UNCHANGED <<zone, now, query, phase>>
TooLarge == /\ phase = "walk" /\ cursor < query.end /\ Len(axis) >= MaxBuckets /\ phase' = "refused"
            /\ UNCHANGED <<zone, now, query, cursor, axis>>
Finish == /\ phase = "walk" /\ cursor >= query.end /\ phase' = "drawn"
          /\ UNCHANGED <<zone, now, query, cursor, axis>>
Next == Step \/ TooLarge \/ Finish
Spec == Init /\ [][Next]_vars

-----------------------------------------------------------------------------
(* Properties.  Clocks that change by less than an hour, of which the hour may
   then begin twice, are for hours left to SameDay. *)

Within == {i \in Instants : query.start <= i /\ i < query.end}
WholeHours == \A i, j \in Instants : (Offset[zone][i] - Offset[zone][j]) % Hour = 0

(* Every variable has its type. *)
TypeOK == /\ zone \in Zones /\ now \in Asked /\ query.start < query.end /\ phase \in {"walk", "drawn", "refused"}
          /\ query.bucket \in {"day", "hour", "five_minutes"} /\ Len(axis) <= MaxBuckets /\ cursor \in Int

(* The buckets follow each other without a gap or an overlap, none is empty,
   and together they are the range. *)
Tiles ==
  (query.bucket = "hour" => WholeHours) =>
  /\ \A n \in DOMAIN axis : axis[n].start < axis[n].end /\ (n > 1 => axis[n].start = axis[n - 1].end)
  /\ phase = "drawn" =>
       /\ axis # <<>> /\ axis[1].start <= query.start /\ axis[Len(axis)].end >= query.end
       /\ query.preset # "all" => axis[1].start = query.start /\ axis[Len(axis)].end = query.end

(* Two instants share a daily bucket exactly if they are of one local date,
   through days that are longer or shorter or begin twice or not at midnight. *)
SameDay ==
  phase = "drawn" /\ query.bucket = "day" =>
    \A i, j \in Within :
      (\E n \in DOMAIN axis : {i, j} \subseteq axis[n].start .. axis[n].end - 1)
        <=> Start(Local(zone, i), Day) = Start(Local(zone, j), Day)

(* Today is all of the local date, and every preset holds the present, but for
   the hour that repeats the midnight. *)
Midnights(i) == Cardinality(Parsed(zone, Start(Local(zone, i), Day)))
PresetsHoldNow ==
  /\ query.preset = "day" /\ ~(Fold(zone, now) /\ Midnights(now) > 1) =>
       \A i \in Asked : i \in Within <=> Start(Local(zone, i), Day) = Start(Local(zone, now), Day)
  /\ query.preset \in {"day", "week"} \/ (query.preset = "hour" /\ WholeHours) => now \in Within
=============================================================================
