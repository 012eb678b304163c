------------------------------- MODULE TimeExpr -------------------------------
(***************************************************************************)
(* `remind coffee chat friday 3pm`: how the CLI tells the message from the *)
(* time, and what second the time becomes.                                 *)
(*                                                                         *)
(* Words are typed one by one and then parsed.  A word is what the parser  *)
(* can tell apart: "in", "at", "tomorrow", a weekday, a clock, a bare      *)
(* number ("5"), an amount ("5min": a number that runs into its unit), an  *)
(* ordinal ("2nd": one that runs into anything else), a unit, any other.   *)
(* Instants are seconds; the zone may change its offset once, and where    *)
(* that skips or repeats a local time mktime may answer with either.       *)
(***************************************************************************)
EXTENDS Integers, Sequences

CONSTANTS
  Words,     \* what can be typed
  MaxWords,  \* BOUND: words of a command
  Instants,  \* when the command can be given
  Zones,     \* records: offset before and after the instant at
  IntMax,    \* the largest int
  None       \* no clock, no weekday, no time

Day == 86400

Numbers == {"number", "amount", "ordinal"}

Kinds == {"in", "at", "tomorrow", "weekday", "clock", "unit", "other"} \cup Numbers

ASSUME WordsAssumption ==
  \A w \in Words :
    /\ w.kind \in Kinds
    /\ w.kind = "weekday" => w.wday \in 0 .. 6
    /\ w.kind = "clock" => w.hour \in Nat /\ w.minute \in Nat /\ w.half \in {"24h", "am", "pm"}
    /\ w.kind \in Numbers => w.n \in 0 .. IntMax
    /\ w.kind \in {"unit", "amount"} => w.seconds \in {60, 3600, Day, 7 * Day}
ASSUME InstantsAssumption == Instants \subseteq Int
ASSUME ZonesAssumption == Zones \subseteq [at: Int, before: Int, after: Int]
ASSUME BoundsAssumption == MaxWords \in Nat /\ IntMax \in Nat
ASSUME NoneAssumption == None \notin Int

VARIABLES
  now,      \* when the command is given
  zone,     \* where
  typed,    \* its words
  message,  \* what is sent to the daemon as message
  fire_at   \* and as fire_at: None until, or unless, it is sent

vars == <<now, zone, typed, message, fire_at>>

-----------------------------------------------------------------------------
(* External: localtime_r and mktime, on seconds of local time.             *)

Offset(t) == IF t < zone.at THEN zone.before ELSE zone.after
Local(t) == t + Offset(t)

Exact(l) == {t \in {l - zone.before, l - zone.after} : Local(t) = l}

Mktime(l) == IF Exact(l) # {} THEN Exact(l) ELSE {l - zone.before, l - zone.after}

Midnight(l) == l - (l % Day)
Wday(l) == (l \div Day) % 7

-----------------------------------------------------------------------------
(* Words.                                                                  *)

HourOf24(hour, half) == IF half = "pm" THEN hour + 12 ELSE hour

(* "pm" adds 12 to hours below 12; "12am" is midnight; "15am" is 15.       *)
HourOf(hour, half) ==
  IF half = "pm" /\ hour < 12 THEN hour + 12
  ELSE IF half = "am" /\ hour = 12 THEN 0
  ELSE hour

(* std::stoi stops where the digits do: "2nd" and "2min" are two o'clock.  *)
parse_clock(w) ==
  IF w.kind = "clock" /\ w.hour <= 23 /\ w.minute <= 59
  THEN HourOf(w.hour, w.half) * 3600 + w.minute * 60
  ELSE IF w.kind \in Numbers /\ w.n <= 23 THEN w.n * 3600
  ELSE None

is_time_token_but_at(w) ==
  w.kind \in {"tomorrow", "weekday"} \/ parse_clock(w) # None

is_time_token(w) ==
  w.kind \in {"tomorrow", "at", "weekday"} \/ parse_clock(w) # None

-----------------------------------------------------------------------------
(* Message and time.                                                       *)

(* The first "in" that is not the first word starts the time.              *)
InPositions(ws) == {k \in 2 .. Len(ws) : ws[k].kind = "in"}

(* Without one, the time is the longest tail of time words.                *)
TimePositions(ws) ==
  {k \in 1 .. Len(ws) : \A j \in k .. Len(ws) : is_time_token(ws[j])}

Least(S, default) == IF S = {} THEN default ELSE CHOOSE k \in S : \A j \in S : k <= j

TimeStart(ws) ==
  IF InPositions(ws) # {} THEN Least(InPositions(ws), 1)
  ELSE Least(TimePositions(ws), Len(ws) + 1)

MessageOf(ws) == SubSeq(ws, 1, TimeStart(ws) - 1)
TimeOf(ws) == SubSeq(ws, TimeStart(ws), Len(ws))

-----------------------------------------------------------------------------
(* The time expression e.                                                  *)

Wrap(x) == ((x + IntMax + 1) % (2 * (IntMax + 1))) - (IntMax + 1)

(* int times int: an overflow is undefined, and wraps or is done in a      *)
(* wider register.                                                         *)
Product(a, b) == IF a * b <= IntMax THEN {a * b} ELSE {Wrap(a * b), a * b}

(* "in", a number, a unit: iss >> n >> unit takes for the unit the rest of *)
(* the number's word, or if nothing is left of that the next word.         *)
IsRelative(e) ==
  /\ Len(e) >= 2 /\ e[1].kind = "in"
  /\ \/ e[2].kind = "amount"
     \/ e[2].kind = "number" /\ Len(e) >= 3 /\ e[3].kind = "unit"

UnitOf(e) == IF e[2].kind = "amount" THEN e[2].seconds ELSE e[3].seconds

(* The rest of the line is ignored; 0 if it is not "in N unit".            *)
Seconds(e) == IF IsRelative(e) THEN Product(e[2].n, UnitOf(e)) ELSE {0}

HasTomorrow(e) == \E k \in DOMAIN e : e[k].kind = "tomorrow"

(* The last of them wins.                                                  *)
LastOf(e, Test(_), Value(_)) ==
  LET K == {k \in DOMAIN e : Test(e[k])}
  IN  IF K = {} THEN None ELSE Value(e[CHOOSE k \in K : \A j \in K : k >= j])

ClockOf(e) == LastOf(e, LAMBDA w : parse_clock(w) # None, parse_clock)
WdayOf(e) == LastOf(e, LAMBDA w : w.kind = "weekday", LAMBDA w : w.wday)

DaysAheadOrToday(from, to) == (to - from) % 7

(* Always future: the weekday of today is the one of next week.            *)
DaysAhead(from, to) == IF to - from <= 0 THEN to - from + 7 ELSE to - from

TodayAt(clock) == Mktime(Midnight(Local(now)) + clock)

TodayAtAnyRate(clock) == TodayAt(clock)

TodayOrADayLater(clock) ==
  {IF t <= now THEN t + Day ELSE t : t \in TodayAt(clock)}

(* Today if that is ahead, else a day later than what mktime made of it.   *)
TodayOrTomorrow(clock) ==
  UNION {IF t <= now THEN Mktime(Local(t) + Day) ELSE {t} : t \in TodayAt(clock)}

(* Days from today, at the clock or at midnight.                           *)
DateAt(days, clock) ==
  Mktime(Midnight(Local(now)) + days * Day + (IF clock = None THEN 0 ELSE clock))

Absolute(e) ==
  IF HasTomorrow(e) THEN DateAt(1, ClockOf(e))
  ELSE IF WdayOf(e) # None THEN DateAt(DaysAhead(Wday(Local(now)), WdayOf(e)), ClockOf(e))
  ELSE IF ClockOf(e) # None THEN TodayOrTomorrow(ClockOf(e))
  ELSE {None}

parse_time_expr(e) ==
  UNION {IF s > 0 THEN {now + s} ELSE Absolute(e) : s \in Seconds(e)}

-----------------------------------------------------------------------------
Init ==
  /\ now \in Instants
  /\ zone \in Zones
  /\ typed = <<>>
  /\ message = <<>>
  /\ fire_at = None

Type(w) ==
  /\ fire_at = None
  /\ Len(typed) < MaxWords
  /\ typed' = Append(typed, w)
  /\ UNCHANGED <<now, zone, message, fire_at>>

AddWithoutMessage ==
  /\ fire_at = None
  /\ typed # <<>>
  /\ \E t \in parse_time_expr(TimeOf(typed)) \ {None} :
       /\ message' = MessageOf(typed)
       /\ fire_at' = t
  /\ UNCHANGED <<now, zone, typed>>

(* ADD, unless the message is empty or the time is not understood.         *)
Add ==
  /\ fire_at = None
  /\ MessageOf(typed) # <<>>
  /\ \E t \in parse_time_expr(TimeOf(typed)) \ {None} :
       /\ message' = MessageOf(typed)
       /\ fire_at' = t
  /\ UNCHANGED <<now, zone, typed>>

(* The next command.                                                       *)
Again ==
  /\ typed # <<>>
  /\ typed' = <<>>
  /\ message' = <<>>
  /\ fire_at' = None
  /\ UNCHANGED <<now, zone>>

Next == (\E w \in Words : Type(w)) \/ Add \/ Again

Spec == Init /\ [][Next]_vars

-----------------------------------------------------------------------------
Added == fire_at # None

(* Every variable keeps to its type, and what is added has a message.      *)
TypeOK ==
  /\ now \in Instants
  /\ zone \in Zones
  /\ typed \in Seq(Words)
  /\ message \in Seq(Words)
  /\ fire_at = None \/ fire_at \in Int
  /\ Added => message # <<>>

(* Whatever is typed, and whenever: a reminder lies ahead.  (check_timers  *)
(* would fire another at once.)  In a zone whose shifts keep clear of      *)
(* midnight, that is (DaytimeShift): where midnight itself is repeated or  *)
(* skipped it is false.                                                    *)
FiresLater == Added => fire_at > now

(* A shift of the zone that keeps clear of midnight by its own width, on   *)
(* both of the clocks it is told on: what it skips or repeats, and what    *)
(* mktime makes of a skipped time, is of one and the same local day.       *)
Width(z) == IF z.before <= z.after THEN z.after - z.before ELSE z.before - z.after

DaytimeShift(z) == (z.at + z.before) % Day \in Width(z) .. Day - 2 * Width(z)

(***************************************************************************)
(* The documented forms: a message of other words, then one of             *)
(*   in N unit | tomorrow [clock] | weekday [at] [clock] | clock           *)
(***************************************************************************)
IsClock(w) == w.kind = "clock" /\ w.hour \in 0 .. 23 /\ w.minute <= 59
              /\ (w.half # "24h" => w.hour \in 1 .. 12)

Form(e) ==
  \/ Len(e) = 3 /\ e[1].kind = "in" /\ e[2].kind = "number" /\ e[3].kind = "unit"
  \/ Len(e) = 1 /\ (e[1].kind \in {"tomorrow", "weekday"} \/ IsClock(e[1]))
  \/ Len(e) = 2 /\ e[1].kind \in {"tomorrow", "weekday"} /\ IsClock(e[2])
  \/ Len(e) = 3 /\ e[1].kind = "weekday" /\ e[2].kind = "at" /\ IsClock(e[3])

PlainUpTo(k) == \A j \in 1 .. k : typed[j].kind = "other"

Documented(k) == PlainUpTo(k) /\ Form(SubSeq(typed, k + 1, Len(typed)))

(* A command of a documented form is split where its writer would: no word *)
(* of the time ends in the message, no word of the message in the time.    *)
DocumentedSplit ==
  Added => \A k \in 1 .. Len(typed) : Documented(k) => message = SubSeq(typed, 1, k)

(* Twelve hours, twice, the day beginning at 12 am.                        *)
Reads(w) ==
  60 * w.minute + 3600 * (IF w.half = "24h" THEN w.hour
                          ELSE (w.hour % 12) + (IF w.half = "pm" THEN 12 ELSE 0))

Wants(e, l) ==
  /\ IF e[1].kind = "weekday" THEN Wday(l) = e[1].wday /\ Midnight(l) > Local(now)
     ELSE IF e[1].kind = "tomorrow" THEN Midnight(l) = Midnight(Local(now)) + Day
     ELSE l > Local(now)
  /\ l % Day = IF IsClock(e[Len(e)]) THEN Reads(e[Len(e)]) ELSE 0

(* The zone's offset is the same now, then, and all of today.              *)
NoShift == zone.before = zone.after \/ zone.at < now - Day \/ zone.at > fire_at + Day

(* A reminder with a documented date or clock fires at the first local     *)
(* time after now that is as written: the day named, tomorrow, or today if *)
(* the clock is still ahead, on the minute.                                *)
NextOccurrence ==
  Added /\ NoShift =>
    \A k \in 1 .. Len(typed) :
      LET e == SubSeq(typed, k + 1, Len(typed))
      IN  Documented(k) /\ ~IsRelative(e) =>
            /\ Wants(e, Local(fire_at))
            /\ \A d \in 1 .. 7 :
                 Local(fire_at) - d * Day > Local(now) => ~Wants(e, Local(fire_at) - d * Day)

(* Skipped by the zone's shift.                                            *)
Skipped(l) == Exact(l) = {}

(* The clock written is the local clock at which the reminder fires, also  *)
(* across a shift of the zone, unless that local time is skipped, on the   *)
(* day of the command or on the day of the reminder.                       *)
ClockSurvivesShift ==
  LET clock == ClockOf(TimeOf(typed))
  IN  Added /\ clock # None /\ Seconds(TimeOf(typed)) = {0} =>
        \/ Local(fire_at) % Day = clock
        \/ \E l \in {Local(now), Local(fire_at)} : Skipped(Midnight(l) + clock)
=============================================================================
