------------------------------ MODULE MCTimeExpr ------------------------------
(***************************************************************************)
(* TimeExpr around a Sunday at two local hours before, in and after the    *)
(* zone's shift, with words of every kind.                                 *)
(***************************************************************************)
EXTENDS TimeExpr

Word(kind) == [kind |-> kind]
Clock(hour, minute, half) ==
  [kind |-> "clock", hour |-> hour, minute |-> minute, half |-> half]

MCWords ==
  {Word("in"), Word("at"), Word("tomorrow"), Word("other")}
    \cup {[kind |-> "weekday", wday |-> d] : d \in {0, 1}}
    \cup {Clock(12, 0, "am"), Clock(3, 0, "pm"), Clock(2, 30, "24h"), Clock(24, 0, "24h")}
    \cup {[kind |-> "number", n |-> n] : n \in {0, 60, 112}}
    \cup {[kind |-> "amount", n |-> 5, seconds |-> 60], [kind |-> "ordinal", n |-> 2]}
    \cup {[kind |-> "unit", seconds |-> s] : s \in {60, 7 * Day}}

(* A Sunday (day 21 of a calendar that begins with one).                   *)
Sunday == 21 * Day

MCInstants ==
  {Sunday - 30, Sunday + 5400, Sunday + 9000, Sunday + 54000, Sunday + Day - 30}

(* No shift; two to three in the morning skipped; and repeated.            *)
MCZones ==
  {[at |-> 0, before |-> 0, after |-> 0],
   [at |-> Sunday + 7200, before |-> 0, after |-> 3600],
   [at |-> Sunday + 7200, before |-> 3600, after |-> 0]}

(* The zones are of those that the theorems are about.                     *)
ASSUME MCZonesAssumption == \A z \in MCZones : DaytimeShift(z)

(* An int of 26 bits: 60 weeks wrap below zero, 112 weeks above it.        *)
MCIntMax == 33554431
=============================================================================
