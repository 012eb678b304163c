--------------------------- MODULE TimeExprProofs ---------------------------
(***************************************************************************)
(* Theorems of TimeExpr, for commands of any length, ints of any width,    *)
(* any instant and any zone; those about local times for any zone whose    *)
(* shifts keep clear of midnight.                                          *)
(***************************************************************************)
EXTENDS TimeExpr, SequenceTheorems, WellFoundedInduction, TLAPS

LEMMA LeastIsFirst ==
  ASSUME NEW S, NEW k \in S, S \subseteq Int, \A j \in S : k <= j, NEW default
  PROVE  Least(S, default) = k
<1>1. \A x \in S : (\A j \in S : x <= j) => x = k
  OBVIOUS
<1> QED BY <1>1 DEF Least

LEMMA HoursOfADay ==
  ASSUME NEW hour \in 0 .. 23, NEW half
  PROVE  HourOf(hour, half) \in 0 .. 23
<1>1. CASE half = "pm" /\ hour < 12
  BY <1>1 DEF HourOf
<1>2. CASE ~(half = "pm" /\ hour < 12) /\ half = "am" /\ hour = 12
  BY <1>2 DEF HourOf
<1>3. CASE ~(half = "pm" /\ hour < 12) /\ ~(half = "am" /\ hour = 12)
  BY <1>3 DEF HourOf
<1> QED BY <1>1, <1>2, <1>3

(* Every clock of twelve or twenty-four hours is a time word.              *)
LEMMA ClocksAreTokens ==
  ASSUME NEW w \in Words, IsClock(w)
  PROVE  is_time_token(w)
<1>1. w.hour \in 0 .. 23 /\ w.minute \in Nat /\ w.minute <= 59 /\ w.kind = "clock"
  <2>1. w.kind = "clock" /\ w.hour \in 0 .. 23 /\ w.minute <= 59
    BY DEF IsClock
  <2>2. w.minute \in Nat
    BY <2>1, WordsAssumption
  <2> QED BY <2>1, <2>2
<1>2. HourOf(w.hour, w.half) \in Int
  BY <1>1, HoursOfADay
<1>3. HourOf(w.hour, w.half) * 3600 + w.minute * 60 \in Int
  <2>1. HourOf(w.hour, w.half) \in Int /\ w.minute \in Int
    BY <1>1, <1>2
  <2> QED BY <2>1
<1>4. parse_clock(w) = HourOf(w.hour, w.half) * 3600 + w.minute * 60
  BY <1>1 DEF parse_clock
<1> QED BY <1>3, <1>4, NoneAssumption DEF is_time_token

LEMMA OthersAreNot ==
  ASSUME NEW w, w.kind = "other"
  PROVE  ~is_time_token(w)
BY DEF is_time_token, parse_clock, Numbers

(* The time of a command of a documented form begins after its message.    *)
LEMMA TimeStartsThere ==
  ASSUME NEW ws \in Seq(Words), NEW k \in 1 .. Len(ws),
         \A j \in 1 .. k : ws[j].kind = "other",
         Form(SubSeq(ws, k + 1, Len(ws)))
  PROVE  TimeStart(ws) = k + 1
<1> DEFINE e == SubSeq(ws, k + 1, Len(ws))
<1>1. /\ Len(ws) \in Nat /\ k \in Nat
      /\ Len(e) = Len(ws) - k
      /\ \A j \in 1 .. Len(e) : e[j] = ws[k + j] /\ ws[k + j] \in Words
  OBVIOUS
<1>2. \A p \in k + 1 .. Len(ws) : ws[p] = e[p - k] /\ p - k \in 1 .. Len(e) /\ ws[p] \in Words
  BY <1>1
<1>3. CASE Len(e) = 3 /\ e[1].kind = "in"
  <2>1. ws[k + 1].kind = "in" /\ ws[k + 2].kind = "number" /\ ws[k + 3].kind = "unit"
        /\ Len(ws) = k + 3
    BY <1>1, <1>3 DEF Form, IsClock
  <2>2. InPositions(ws) = {k + 1}
    BY <1>1, <2>1 DEF InPositions
  <2>3. Least({k + 1}, 1) = k + 1
    BY <1>1 DEF Least
  <2> QED BY <2>2, <2>3 DEF TimeStart
<1>4. CASE ~(Len(e) = 3 /\ e[1].kind = "in")
  <2>1. /\ Len(e) \in 1 .. 3
        /\ \A j \in 1 .. Len(e) : e[j].kind \in {"tomorrow", "weekday", "at"} \/ IsClock(e[j])
    <3>1. \/ Len(e) = 1 /\ (e[1].kind \in {"tomorrow", "weekday"} \/ IsClock(e[1]))
          \/ Len(e) = 2 /\ e[1].kind \in {"tomorrow", "weekday"} /\ IsClock(e[2])
          \/ Len(e) = 3 /\ e[1].kind = "weekday" /\ e[2].kind = "at" /\ IsClock(e[3])
      BY <1>4 DEF Form
    <3> HIDE DEF e
    <3> QED BY <3>1
  <2>2. \A p \in k + 1 .. Len(ws) : is_time_token(ws[p]) /\ ws[p].kind # "in"
    <3>1. ASSUME NEW p \in k + 1 .. Len(ws)
          PROVE  is_time_token(ws[p]) /\ ws[p].kind # "in"
      <4>1. ws[p].kind \in {"tomorrow", "weekday", "at"} \/ IsClock(ws[p])
        BY <1>2, <2>1
      <4>2. CASE IsClock(ws[p])
        BY <1>2, <4>2, ClocksAreTokens DEF IsClock
      <4>3. CASE ws[p].kind \in {"tomorrow", "weekday", "at"}
        BY <4>3 DEF is_time_token
      <4> QED BY <4>1, <4>2, <4>3
    <3> QED BY <3>1
  <2>3. InPositions(ws) = {}
    BY <1>1, <2>2 DEF InPositions
  <2>4. ~is_time_token(ws[k])
    BY OthersAreNot
  <2>5. k + 1 \in TimePositions(ws)
    BY <1>1, <2>1, <2>2 DEF TimePositions
  <2>6. \A j \in TimePositions(ws) : j \in Int /\ k + 1 <= j
    BY <1>1, <2>4 DEF TimePositions
  <2>7. Least(TimePositions(ws), Len(ws) + 1) = k + 1
    BY <2>5, <2>6, LeastIsFirst
  <2> QED BY <2>3, <2>7 DEF TimeStart
<1> QED BY <1>3, <1>4

-----------------------------------------------------------------------------
(* The commands typed stay sequences of words, and what was added has the  *)
(* message the split gives it.                                             *)
SplitInv ==
  /\ typed \in Seq(Words)
  /\ Added => message = MessageOf(typed)

(* However long a message of plain words, whichever documented time ends   *)
(* the command: the message is exactly those words.                        *)
THEOREM SplitAsDocumented == Spec => []DocumentedSplit
<1>1. Init => SplitInv
  BY DEF Init, SplitInv, Added
<1>2. SplitInv /\ [Next]_vars => SplitInv'
  <2> SUFFICES ASSUME SplitInv, [Next]_vars PROVE SplitInv'
    OBVIOUS
  <2>1. ASSUME NEW w \in Words, Type(w) PROVE SplitInv'
    BY <2>1 DEF Type, SplitInv, Added
  <2>2. CASE Add
    BY <2>2 DEF Add, SplitInv, Added, MessageOf, TimeStart, InPositions, TimePositions
  <2>3. CASE Again
    BY <2>3 DEF Again, SplitInv, Added
  <2>4. CASE UNCHANGED vars
    BY <2>4 DEF vars, SplitInv, Added, MessageOf, TimeStart, InPositions, TimePositions
  <2> QED BY <2>1, <2>2, <2>3, <2>4 DEF Next
<1>3. SplitInv => DocumentedSplit
  <2> SUFFICES ASSUME SplitInv, Added, NEW k \in 1 .. Len(typed), Documented(k)
               PROVE  message = SubSeq(typed, 1, k)
    BY DEF DocumentedSplit
  <2>1. typed \in Seq(Words) /\ message = MessageOf(typed) /\ k \in Int
    BY DEF SplitInv
  <2>2. TimeStart(typed) = k + 1
    BY <2>1, TimeStartsThere DEF Documented, PlainUpTo
  <2>3. TimeStart(typed) - 1 = k
    BY <2>1, <2>2
  <2> QED BY <2>1, <2>3 DEF MessageOf
<1> QED BY <1>1, <1>2, <1>3, PTL DEF Spec

-----------------------------------------------------------------------------
(* Days and seconds of a day.                                              *)

LEMMA DayIsPositive == Day \in Int /\ Day > 0
BY SMT DEF Day

LEMMA DayParts ==
  ASSUME NEW x \in Int
  PROVE  /\ x \div Day \in Int /\ x % Day \in Int
         /\ 0 <= x % Day /\ x % Day < Day
         /\ x = Day * (x \div Day) + (x % Day)
BY SMT DEF Day

LEMMA DaysAreUnique ==
  ASSUME NEW n \in Int, NEW r \in Int, 0 <= r, r < Day
  PROVE  (Day * n + r) \div Day = n /\ (Day * n + r) % Day = r
<1>1. (Day * n + r) \div Day = n
  BY SMT DEF Day
<1>2. (Day * n + r) % Day = r
  BY SMT DEF Day
<1> QED BY <1>1, <1>2

LEMMA DaysDistribute ==
  ASSUME NEW n \in Int, NEW d \in Int
  PROVE  Day * n \in Int /\ d * Day \in Int /\ Day * (n + d) = Day * n + d * Day
BY SMT DEF Day

LEMMA MidnightFacts ==
  ASSUME NEW x \in Int
  PROVE  /\ Midnight(x) \in Int /\ Midnight(x) <= x /\ x < Midnight(x) + Day
         /\ x % Day = x - Midnight(x)
         /\ Midnight(x) = Day * (x \div Day)
<1> DEFINE n == x \div Day
           r == x % Day
           p == Day * n
<1>1. n \in Int /\ r \in Int /\ 0 <= r /\ r < Day /\ x = p + r
  BY DayParts
<1>2. p \in Int
  BY <1>1, DaysDistribute
<1>3. Midnight(x) = x - r
  BY DEF Midnight
<1> HIDE DEF n, r, p
<1>4. x - r = p /\ p <= x /\ x < p + Day /\ r = x - p
  BY <1>1, <1>2, DayIsPositive, SMT
<1> QED BY <1>2, <1>3, <1>4 DEF n, r, p

LEMMA OtherDay ==
  ASSUME NEW x \in Int, NEW d \in Int, NEW y \in Int,
         Midnight(x) + d * Day <= y, y < Midnight(x) + d * Day + Day
  PROVE  y \div Day = (x \div Day) + d /\ Midnight(y) = Midnight(x) + d * Day
<1> DEFINE n == (x \div Day) + d
           m == Midnight(x) + d * Day
           r == y - m
           p == Day * n
<1>1. n \in Int /\ m \in Int /\ p = m
  <2>1. x \div Day \in Int
    BY DayParts
  <2>2. Midnight(x) \in Int /\ Midnight(x) = Day * (x \div Day)
    BY MidnightFacts
  <2>3. d * Day \in Int /\ Day * n = Day * (x \div Day) + d * Day
    BY <2>1, DaysDistribute
  <2> QED BY <2>1, <2>2, <2>3
<1> HIDE DEF n, m, p
<1>2. r \in Int /\ 0 <= r /\ r < Day /\ y = p + r
  BY <1>1, DayIsPositive, SMT DEF m
<1> HIDE DEF r
<1>3. y \div Day = n
  BY <1>1, <1>2, DaysAreUnique DEF p
<1>4. Midnight(y) = p
  BY <1>3, MidnightFacts DEF p
<1> QED BY <1>1, <1>3, <1>4 DEF n, m

LEMMA SameDay ==
  ASSUME NEW x \in Int, NEW y \in Int, Midnight(x) <= y, y < Midnight(x) + Day
  PROVE  y \div Day = x \div Day /\ Midnight(y) = Midnight(x)
<1> DEFINE k == 0 * Day
<1>1. k = 0 /\ Midnight(x) \in Int /\ x \div Day \in Int
  BY DayIsPositive, MidnightFacts, DayParts
<1> HIDE DEF k
<1>2. Midnight(x) + k <= y /\ y < Midnight(x) + k + Day
  BY <1>1, DayIsPositive
<1>3. y \div Day = (x \div Day) + 0 /\ Midnight(y) = Midnight(x) + k
  BY <1>2, OtherDay DEF k
<1> QED BY <1>1, <1>3

LEMMA LaterDay ==
  ASSUME NEW x \in Int, NEW y \in Int, x <= y
  PROVE  Midnight(x) <= Midnight(y)
<1>1. Midnight(x) \in Int /\ Midnight(x) <= x /\ Midnight(y) \in Int /\ y < Midnight(y) + Day
  BY MidnightFacts
<1>2. CASE y < Midnight(x) + Day
  BY <1>1, <1>2, SameDay
<1>3. CASE Midnight(x) + Day <= y
  BY <1>1, <1>3, DayIsPositive
<1> QED BY <1>1, <1>2, <1>3, DayIsPositive

(* d days on, at a second r of the day.                                    *)
LEMMA DayAndTime ==
  ASSUME NEW x \in Int, NEW d \in Int, NEW r \in Int, 0 <= r, r < Day
  PROVE  LET l == Midnight(x) + d * Day + r
         IN  /\ l \in Int /\ l % Day = r
             /\ Midnight(l) = Midnight(x) + d * Day
             /\ Wday(l) = (Wday(x) + d) % 7
<1> DEFINE k == d * Day
           l == Midnight(x) + k + r
<1>1. Midnight(x) \in Int /\ k \in Int
  BY MidnightFacts, DaysDistribute
<1> HIDE DEF k
<1>2. l \in Int /\ Midnight(x) + k <= l /\ l < Midnight(x) + k + Day
  BY <1>1, DayIsPositive
<1> HIDE DEF l
<1>3. l \div Day = (x \div Day) + d /\ Midnight(l) = Midnight(x) + k
  BY <1>2, OtherDay DEF k
<1>4. l % Day = l - Midnight(l)
  BY <1>2, MidnightFacts
<1>5. l % Day = r
  BY <1>1, <1>2, <1>3, <1>4 DEF l
<1>6. Wday(l) = (Wday(x) + d) % 7
  <2>1. \A a \in Int : (a + d) % 7 = ((a % 7) + d) % 7
    BY SMT
  <2>2. x \div Day \in Int
    BY DayParts
  <2> QED BY <1>3, <2>1, <2>2 DEF Wday
<1> QED BY <1>2, <1>3, <1>5, <1>6 DEF k, l

LEMMA TimeOfDay ==
  ASSUME NEW x \in Int, NEW r \in Int, 0 <= r, r < Day
  PROVE  LET l == Midnight(x) + r
         IN  /\ l \in Int /\ l % Day = r
             /\ Midnight(l) = Midnight(x)
             /\ Wday(l) = Wday(x)
<1> DEFINE l == Midnight(x) + r
<1>0. Midnight(x) \in Int
  BY MidnightFacts
<1>1. l \in Int /\ Midnight(x) <= l /\ l < Midnight(x) + Day
  BY <1>0, DayIsPositive
<1> HIDE DEF l
<1>2. l \div Day = x \div Day /\ Midnight(l) = Midnight(x)
  BY <1>1, SameDay
<1>3. l % Day = l - Midnight(l)
  BY <1>1, MidnightFacts
<1>4. l % Day = r
  BY <1>0, <1>1, <1>2, <1>3 DEF l
<1> QED BY <1>1, <1>2, <1>4 DEF l, Wday

-----------------------------------------------------------------------------
(* The splitter and the parser return what their callers expect.           *)

LEMMA LeastNatural ==
  ASSUME NEW S \in SUBSET Nat, S # {}
  PROVE  \E k \in S : \A j \in S : k <= j
<1> DEFINE Before == OpToRel(<, Nat)
<1>1. PICK k \in S : \A j \in S : <<j, k>> \notin Before
  BY NatLessThanWellFounded, WFMin
<1>2. \A j \in S : j < k => <<j, k>> \in Before
  BY DEF OpToRel
<1> HIDE DEF Before
<1>3. ASSUME NEW j \in S PROVE k <= j
  <2>1. ~(j < k)
    BY <1>1, <1>2
  <2>2. j \in Int /\ k \in Int
    OBVIOUS
  <2> QED BY <2>1, <2>2
<1> QED BY <1>3

LEMMA LeastExists ==
  ASSUME NEW S \in SUBSET Nat, S # {}, NEW default
  PROVE  Least(S, default) \in S /\ \A j \in S : Least(S, default) <= j
BY LeastNatural DEF Least

LEMMA SplitTypes ==
  ASSUME NEW ws \in Seq(Words)
  PROVE  /\ TimeStart(ws) \in 1 .. Len(ws) + 1
         /\ MessageOf(ws) \in Seq(Words)
         /\ TimeOf(ws) \in Seq(Words)
<1>1. Len(ws) \in Nat
  OBVIOUS
<1>2. TimeStart(ws) \in 1 .. Len(ws) + 1
  <2>1. CASE InPositions(ws) # {}
    <3>1. InPositions(ws) \in SUBSET Nat /\ InPositions(ws) \subseteq 1 .. Len(ws)
      BY <1>1 DEF InPositions
    <3>2. Least(InPositions(ws), 1) \in InPositions(ws)
      BY <2>1, <3>1, LeastExists
    <3> QED BY <1>1, <2>1, <3>1, <3>2 DEF TimeStart
  <2>2. CASE InPositions(ws) = {} /\ TimePositions(ws) # {}
    <3>1. TimePositions(ws) \in SUBSET Nat /\ TimePositions(ws) \subseteq 1 .. Len(ws)
      BY <1>1 DEF TimePositions
    <3>2. Least(TimePositions(ws), Len(ws) + 1) \in TimePositions(ws)
      BY <2>2, <3>1, LeastExists
    <3> QED BY <1>1, <2>2, <3>1, <3>2 DEF TimeStart
  <2>3. CASE InPositions(ws) = {} /\ TimePositions(ws) = {}
    BY <1>1, <2>3 DEF TimeStart, Least
  <2> QED BY <2>1, <2>2, <2>3
<1>3. \A k \in 1 .. Len(ws) : ws[k] \in Words
  OBVIOUS
<1>4. MessageOf(ws) \in Seq(Words)
  BY <1>1, <1>2, <1>3 DEF MessageOf
<1>5. TimeOf(ws) \in Seq(Words)
  BY <1>1, <1>2, <1>3 DEF TimeOf
<1> QED BY <1>2, <1>4, <1>5

(* A clock is a second of a day.                                           *)
LEMMA ClocksAreSeconds ==
  ASSUME NEW w \in Words, parse_clock(w) # None
  PROVE  parse_clock(w) \in Int /\ 0 <= parse_clock(w) /\ parse_clock(w) < Day
<1>1. CASE w.kind = "clock" /\ w.hour <= 23 /\ w.minute <= 59
  <2>1. w.hour \in 0 .. 23 /\ w.minute \in 0 .. 59
    BY <1>1, WordsAssumption
  <2>2. parse_clock(w) = HourOf(w.hour, w.half) * 3600 + w.minute * 60
    BY <1>1 DEF parse_clock
  <2>3. \A x \in 0 .. 23 : x * 3600 \in Int /\ 0 <= x * 3600 /\ x * 3600 <= 82800
    BY SMT
  <2>4. \A x \in 0 .. 59 : x * 60 \in Int /\ 0 <= x * 60 /\ x * 60 <= 3540
    BY SMT
  <2>5. HourOf(w.hour, w.half) \in 0 .. 23
    BY <2>1, HoursOfADay
  <2> DEFINE h == HourOf(w.hour, w.half) * 3600
             m == w.minute * 60
  <2>6. h \in Int /\ 0 <= h /\ h <= 82800
    BY <2>3, <2>5
  <2>7. m \in Int /\ 0 <= m /\ m <= 3540
    BY <2>1, <2>4
  <2> HIDE DEF h, m
  <2>8. h + m \in Int /\ 0 <= h + m /\ h + m < Day
    BY <2>6, <2>7, SMT DEF Day
  <2> QED BY <2>2, <2>8, SMT DEF h, m
<1>2. CASE ~(w.kind = "clock" /\ w.hour <= 23 /\ w.minute <= 59)
           /\ w.kind \in Numbers /\ w.n <= 23
  <2>1. w.n \in 0 .. 23
    BY <1>2, WordsAssumption, BoundsAssumption DEF Numbers
  <2>2. parse_clock(w) = w.n * 3600
    BY <1>2 DEF parse_clock
  <2>3. \A h \in 0 .. 23 : h * 3600 \in Int /\ 0 <= h * 3600 /\ h * 3600 < Day
    BY SMT DEF Day
  <2> QED BY <2>1, <2>2, <2>3
<1> QED BY <1>1, <1>2 DEF parse_clock

LEMMA GreatestExists ==
  ASSUME NEW n \in Nat, NEW S \in SUBSET (1 .. n), S # {}
  PROVE  \E k \in S : \A j \in S : k >= j
<1> DEFINE T == {n - k : k \in S}
<1>1. T \in SUBSET Nat /\ T # {}
  <2>1. \A k \in S : n - k \in Nat
    BY SMT
  <2> QED BY <2>1
<1>2. PICK m \in T : \A j \in T : m <= j
  BY <1>1, LeastNatural
<1>3. PICK k \in S : m = n - k
  BY <1>2
<1>4. \A j \in S : n - k <= n - j
  BY <1>2, <1>3
<1>5. \A j \in S : k >= j
  BY <1>4
<1> QED BY <1>5

LEMMA ClockOfTypes ==
  ASSUME NEW e \in Seq(Words), ClockOf(e) # None
  PROVE  ClockOf(e) \in Int /\ 0 <= ClockOf(e) /\ ClockOf(e) < Day
<1> DEFINE K == {k \in DOMAIN e : parse_clock(e[k]) # None}
           last == CHOOSE k \in K : \A j \in K : k >= j
<1>1. ClockOf(e) = IF K = {} THEN None ELSE parse_clock(e[last])
  BY DEF ClockOf, LastOf
<1>2. K # {}
  BY <1>1
<1>3. Len(e) \in Nat /\ K \in SUBSET (1 .. Len(e))
  OBVIOUS
<1>4. last \in K
  BY <1>2, <1>3, GreatestExists
<1>5. e[last] \in Words /\ parse_clock(e[last]) # None
  BY <1>3, <1>4
<1> QED BY <1>1, <1>2, <1>5, ClocksAreSeconds

LEMMA WdayOfTypes ==
  ASSUME NEW e \in Seq(Words), WdayOf(e) # None
  PROVE  WdayOf(e) \in 0 .. 6
<1> DEFINE K == {k \in DOMAIN e : e[k].kind = "weekday"}
           last == CHOOSE k \in K : \A j \in K : k >= j
<1>1. WdayOf(e) = IF K = {} THEN None ELSE e[last].wday
  BY DEF WdayOf, LastOf
<1>2. K # {}
  BY <1>1
<1>3. Len(e) \in Nat /\ K \in SUBSET (1 .. Len(e))
  OBVIOUS
<1>4. last \in K
  BY <1>2, <1>3, GreatestExists
<1>5. e[last] \in Words /\ e[last].kind = "weekday"
  BY <1>3, <1>4
<1> QED BY <1>1, <1>2, <1>5, WordsAssumption

-----------------------------------------------------------------------------
(* The zone and mktime.                                                    *)

LEMMA ZoneTypes ==
  ASSUME zone \in Zones
  PROVE  /\ zone.at \in Int /\ zone.before \in Int /\ zone.after \in Int
         /\ \A t \in Int : Offset(t) \in Int /\ Local(t) \in Int
<1>1. zone.at \in Int /\ zone.before \in Int /\ zone.after \in Int
  BY ZonesAssumption
<1> QED BY <1>1 DEF Offset, Local

LEMMA MktimeTypes ==
  ASSUME zone \in Zones, NEW l \in Int, NEW t \in Mktime(l)
  PROVE  /\ t \in Int
         /\ t = l - zone.before \/ t = l - zone.after
         /\ Local(t) = l \/ Skipped(l)
<1>1. zone.before \in Int /\ zone.after \in Int
  BY ZoneTypes
<1>2. t = l - zone.before \/ t = l - zone.after
  BY DEF Mktime, Exact
<1>3. Local(t) = l \/ Skipped(l)
  BY DEF Mktime, Exact, Skipped
<1> QED BY <1>1, <1>2, <1>3

(* The local times a daytime shift skips or repeats are of one day.        *)
LEMMA ShiftFacts ==
  ASSUME zone \in Zones, DaytimeShift(zone)
  PROVE  LET base == zone.at + zone.before
         IN  /\ Width(zone) \in Int /\ 0 <= Width(zone)
             /\ base \in Int /\ Midnight(base) \in Int
             /\ Midnight(base) <= base - Width(zone)
             /\ base + 2 * Width(zone) <= Midnight(base) + Day
<1> DEFINE base == zone.at + zone.before
           w == Width(zone)
           r == base % Day
<1>1. zone.at \in Int /\ zone.before \in Int /\ zone.after \in Int
  BY ZoneTypes
<1>2. base \in Int
  BY <1>1
<1>3. w \in Int /\ 0 <= w
  <2>1. CASE zone.before <= zone.after
    BY <1>1, <2>1 DEF Width
  <2>2. CASE ~(zone.before <= zone.after)
    BY <1>1, <2>2 DEF Width
  <2> QED BY <2>1, <2>2
<1>4. r \in w .. Day - 2 * w
  BY DEF DaytimeShift
<1> HIDE DEF base, w
<1>5. r = base - Midnight(base) /\ Midnight(base) \in Int
  BY <1>2, MidnightFacts
<1> HIDE DEF r
<1>6. w <= r /\ r <= Day - 2 * w
  BY <1>3, <1>4, DayIsPositive
<1>7. Midnight(base) <= base - w /\ base + 2 * w <= Midnight(base) + Day
  BY <1>2, <1>3, <1>5, <1>6, DayIsPositive, SMT
<1> QED BY <1>2, <1>3, <1>5, <1>7 DEF base, w

(* What mktime makes of a skipped time is of the same day.                 *)
LEMMA SkippedKeepsDay ==
  ASSUME zone \in Zones, DaytimeShift(zone), NEW l \in Int, Skipped(l), NEW t \in Mktime(l)
  PROVE  Midnight(Local(t)) = Midnight(l)
<1> DEFINE base == zone.at + zone.before
           w == Width(zone)
<1>1. zone.at \in Int /\ zone.before \in Int /\ zone.after \in Int
  BY ZoneTypes
<1>2. t \in Int /\ (t = l - zone.before \/ t = l - zone.after)
  BY MktimeTypes
<1>3. zone.at <= l - zone.before /\ l - zone.after < zone.at
  <2>1. \A x \in {l - zone.before, l - zone.after} : x + Offset(x) # l
    BY DEF Skipped, Exact, Local
  <2>2. l - zone.before + Offset(l - zone.before) # l
    BY <2>1
  <2>3. l - zone.after + Offset(l - zone.after) # l
    BY <2>1
  <2>4. zone.at <= l - zone.before
    BY <1>1, <2>2 DEF Offset
  <2>5. l - zone.after < zone.at
    BY <1>1, <2>3 DEF Offset
  <2> QED BY <2>4, <2>5
<1>4. w = zone.after - zone.before
  BY <1>1, <1>3 DEF Width
<1>5. Local(t) = l + w \/ Local(t) = l - w
  <2>1. CASE t = l - zone.before
    BY <1>1, <1>2, <1>3, <1>4, <2>1 DEF Local, Offset
  <2>2. CASE t = l - zone.after
    BY <1>1, <1>2, <1>3, <1>4, <2>2 DEF Local, Offset
  <2> QED BY <1>2, <2>1, <2>2
<1>6. base <= l /\ l < base + w
  BY <1>1, <1>3, <1>4
<1>7. /\ w \in Int /\ 0 <= w /\ base \in Int /\ Midnight(base) \in Int
      /\ Midnight(base) <= base - w /\ base + 2 * w <= Midnight(base) + Day
  BY ShiftFacts
<1> HIDE DEF base, w
<1>8. Midnight(l) = Midnight(base)
  <2>1. Midnight(base) <= l /\ l < Midnight(base) + Day
    BY <1>6, <1>7, DayIsPositive
  <2> QED BY <1>7, <2>1, SameDay
<1>9. Midnight(Local(t)) = Midnight(base)
  <2>1. Local(t) \in Int
    BY <1>5, <1>7
  <2>2. Midnight(base) <= Local(t) /\ Local(t) < Midnight(base) + Day
    BY <1>5, <1>6, <1>7, DayIsPositive
  <2> QED BY <1>7, <2>1, <2>2, SameDay
<1> QED BY <1>8, <1>9

(* A local time of a later day is later, whatever mktime makes of it.      *)
LEMMA LaterDayIsLater ==
  ASSUME zone \in Zones, DaytimeShift(zone), now \in Int,
         NEW l \in Int, Local(now) < Midnight(l), NEW t \in Mktime(l)
  PROVE  now < t
<1> DEFINE base == zone.at + zone.before
           w == Width(zone)
<1>1. zone.at \in Int /\ zone.before \in Int /\ zone.after \in Int /\ Local(now) \in Int
  BY ZoneTypes
<1>2. t \in Int /\ (t = l - zone.before \/ t = l - zone.after)
      /\ (Local(t) = l \/ Skipped(l))
  BY MktimeTypes
<1>3. Midnight(l) \in Int /\ Midnight(l) <= l
  BY MidnightFacts
<1>4. CASE Skipped(l)
  <2>1. Local(t) \in Int /\ Midnight(Local(t)) = Midnight(l)
    BY <1>2, <1>4, SkippedKeepsDay, ZoneTypes
  <2>2. Midnight(l) <= Local(t)
    BY <2>1, MidnightFacts
  <2>3. Local(now) < Local(t)
    BY <1>1, <1>3, <2>1, <2>2
  <2>4. zone.before <= zone.after
    <3>1. l - zone.before + Offset(l - zone.before) # l
      BY <1>4 DEF Skipped, Exact, Local
    <3>2. l - zone.after + Offset(l - zone.after) # l
      BY <1>4 DEF Skipped, Exact, Local
    <3>3. zone.at <= l - zone.before
      BY <1>1, <3>1 DEF Offset
    <3>4. l - zone.after < zone.at
      BY <1>1, <3>2 DEF Offset
    <3> QED BY <1>1, <3>3, <3>4
  <2> QED BY <1>1, <1>2, <2>3, <2>4 DEF Local, Offset
<1>5. CASE Local(t) = l
  <2>1. Local(now) < l
    BY <1>1, <1>3
  <2>2. CASE t >= zone.at \/ now < zone.at \/ zone.before <= zone.after
    BY <1>1, <1>2, <1>5, <2>1, <2>2 DEF Local, Offset
  <2>3. CASE t < zone.at /\ zone.at <= now /\ zone.after < zone.before
    <3>1. w = zone.before - zone.after
      BY <1>1, <2>3 DEF Width
    <3>2. base - w <= Local(now)
      BY <1>1, <2>3, <3>1 DEF Local, Offset
    <3>3. l < base
      BY <1>1, <1>2, <1>5, <2>3 DEF Local, Offset
    <3>4. /\ w \in Int /\ 0 <= w /\ base \in Int /\ Midnight(base) \in Int
          /\ Midnight(base) <= base - w /\ base + 2 * w <= Midnight(base) + Day
      BY ShiftFacts
    <3> HIDE DEF base, w
    <3>5. Midnight(base) <= l /\ l < Midnight(base) + Day
      BY <1>1, <2>1, <3>2, <3>3, <3>4, DayIsPositive
    <3>6. Midnight(l) = Midnight(base)
      BY <3>4, <3>5, SameDay
    <3> QED BY <1>1, <3>2, <3>4, <3>6
  <2> QED BY <1>1, <1>2, <2>2, <2>3
<1> QED BY <1>2, <1>4, <1>5

-----------------------------------------------------------------------------
(* What parse_time_expr can return.                                        *)

LEMMA SecondsTypes ==
  ASSUME NEW e \in Seq(Words)
  PROVE  Seconds(e) \subseteq Int
<1>1. CASE ~IsRelative(e)
  BY <1>1 DEF Seconds
<1>2. CASE IsRelative(e)
  <2> DEFINE n == e[2].n
             s == UnitOf(e)
             p == n * s
  <2>1. /\ Len(e) \in Nat /\ Len(e) >= 2
        /\ e[2].kind = "amount" \/ (e[2].kind = "number" /\ Len(e) >= 3 /\ e[3].kind = "unit")
    BY <1>2 DEF IsRelative
  <2>2. e[2] \in Words /\ (e[2].kind # "amount" => e[3] \in Words)
    BY <2>1
  <2>3. n \in Int
    BY <2>1, <2>2, WordsAssumption, BoundsAssumption DEF Numbers
  <2>4. s \in Int
    <3>1. Day \in Int /\ 7 * Day \in Int
      BY DayIsPositive
    <3>2. CASE e[2].kind = "amount"
      BY <2>2, <3>1, <3>2, WordsAssumption DEF UnitOf
    <3>3. CASE e[2].kind # "amount"
      BY <2>1, <2>2, <3>1, <3>3, WordsAssumption DEF UnitOf
    <3> QED BY <3>2, <3>3
  <2> HIDE DEF n, s
  <2>5. p \in Int
    BY <2>3, <2>4
  <2> HIDE DEF p
  <2>6. Wrap(p) \in Int
    <3> DEFINE m == 2 * (IntMax + 1)
               x == p + IntMax + 1
    <3>1. m \in Int /\ m > 0 /\ x \in Int /\ IntMax \in Int
      BY <2>5, BoundsAssumption
    <3> HIDE DEF m, x
    <3>2. x % m \in Int
      BY <3>1
    <3>3. (x % m) - (IntMax + 1) \in Int
      BY <3>1, <3>2
    <3> QED BY <3>3 DEF m, x, Wrap
  <2>7. Seconds(e) = Product(n, s)
    BY <1>2 DEF Seconds, n, s
  <2>8. Product(n, s) \subseteq {p, Wrap(p)}
    BY DEF Product, p
  <2> QED BY <2>5, <2>6, <2>7, <2>8
<1> QED BY <1>1, <1>2

LEMMA WdayTypes ==
  ASSUME NEW x \in Int
  PROVE  Wday(x) \in 0 .. 6
<1>1. x \div Day \in Int
  BY DayParts
<1>2. \A d \in Int : d % 7 \in 0 .. 6
  BY SMT
<1> QED BY <1>1, <1>2 DEF Wday

LEMMA DaysAheadTypes ==
  ASSUME NEW from \in 0 .. 6, NEW to \in 0 .. 6
  PROVE  DaysAhead(from, to) \in 1 .. 7
BY DEF DaysAhead

(* So many seconds from now, a day of the week to come, or the next time a *)
(* clock shows.                                                            *)
LEMMA Outcomes ==
  ASSUME zone \in Zones, now \in Int, NEW e \in Seq(Words),
         NEW t \in parse_time_expr(e), t # None
  PROVE  \/ \E s \in Seconds(e) : s > 0 /\ t = now + s
         \/ \E d \in 1 .. 7 : t \in DateAt(d, ClockOf(e))
         \/ ClockOf(e) # None /\ t \in TodayOrTomorrow(ClockOf(e))
<1>1. PICK s \in Seconds(e) : t \in (IF s > 0 THEN {now + s} ELSE Absolute(e))
  BY DEF parse_time_expr
<1>2. CASE s > 0
  BY <1>1, <1>2
<1>3. CASE ~(s > 0)
  <2>1. t \in Absolute(e)
    BY <1>1, <1>3
  <2>2. CASE HasTomorrow(e)
    <3>1. t \in DateAt(1, ClockOf(e)) /\ 1 \in 1 .. 7
      BY <2>1, <2>2 DEF Absolute
    <3> QED BY <3>1
  <2>3. CASE ~HasTomorrow(e) /\ WdayOf(e) # None
    <3>1. Wday(Local(now)) \in 0 .. 6 /\ WdayOf(e) \in 0 .. 6
      BY <2>3, WdayTypes, WdayOfTypes, ZoneTypes
    <3>2. DaysAhead(Wday(Local(now)), WdayOf(e)) \in 1 .. 7
      BY <3>1, DaysAheadTypes
    <3>3. t \in DateAt(DaysAhead(Wday(Local(now)), WdayOf(e)), ClockOf(e))
      BY <2>1, <2>3 DEF Absolute
    <3> QED BY <3>2, <3>3
  <2>4. CASE ~HasTomorrow(e) /\ WdayOf(e) = None
    BY <2>1, <2>4 DEF Absolute
  <2> QED BY <2>2, <2>3, <2>4
<1> QED BY <1>2, <1>3

(* The local time asked for by a date.                                     *)
LEMMA Dates ==
  ASSUME zone \in Zones, now \in Int, NEW d \in Int, NEW clock,
         clock # None => clock \in Int /\ 0 <= clock /\ clock < Day,
         NEW t \in DateAt(d, clock)
  PROVE  \E l \in Int :
           /\ t \in Mktime(l)
           /\ Midnight(l) = Midnight(Local(now)) + d * Day
           /\ l % Day = IF clock = None THEN 0 ELSE clock
           /\ Wday(l) = (Wday(Local(now)) + d) % 7
<1> DEFINE r == IF clock = None THEN 0 ELSE clock
           l == Midnight(Local(now)) + d * Day + r
<1>1. r \in Int /\ 0 <= r /\ r < Day
  BY DayIsPositive
<1>2. Local(now) \in Int
  BY ZoneTypes
<1>3. t \in Mktime(l)
  BY DEF DateAt
<1> HIDE DEF r
<1>4. /\ l \in Int /\ l % Day = r
      /\ Midnight(l) = Midnight(Local(now)) + d * Day
      /\ Wday(l) = (Wday(Local(now)) + d) % 7
  BY <1>1, <1>2, DayAndTime
<1> HIDE DEF l
<1>5. l % Day = IF clock = None THEN 0 ELSE clock
  BY <1>4 DEF r
<1> QED BY <1>3, <1>4, <1>5

LEMMA DatesAreLater ==
  ASSUME zone \in Zones, now \in Int, NEW d \in 1 .. 7, NEW l \in Int,
         Midnight(l) = Midnight(Local(now)) + d * Day
  PROVE  Local(now) < Midnight(l)
<1> DEFINE k == d * Day
<1>1. k \in Int /\ Day <= k
  BY SMT DEF Day
<1>2. Local(now) \in Int
  BY ZoneTypes
<1>3. Midnight(Local(now)) \in Int /\ Local(now) < Midnight(Local(now)) + Day
  BY <1>2, MidnightFacts
<1> HIDE DEF k
<1>4. Midnight(l) = Midnight(Local(now)) + k
  BY DEF k
<1> QED BY <1>1, <1>2, <1>3, <1>4, DayIsPositive, SMT

(* The local time asked for by a clock: today, or a day after what mktime  *)
(* made of today.                                                          *)
LEMMA Clocks ==
  ASSUME zone \in Zones, now \in Int,
         NEW clock \in Int, 0 <= clock, clock < Day, NEW t \in TodayOrTomorrow(clock)
  PROVE  LET today == Midnight(Local(now)) + clock
         IN  /\ today \in Int /\ today % Day = clock
             /\ Midnight(today) = Midnight(Local(now))
             /\ \/ t \in Mktime(today) /\ now < t
                \/ \E c \in Mktime(today) : c <= now /\ t \in Mktime(Local(c) + Day)
<1> DEFINE today == Midnight(Local(now)) + clock
<1>1. Local(now) \in Int
  BY ZoneTypes
<1>2. today \in Int /\ today % Day = clock /\ Midnight(today) = Midnight(Local(now))
  BY <1>1, TimeOfDay
<1>3. PICK c \in Mktime(today) : t \in (IF c <= now THEN Mktime(Local(c) + Day) ELSE {c})
  BY DEF TodayOrTomorrow, TodayAt
<1> HIDE DEF today
<1>4. c \in Int
  BY <1>2, MktimeTypes
<1>5. CASE c <= now
  BY <1>2, <1>3, <1>5 DEF today
<1>6. CASE ~(c <= now)
  <2>1. t = c /\ now < c
    BY <1>3, <1>4, <1>6
  <2> QED BY <1>2, <1>3, <2>1 DEF today
<1> QED BY <1>5, <1>6

-----------------------------------------------------------------------------
(***************************************************************************)
(* What was added is what the split and the parser make of the words       *)
(* typed.  The properties of times follow from it in every state: how      *)
(* often words were typed and commands given has no part in them.          *)
(***************************************************************************)
TimeInv ==
  /\ now \in Instants
  /\ zone \in Zones
  /\ typed \in Seq(Words)
  /\ message \in Seq(Words)
  /\ Added => /\ message = MessageOf(typed)
              /\ message # <<>>
              /\ fire_at \in parse_time_expr(TimeOf(typed))

(* The same words at the same instant in the same zone can mean the same.  *)
LEMMA SameTimes ==
  ASSUME UNCHANGED <<now, zone>>, NEW e
  PROVE  parse_time_expr(e)' = parse_time_expr(e)
<1>1. \A t : Offset(t)' = Offset(t)
  BY DEF Offset
<1>2. \A t : Local(t)' = Local(t)
  BY <1>1 DEF Local
<1>3. \A l : Mktime(l)' = Mktime(l)
  BY <1>2 DEF Mktime, Exact
<1>4. \A d, clock : DateAt(d, clock)' = DateAt(d, clock)
  BY <1>2, <1>3 DEF DateAt
<1>5. \A clock : TodayOrTomorrow(clock)' = TodayOrTomorrow(clock)
  BY <1>2, <1>3 DEF TodayOrTomorrow, TodayAt
<1>6. Absolute(e)' = Absolute(e)
  BY <1>2, <1>4, <1>5 DEF Absolute
<1> QED BY <1>6 DEF parse_time_expr, Seconds

LEMMA TimeInvInit == Init => TimeInv
BY DEF Init, TimeInv, Added

LEMMA TimeInvNext == TimeInv /\ [Next]_vars => TimeInv'
<1> SUFFICES ASSUME TimeInv, [Next]_vars PROVE TimeInv'
  OBVIOUS
<1>1. ASSUME NEW w \in Words, Type(w) PROVE TimeInv'
  BY <1>1 DEF Type, TimeInv, Added
<1>2. CASE Add
  <2>1. UNCHANGED <<now, zone, typed>>
    BY <1>2 DEF Add
  <2>2. MessageOf(typed)' = MessageOf(typed) /\ TimeOf(typed)' = TimeOf(typed)
    BY <2>1 DEF MessageOf, TimeOf, TimeStart, InPositions, TimePositions
  <2>3. /\ message' = MessageOf(typed) /\ MessageOf(typed) # <<>>
        /\ fire_at' \in parse_time_expr(TimeOf(typed))
    BY <1>2 DEF Add
  <2>4. MessageOf(typed) \in Seq(Words)
    BY SplitTypes DEF TimeInv
  <2>5. parse_time_expr(TimeOf(typed))' = parse_time_expr(TimeOf(typed))
    BY <2>1, <2>2, SameTimes
  <2> QED BY <2>1, <2>2, <2>3, <2>4, <2>5 DEF TimeInv
<1>3. CASE Again
  BY <1>3 DEF Again, TimeInv, Added
<1>4. CASE UNCHANGED vars
  <2>1. UNCHANGED <<now, zone, typed, message, fire_at>>
    BY <1>4 DEF vars
  <2>2. MessageOf(typed)' = MessageOf(typed) /\ TimeOf(typed)' = TimeOf(typed)
    BY <2>1 DEF MessageOf, TimeOf, TimeStart, InPositions, TimePositions
  <2>3. parse_time_expr(TimeOf(typed))' = parse_time_expr(TimeOf(typed))
    BY <2>1, <2>2, SameTimes
  <2>4. Added' = Added
    BY <2>1 DEF Added
  <2> QED BY <2>1, <2>2, <2>3, <2>4 DEF TimeInv
<1> QED BY <1>1, <1>2, <1>3, <1>4 DEF Next

(* What TimeInv says of an added reminder.                                 *)
LEMMA AddedFacts ==
  ASSUME TimeInv, Added
  PROVE  /\ zone \in Zones /\ now \in Int
         /\ TimeOf(typed) \in Seq(Words)
         /\ fire_at \in parse_time_expr(TimeOf(typed)) /\ fire_at # None
BY SplitTypes, InstantsAssumption DEF TimeInv, Added

LEMMA TimesAreInts ==
  ASSUME TimeInv, Added
  PROVE  fire_at \in Int
<1> DEFINE e == TimeOf(typed)
<1>1. /\ zone \in Zones /\ now \in Int /\ e \in Seq(Words)
      /\ fire_at \in parse_time_expr(e) /\ fire_at # None
  BY AddedFacts
<1> HIDE DEF e
<1>2. CASE \E s \in Seconds(e) : s > 0 /\ fire_at = now + s
  BY <1>1, <1>2, SecondsTypes
<1>3. ASSUME NEW d \in 1 .. 7, fire_at \in DateAt(d, ClockOf(e)) PROVE fire_at \in Int
  <2>1. ClockOf(e) # None => ClockOf(e) \in Int /\ 0 <= ClockOf(e) /\ ClockOf(e) < Day
    BY <1>1, ClockOfTypes
  <2>2. PICK l \in Int : fire_at \in Mktime(l)
    BY <1>1, <1>3, <2>1, Dates
  <2> QED BY <1>1, <2>2, MktimeTypes
<1>4. CASE ClockOf(e) # None /\ fire_at \in TodayOrTomorrow(ClockOf(e))
  <2> DEFINE today == Midnight(Local(now)) + ClockOf(e)
  <2>1. ClockOf(e) \in Int /\ 0 <= ClockOf(e) /\ ClockOf(e) < Day
    BY <1>1, <1>4, ClockOfTypes
  <2>2. /\ today \in Int
        /\ \/ fire_at \in Mktime(today) /\ now < fire_at
           \/ \E c \in Mktime(today) : c <= now /\ fire_at \in Mktime(Local(c) + Day)
    BY <1>1, <1>4, <2>1, Clocks
  <2> HIDE DEF today
  <2>3. ASSUME NEW c \in Mktime(today), fire_at \in Mktime(Local(c) + Day)
        PROVE  fire_at \in Int
    <3>1. Local(c) \in Int
      BY <1>1, <2>2, MktimeTypes, ZoneTypes
    <3>2. Local(c) + Day \in Int
      BY <3>1, DayIsPositive
    <3> QED BY <1>1, <2>3, <3>2, MktimeTypes
  <2> QED BY <1>1, <2>2, <2>3, MktimeTypes
<1> QED BY <1>1, <1>2, <1>3, <1>4, Outcomes

(* Whatever is typed, what is sent to the daemon is a message of words, at *)
(* least one, and a second: an int product that wrapped included.          *)
THEOREM TimesTypeCorrect == Spec => []TypeOK
<1>1. TimeInv => TypeOK
  BY TimesAreInts DEF TimeInv, TypeOK, Added
<1> QED BY <1>1, TimeInvInit, TimeInvNext, PTL DEF Spec

-----------------------------------------------------------------------------
(***************************************************************************)
(* Around a shift that is not a daytime shift, mktime may answer with an   *)
(* instant that has passed: at a quarter to twelve, told a second time on  *)
(* a night that goes back from 00:30, "tomorrow" is the midnight that was  *)
(* a while ago.  These theorems are about zones that have no such night.   *)
(***************************************************************************)
DaytimeShifts == \A z \in Zones : DaytimeShift(z)

LEMMA TodayHasClock ==
  ASSUME zone \in Zones, DaytimeShift(zone), now \in Int,
         NEW l \in Int, NEW c \in Mktime(l), Midnight(l) = Midnight(Local(now))
  PROVE  /\ Local(c) + Day \in Int
         /\ Local(now) < Midnight(Local(c) + Day)
         /\ (Local(c) + Day) % Day = Local(c) % Day
<1>1. c \in Int /\ (Local(c) = l \/ Skipped(l))
  BY MktimeTypes
<1>2. Local(c) \in Int /\ Local(now) \in Int
  BY <1>1, ZoneTypes
<1>3. Midnight(Local(c)) = Midnight(Local(now))
  BY <1>1, SkippedKeepsDay
<1> DEFINE x == Local(c)
           r == x % Day
           k == 1 * Day
<1>4. /\ Midnight(x) \in Int /\ r = x - Midnight(x)
      /\ Midnight(x) <= x /\ x < Midnight(x) + Day
      /\ Local(now) < Midnight(Local(now)) + Day
  BY <1>2, MidnightFacts
<1>5. k = Day /\ r \in Int /\ 0 <= r /\ r < Day
  BY <1>2, <1>4, DayIsPositive
<1> HIDE DEF k, x, r
<1>6. Midnight(x) + k + r = x + Day
  BY <1>2, <1>4, <1>5, DayIsPositive DEF x
<1>7. /\ Midnight(x) + k + r \in Int
      /\ (Midnight(x) + k + r) % Day = r
      /\ Midnight(Midnight(x) + k + r) = Midnight(x) + k
  BY <1>2, <1>5, DayAndTime DEF k, x
<1>8. x + Day \in Int /\ (x + Day) % Day = r /\ Midnight(x + Day) = Midnight(x) + Day
  BY <1>5, <1>6, <1>7
<1>9. Local(now) < Midnight(x) + Day
  BY <1>3, <1>4 DEF x
<1> QED BY <1>8, <1>9 DEF x, r

LEMMA TimesAreLater ==
  ASSUME TimeInv, Added, DaytimeShift(zone)
  PROVE  fire_at > now
<1> DEFINE e == TimeOf(typed)
<1>1. /\ zone \in Zones /\ now \in Int /\ e \in Seq(Words)
      /\ fire_at \in parse_time_expr(e) /\ fire_at # None
  BY AddedFacts
<1>2. fire_at \in Int
  BY TimesAreInts
<1> HIDE DEF e
<1>3. CASE \E s \in Seconds(e) : s > 0 /\ fire_at = now + s
  BY <1>1, <1>3, SecondsTypes
<1>4. ASSUME NEW d \in 1 .. 7, fire_at \in DateAt(d, ClockOf(e)) PROVE fire_at > now
  <2>1. ClockOf(e) # None => ClockOf(e) \in Int /\ 0 <= ClockOf(e) /\ ClockOf(e) < Day
    BY <1>1, ClockOfTypes
  <2>2. PICK l \in Int : fire_at \in Mktime(l) /\ Midnight(l) = Midnight(Local(now)) + d * Day
    BY <1>1, <1>4, <2>1, Dates
  <2>3. Local(now) < Midnight(l)
    BY <1>1, <2>2, DatesAreLater
  <2>4. now < fire_at
    BY <1>1, <2>2, <2>3, LaterDayIsLater
  <2> QED BY <1>1, <1>2, <2>4
<1>5. CASE ClockOf(e) # None /\ fire_at \in TodayOrTomorrow(ClockOf(e))
  <2> DEFINE today == Midnight(Local(now)) + ClockOf(e)
  <2>1. ClockOf(e) \in Int /\ 0 <= ClockOf(e) /\ ClockOf(e) < Day
    BY <1>1, <1>5, ClockOfTypes
  <2>2. /\ today \in Int /\ Midnight(today) = Midnight(Local(now))
        /\ \/ fire_at \in Mktime(today) /\ now < fire_at
           \/ \E c \in Mktime(today) : c <= now /\ fire_at \in Mktime(Local(c) + Day)
    BY <1>1, <1>5, <2>1, Clocks
  <2> HIDE DEF today
  <2>3. ASSUME NEW c \in Mktime(today), fire_at \in Mktime(Local(c) + Day)
        PROVE  now < fire_at
    <3>1. Local(c) + Day \in Int /\ Local(now) < Midnight(Local(c) + Day)
      BY <1>1, <2>2, TodayHasClock
    <3> QED BY <1>1, <2>3, <3>1, LaterDayIsLater
  <2>4. now < fire_at
    BY <2>2, <2>3
  <2> QED BY <1>1, <1>2, <2>4
<1> QED BY <1>1, <1>3, <1>4, <1>5, Outcomes

(* A reminder lies ahead when it is added, whatever was typed, whatever    *)
(* mktime makes of times that a daytime shift skips or repeats.            *)
THEOREM RemindersLieAhead ==
  ASSUME DaytimeShifts
  PROVE  Spec => []FiresLater
<1>1. TimeInv => FiresLater
  BY TimesAreLater DEF FiresLater, DaytimeShifts, TimeInv
<1> QED BY <1>1, TimeInvInit, TimeInvNext, PTL DEF Spec

(* The local clock of what mktime made of l.                               *)
LEMMA ClockOrSkipped ==
  ASSUME zone \in Zones, DaytimeShift(zone), NEW l \in Int, NEW t \in Mktime(l)
  PROVE  \/ Local(t) % Day = l % Day
         \/ Skipped(Midnight(Local(t)) + (l % Day))
<1>1. t \in Int /\ (Local(t) = l \/ Skipped(l))
  BY MktimeTypes
<1>2. CASE Local(t) = l
  BY <1>2
<1>3. CASE Skipped(l)
  <2>1. Midnight(Local(t)) = Midnight(l)
    BY <1>3, SkippedKeepsDay
  <2>2. Midnight(l) \in Int /\ l % Day = l - Midnight(l)
    BY MidnightFacts
  <2>3. Midnight(l) + (l % Day) = l
    BY <2>2
  <2> QED BY <1>3, <2>1, <2>3
<1> QED BY <1>1, <1>2, <1>3

LEMMA ClocksSurvive ==
  ASSUME TimeInv, Added, DaytimeShift(zone),
         ClockOf(TimeOf(typed)) # None, Seconds(TimeOf(typed)) = {0}
  PROVE  LET clock == ClockOf(TimeOf(typed))
         IN  \/ Local(fire_at) % Day = clock
             \/ \E l \in {Local(now), Local(fire_at)} : Skipped(Midnight(l) + clock)
<1> DEFINE e == TimeOf(typed)
           clock == ClockOf(e)
           Kept == \/ Local(fire_at) % Day = clock
                   \/ \E l \in {Local(now), Local(fire_at)} : Skipped(Midnight(l) + clock)
<1>1. /\ zone \in Zones /\ now \in Int /\ e \in Seq(Words)
      /\ fire_at \in parse_time_expr(e) /\ fire_at # None
  BY AddedFacts
<1>2. Seconds(e) = {0} /\ clock # None
  OBVIOUS
<1> HIDE DEF e
<1>3. clock \in Int /\ 0 <= clock /\ clock < Day
  BY <1>1, <1>2, ClockOfTypes
<1>4. ASSUME NEW d \in 1 .. 7, fire_at \in DateAt(d, clock) PROVE Kept
  <2>1. PICK l \in Int : fire_at \in Mktime(l) /\ l % Day = clock
    BY <1>1, <1>2, <1>3, <1>4, Dates
  <2> QED BY <1>1, <2>1, ClockOrSkipped
<1>5. ASSUME fire_at \in TodayOrTomorrow(clock) PROVE Kept
  <2> DEFINE today == Midnight(Local(now)) + clock
  <2>1. /\ today \in Int /\ Midnight(today) = Midnight(Local(now))
        /\ today % Day = clock
        /\ \/ fire_at \in Mktime(today) /\ now < fire_at
           \/ \E c \in Mktime(today) : c <= now /\ fire_at \in Mktime(Local(c) + Day)
    BY <1>1, <1>3, <1>5, Clocks
  <2>2. ASSUME Skipped(today) PROVE Kept
    BY <2>2
  <2> HIDE DEF today
  <2>3. ASSUME fire_at \in Mktime(today), ~Skipped(today) PROVE Kept
    <3>1. Local(fire_at) = today
      BY <1>1, <2>1, <2>3, MktimeTypes
    <3> QED BY <2>1, <3>1
  <2>4. ASSUME NEW c \in Mktime(today), fire_at \in Mktime(Local(c) + Day), ~Skipped(today)
        PROVE  Kept
    <3>1. Local(c) = today
      BY <1>1, <2>1, <2>4, MktimeTypes
    <3>2. Local(c) + Day \in Int /\ (Local(c) + Day) % Day = Local(c) % Day
      BY <1>1, <2>1, TodayHasClock
    <3>3. (Local(c) + Day) % Day = clock
      BY <2>1, <3>1, <3>2
    <3> QED BY <1>1, <2>4, <3>2, <3>3, ClockOrSkipped
  <2> QED BY <2>1, <2>2, <2>3, <2>4
<1>6. ~ \E s \in Seconds(e) : s > 0 /\ fire_at = now + s
  BY <1>2
<1>7. Kept
  BY <1>1, <1>4, <1>5, <1>6, Outcomes
<1> QED BY <1>7 DEF e

(* A reminder fires when the local clock shows what was written, also in   *)
(* the week of a daytime shift, unless the shift skips that time.          *)
THEOREM ClocksSurviveShifts ==
  ASSUME DaytimeShifts
  PROVE  Spec => []ClockSurvivesShift
<1>1. TimeInv => ClockSurvivesShift
  BY ClocksSurvive DEF ClockSurvivesShift, DaytimeShifts, TimeInv
<1> QED BY <1>1, TimeInvInit, TimeInvNext, PTL DEF Spec

-----------------------------------------------------------------------------
(* The next occurrence.                                                    *)

LEMMA MidnightOfMidnight ==
  ASSUME NEW x \in Int
  PROVE  Midnight(Midnight(x)) = Midnight(x)
<1>1. Midnight(x) \in Int
  BY MidnightFacts
<1>2. Midnight(x) < Midnight(x) + Day
  BY <1>1, DayIsPositive
<1> QED BY <1>1, <1>2, SameDay

LEMMA DaysEarlier ==
  ASSUME NEW x \in Int, NEW d \in Int
  PROVE  /\ x - d * Day \in Int
         /\ Midnight(x - d * Day) = Midnight(x) - d * Day
         /\ Wday(x - d * Day) = (Wday(x) - d) % 7
<1> DEFINE k == d * Day
           j == (-d) * Day
           r == x % Day
<1>1. k \in Int /\ j = -k
  BY SMT DEF Day
<1>2. Midnight(x) \in Int /\ r = x - Midnight(x)
  BY MidnightFacts
<1>3. r \in Int /\ 0 <= r /\ r < Day
  BY DayParts
<1>4. Wday(x) \in 0 .. 6
  BY WdayTypes
<1>5. /\ Midnight(Midnight(x) + j + r) = Midnight(x) + j
      /\ Wday(Midnight(x) + j + r) = (Wday(x) + (-d)) % 7
  <2>1. -d \in Int
    OBVIOUS
  <2> QED BY <1>3, <2>1, DayAndTime
<1> HIDE DEF k, j, r
<1>6. Midnight(x) + j + r = x - k /\ Midnight(x) + j = Midnight(x) - k /\ x - k \in Int
  BY <1>1, <1>2, <1>3
<1>7. Wday(x) + (-d) = Wday(x) - d
  BY <1>4
<1> QED BY <1>5, <1>6, <1>7 DEF k

LEMMA NotSkipped ==
  ASSUME zone \in Zones, NEW l \in Int, Skipped(l)
  PROVE  zone.at <= l - zone.before /\ l - zone.after < zone.at
<1>1. zone.at \in Int /\ zone.before \in Int /\ zone.after \in Int
  BY ZoneTypes
<1>2. l - zone.before + Offset(l - zone.before) # l
  BY DEF Skipped, Exact, Local
<1>3. l - zone.after + Offset(l - zone.after) # l
  BY DEF Skipped, Exact, Local
<1>4. zone.at <= l - zone.before
  BY <1>1, <1>2 DEF Offset
<1>5. l - zone.after < zone.at
  BY <1>1, <1>3 DEF Offset
<1> QED BY <1>4, <1>5

(* A day away from the shift mktime is exact and keeps the order.          *)
LEMMA AwayFromShift ==
  ASSUME zone \in Zones, DaytimeShift(zone), now \in Int, fire_at \in Int,
         now < fire_at, NoShift,
         NEW l \in Int, Midnight(Local(now)) <= l, NEW t \in Mktime(l), t <= fire_at
  PROVE  Local(t) = l /\ (t <= now <=> l <= Local(now))
<1> DEFINE base == zone.at + zone.before
           w == Width(zone)
<1>1. zone.at \in Int /\ zone.before \in Int /\ zone.after \in Int /\ Local(now) \in Int
  BY ZoneTypes
<1>2. t \in Int /\ (t = l - zone.before \/ t = l - zone.after)
      /\ (Local(t) = l \/ Skipped(l))
  BY MktimeTypes
<1>3. Skipped(l) => zone.at <= l - zone.before /\ l - zone.after < zone.at
  BY NotSkipped
<1>4. /\ w \in Int /\ 0 <= w /\ base \in Int /\ Midnight(base) \in Int
      /\ Midnight(base) <= base - w /\ base + 2 * w <= Midnight(base) + Day
  BY ShiftFacts
<1>5. 3 * w <= Day
  <2> HIDE DEF base, w
  <2> QED BY <1>4, DayIsPositive
<1>6. CASE zone.before = zone.after
  BY <1>1, <1>2, <1>6 DEF Local, Offset
<1>7. CASE zone.at > fire_at + Day
  <2>1. now < zone.at /\ t < zone.at
    BY <1>1, <1>2, <1>7, DayIsPositive
  <2>2. ~Skipped(l)
    <3>1. ASSUME Skipped(l) PROVE FALSE
      <4>1. t = l - zone.after
        BY <1>1, <1>2, <1>3, <2>1, <3>1
      <4>2. w = zone.after - zone.before
        BY <1>1, <1>3, <3>1 DEF Width
      <4>3. zone.at <= t + w
        BY <1>1, <1>2, <1>3, <3>1, <4>1, <4>2
      <4> HIDE DEF w
      <4> QED BY <1>1, <1>2, <1>4, <1>5, <1>7, <4>3, DayIsPositive
    <3> QED BY <3>1
  <2>3. Local(t) = l
    BY <1>2, <2>2
  <2> QED BY <1>1, <1>2, <2>1, <2>3 DEF Local, Offset
<1>8. CASE zone.at < now - Day
  <2>1. Midnight(Local(now)) \in Int /\ Local(now) < Midnight(Local(now)) + Day
    BY <1>1, MidnightFacts
  <2>2. zone.at < now /\ Local(now) = now + zone.after
    BY <1>1, <1>8, DayIsPositive DEF Local, Offset
  <2>3. zone.at + zone.after < l
    BY <1>1, <1>8, <2>1, <2>2, DayIsPositive
  <2>4. Local(t) = l
    BY <1>1, <1>2, <1>3, <2>3
  <2>5. CASE t >= zone.at
    BY <1>1, <1>2, <2>2, <2>4, <2>5 DEF Local, Offset
  <2>6. CASE t < zone.at
    <3>1. l < base
      BY <1>1, <1>2, <2>4, <2>6 DEF Local, Offset
    <3>2. w = zone.before - zone.after
      BY <1>1, <2>3, <3>1 DEF Width
    <3>3. base - w < l /\ base - w + Day < Local(now)
      BY <1>1, <1>8, <2>2, <2>3, <3>2, DayIsPositive
    <3> HIDE DEF base, w
    <3>4. Midnight(base) <= l /\ l < Midnight(base) + Day
      BY <1>4, <3>1, <3>3, DayIsPositive
    <3>5. Midnight(l) = Midnight(base)
      BY <1>4, <3>4, SameDay
    <3>6. Midnight(Local(now)) <= Midnight(l)
      BY <1>1, <2>1, LaterDay, MidnightOfMidnight
    <3>7. Local(now) < Midnight(base) + Day
      BY <1>1, <1>4, <2>1, <3>5, <3>6, DayIsPositive
    <3>8. base - w + Day < Midnight(base) + Day
      BY <1>1, <1>4, <3>3, <3>7, DayIsPositive
    <3> QED BY <1>4, <3>8, DayIsPositive
  <2> QED BY <1>1, <1>2, <2>5, <2>6
<1> QED BY <1>6, <1>7, <1>8 DEF NoShift

LEMMA ClockReads ==
  ASSUME NEW w \in Words, IsClock(w)
  PROVE  parse_clock(w) = Reads(w) /\ parse_clock(w) # None
<1>1. w.kind = "clock" /\ w.hour \in 0 .. 23 /\ w.minute <= 59
      /\ (w.half # "24h" => w.hour \in 1 .. 12)
  BY DEF IsClock
<1>2. w.minute \in Nat /\ w.half \in {"24h", "am", "pm"}
  BY <1>1, WordsAssumption
<1> DEFINE h == HourOf(w.hour, w.half)
           m == w.minute
           hours == IF w.half = "24h" THEN w.hour
                    ELSE (w.hour % 12) + (IF w.half = "pm" THEN 12 ELSE 0)
<1>3. h = hours /\ h \in Int
  <2>1. CASE w.half = "24h"
    BY <1>1, <2>1 DEF HourOf
  <2>2. CASE w.half = "am"
    <3>1. w.hour \in 1 .. 12
      BY <1>1, <2>2
    <3>2. \A x \in 1 .. 12 : (IF x = 12 THEN 0 ELSE x) = x % 12
      BY SMT
    <3> QED BY <2>2, <3>1, <3>2 DEF HourOf
  <2>3. CASE w.half = "pm"
    <3>1. w.hour \in 1 .. 12
      BY <1>1, <2>3
    <3>2. \A x \in 1 .. 12 : (IF x < 12 THEN x + 12 ELSE x) = (x % 12) + 12
      BY SMT
    <3> QED BY <2>3, <3>1, <3>2 DEF HourOf
  <2> QED BY <1>2, <2>1, <2>2, <2>3
<1>4. parse_clock(w) = h * 3600 + m * 60
  BY <1>1 DEF parse_clock
<1>5. Reads(w) = 60 * m + 3600 * hours
  BY DEF Reads
<1> HIDE DEF h, m, hours
<1>6. m \in Int
  BY <1>2 DEF m
<1>7. h * 3600 + m * 60 = 60 * m + 3600 * h /\ h * 3600 + m * 60 \in Int
  BY <1>3, <1>6
<1> QED BY <1>3, <1>4, <1>5, <1>7, NoneAssumption

(* What the parser finds in a date or a clock of a documented form.        *)
LEMMA FormWords ==
  ASSUME NEW e \in Seq(Words), Form(e), ~IsRelative(e)
  PROVE  /\ e[1] \in Words /\ e[Len(e)] \in Words
         /\ Seconds(e) = {0}
         /\ e[1].kind \in {"tomorrow", "weekday"} \/ (Len(e) = 1 /\ IsClock(e[1]))
         /\ HasTomorrow(e) <=> e[1].kind = "tomorrow"
         /\ WdayOf(e) = IF e[1].kind = "weekday" THEN e[1].wday ELSE None
         /\ ClockOf(e) = IF IsClock(e[Len(e)]) THEN Reads(e[Len(e)]) ELSE None
<1>1. \/ Len(e) = 1 /\ (e[1].kind \in {"tomorrow", "weekday"} \/ IsClock(e[1]))
      \/ Len(e) = 2 /\ e[1].kind \in {"tomorrow", "weekday"} /\ IsClock(e[2])
      \/ Len(e) = 3 /\ e[1].kind = "weekday" /\ e[2].kind = "at" /\ IsClock(e[3])
  BY DEF Form, IsRelative
<1>2. Len(e) \in 1 .. 3 /\ DOMAIN e = 1 .. Len(e) /\ \A k \in 1 .. Len(e) : e[k] \in Words
  BY <1>1
<1>3. \A k \in 2 .. Len(e) : e[k].kind \in {"at", "clock"}
  BY <1>1, <1>2 DEF IsClock
<1>4. e[1].kind \in {"tomorrow", "weekday"} \/ (Len(e) = 1 /\ IsClock(e[1]))
  BY <1>1
<1>5. HasTomorrow(e) <=> e[1].kind = "tomorrow"
  BY <1>2, <1>3, <1>4 DEF HasTomorrow
<1>6. WdayOf(e) = IF e[1].kind = "weekday" THEN e[1].wday ELSE None
  <2> DEFINE K == {k \in DOMAIN e : e[k].kind = "weekday"}
             last == CHOOSE k \in K : \A j \in K : k >= j
  <2>1. WdayOf(e) = IF K = {} THEN None ELSE e[last].wday
    BY DEF WdayOf, LastOf
  <2>2. K = IF e[1].kind = "weekday" THEN {1} ELSE {}
    BY <1>2, <1>3
  <2>3. K = {1} => last = 1
    OBVIOUS
  <2> QED BY <2>1, <2>2, <2>3
<1>7. ClockOf(e) = IF IsClock(e[Len(e)]) THEN Reads(e[Len(e)]) ELSE None
  <2> DEFINE K == {k \in DOMAIN e : parse_clock(e[k]) # None}
             last == CHOOSE k \in K : \A j \in K : k >= j
             n == Len(e)
  <2>1. ClockOf(e) = IF K = {} THEN None ELSE parse_clock(e[last])
    BY DEF ClockOf, LastOf
  <2>2. \A k \in 1 .. n - 1 : parse_clock(e[k]) = None
    <3>1. \A k \in 1 .. n - 1 : e[k].kind \in {"tomorrow", "weekday", "at"}
      BY <1>1, <1>2
    <3> QED BY <3>1 DEF parse_clock, Numbers
  <2>3. CASE IsClock(e[n])
    <3>1. parse_clock(e[n]) = Reads(e[n]) /\ parse_clock(e[n]) # None
      BY <1>2, <2>3, ClockReads
    <3>2. K = {n}
      BY <1>2, <2>2, <3>1
    <3>3. last = n
      BY <1>2, <3>2
    <3> QED BY <2>1, <2>3, <3>1, <3>2, <3>3
  <2>4. CASE ~IsClock(e[n])
    <3>1. e[n].kind \in {"tomorrow", "weekday"}
      BY <1>1, <2>4
    <3>2. parse_clock(e[n]) = None
      BY <3>1 DEF parse_clock, Numbers
    <3>3. K = {}
      BY <1>2, <2>2, <3>2
    <3> QED BY <2>1, <2>4, <3>3
  <2> QED BY <2>3, <2>4
<1>8. Seconds(e) = {0}
  BY DEF Seconds
<1> QED BY <1>2, <1>4, <1>5, <1>6, <1>7, <1>8

(* The reminder fires as written, and no whole number of days earlier      *)
(* would have done.                                                        *)
First(e) ==
  /\ Wants(e, Local(fire_at))
  /\ \A d \in 1 .. 7 :
       Local(fire_at) - d * Day > Local(now) => ~Wants(e, Local(fire_at) - d * Day)

LEMMA FirstTomorrow ==
  ASSUME zone \in Zones, now \in Int, NEW e, e[1].kind = "tomorrow",
         NEW l \in Int, Local(fire_at) = l, Midnight(l) = Midnight(Local(now)) + 1 * Day,
         l % Day = IF IsClock(e[Len(e)]) THEN Reads(e[Len(e)]) ELSE 0
  PROVE  First(e)
<1> DEFINE k == 1 * Day
<1>1. Local(now) \in Int
  BY ZoneTypes
<1>2. k = Day /\ Midnight(Local(now)) \in Int /\ Midnight(l) \in Int
  BY <1>1, MidnightFacts, DayIsPositive
<1>3. Midnight(l) = Midnight(Local(now)) + Day
  BY <1>2
<1>4. Wants(e, l)
  BY <1>3 DEF Wants
<1>5. ASSUME NEW d \in 1 .. 7 PROVE ~Wants(e, l - d * Day)
  <2> DEFINE j == d * Day
  <2>1. j \in Int /\ j > 0
    BY SMT DEF Day
  <2>2. Midnight(l - j) = Midnight(l) - j
    BY DaysEarlier
  <2> HIDE DEF j
  <2>3. Midnight(l - j) # Midnight(Local(now)) + Day
    BY <1>2, <1>3, <2>1, <2>2
  <2>4. ~Wants(e, l - j)
    BY <2>3 DEF Wants
  <2> QED BY <2>4 DEF j
<1> QED BY <1>4, <1>5 DEF First

LEMMA DaysToWeekday ==
  ASSUME NEW from \in 0 .. 6, NEW to \in 0 .. 6
  PROVE  /\ (from + DaysAhead(from, to)) % 7 = to
         /\ \A d \in 1 .. 6 : (to - d) % 7 # to
<1>1. \A x, y \in 0 .. 6 : (x + (IF y - x <= 0 THEN y - x + 7 ELSE y - x)) % 7 = y
  BY SMT
<1>2. \A y \in 0 .. 6, d \in 1 .. 6 : (y - d) % 7 # y
  BY SMT
<1> QED BY <1>1, <1>2 DEF DaysAhead

LEMMA FirstWeekday ==
  ASSUME zone \in Zones, now \in Int, NEW e, e[1].kind = "weekday", e[1].wday \in 0 .. 6,
         NEW l \in Int, Local(fire_at) = l, NEW n \in 1 .. 7,
         n = DaysAhead(Wday(Local(now)), e[1].wday),
         Midnight(l) = Midnight(Local(now)) + n * Day,
         Wday(l) = (Wday(Local(now)) + n) % 7,
         l % Day = IF IsClock(e[Len(e)]) THEN Reads(e[Len(e)]) ELSE 0
  PROVE  First(e)
<1> DEFINE k == n * Day
           m == Midnight(Local(now))
<1>1. Local(now) \in Int
  BY ZoneTypes
<1>2. /\ m \in Int /\ m <= Local(now) /\ Local(now) < m + Day
      /\ Midnight(l) \in Int
  BY <1>1, MidnightFacts
<1>3. k \in Int /\ Day <= k /\ k <= 7 * Day
  BY SMT DEF Day
<1>4. Wday(Local(now)) \in 0 .. 6
  BY <1>1, WdayTypes
<1>5. Wday(l) = e[1].wday
  BY <1>4, DaysToWeekday
<1>6. Midnight(l) > Local(now)
  <2> HIDE DEF k
  <2>1. Midnight(l) = m + k
    BY DEF k
  <2> QED BY <1>1, <1>2, <1>3, <2>1, DayIsPositive
<1>7. Wants(e, l)
  BY <1>5, <1>6 DEF Wants
<1>8. ASSUME NEW d \in 1 .. 7 PROVE ~Wants(e, l - d * Day)
  <2> DEFINE j == d * Day
  <2>0. l \in Int /\ d \in Int
    OBVIOUS
  <2>1. Midnight(l - j) = Midnight(l) - j /\ Wday(l - j) = (Wday(l) - d) % 7
    BY ONLY <2>0, DaysEarlier
  <2>2. CASE d \in 1 .. 6
    <3>1. Wday(l - j) # e[1].wday
      BY <1>5, <2>1, <2>2, DaysToWeekday
    <3> QED BY <3>1 DEF Wants
  <2>3. CASE d = 7
    <3>1. j = 7 * Day
      BY <2>3
    <3> HIDE DEF j, k
    <3>2. Midnight(l) = m + k
      BY DEF k
    <3>3. ~(Midnight(l - j) > Local(now))
      BY <1>1, <1>2, <1>3, <2>1, <3>1, <3>2, DayIsPositive
    <3>4. ~Wants(e, l - j)
      BY <3>3 DEF Wants
    <3> QED BY <3>4 DEF j
  <2>4. d \in 1 .. 6 \/ d = 7
    OBVIOUS
  <2> QED BY <2>2, <2>3, <2>4
<1> QED BY <1>7, <1>8 DEF First

LEMMA FirstClock ==
  ASSUME zone \in Zones, now \in Int, NEW e, Len(e) = 1, IsClock(e[1]),
         NEW l \in Int, Local(fire_at) = l, l % Day = Reads(e[1]),
         l > Local(now), l - Day <= Local(now)
  PROVE  First(e)
<1>1. Local(now) \in Int
  BY ZoneTypes
<1>2. e[1].kind \notin {"weekday", "tomorrow"}
  BY DEF IsClock
<1>3. Wants(e, l)
  BY <1>2 DEF Wants
<1>4. ASSUME NEW d \in 1 .. 7 PROVE ~(l - d * Day > Local(now))
  <2> DEFINE j == d * Day
  <2>1. j \in Int /\ Day <= j
    BY SMT DEF Day
  <2> HIDE DEF j
  <2>2. ~(l - j > Local(now))
    BY <1>1, <2>1, DayIsPositive
  <2> QED BY <2>2 DEF j
<1> QED BY <1>3, <1>4 DEF First

LEMMA NextTimes ==
  ASSUME TimeInv, Added, DaytimeShift(zone), NoShift,
         Form(TimeOf(typed)), ~IsRelative(TimeOf(typed))
  PROVE  First(TimeOf(typed))
<1> DEFINE e == TimeOf(typed)
           clock == ClockOf(e)
           m == Midnight(Local(now))
<1>1. /\ zone \in Zones /\ now \in Int /\ e \in Seq(Words)
      /\ fire_at \in parse_time_expr(e)
  BY AddedFacts
<1>2. fire_at \in Int /\ now < fire_at
  BY <1>1, TimesAreInts, TimesAreLater
<1>3. /\ e[1] \in Words /\ e[Len(e)] \in Words
      /\ Seconds(e) = {0}
      /\ e[1].kind \in {"tomorrow", "weekday"} \/ (Len(e) = 1 /\ IsClock(e[1]))
      /\ HasTomorrow(e) <=> e[1].kind = "tomorrow"
      /\ WdayOf(e) = IF e[1].kind = "weekday" THEN e[1].wday ELSE None
      /\ clock = IF IsClock(e[Len(e)]) THEN Reads(e[Len(e)]) ELSE None
  BY <1>1, FormWords
<1> HIDE DEF e
<1>4. fire_at \in Absolute(e)
  BY <1>1, <1>3 DEF parse_time_expr
<1>5. clock # None => clock \in Int /\ 0 <= clock /\ clock < Day
  BY <1>1, ClockOfTypes
<1>6. Local(now) \in Int /\ m \in Int /\ m <= Local(now) /\ Local(now) < m + Day
  BY <1>1, MidnightFacts, ZoneTypes
<1>7. IsClock(e[Len(e)]) => Reads(e[Len(e)]) # None
  BY <1>3, ClockReads
<1>8. (IF clock = None THEN 0 ELSE clock) = IF IsClock(e[Len(e)]) THEN Reads(e[Len(e)]) ELSE 0
  BY <1>3, <1>7
<1> HIDE DEF clock
<1>9. ASSUME NEW d \in 1 .. 7, fire_at \in DateAt(d, clock)
      PROVE  \E l \in Int : /\ Local(fire_at) = l
                            /\ Midnight(l) = m + d * Day
                            /\ l % Day = IF IsClock(e[Len(e)]) THEN Reads(e[Len(e)]) ELSE 0
                            /\ Wday(l) = (Wday(Local(now)) + d) % 7
  <2>1. PICK l \in Int : /\ fire_at \in Mktime(l) /\ Midnight(l) = m + d * Day
                         /\ l % Day = IF clock = None THEN 0 ELSE clock
                         /\ Wday(l) = (Wday(Local(now)) + d) % 7
    BY <1>1, <1>5, <1>9, Dates
  <2>2. Local(now) < Midnight(l)
    BY <1>1, <2>1, DatesAreLater
  <2>3. Midnight(l) \in Int /\ Midnight(l) <= l
    BY MidnightFacts
  <2>4. m <= l
    <3> HIDE DEF m
    <3> QED BY <1>6, <2>2, <2>3
  <2>5. Local(fire_at) = l
    BY <1>1, <1>2, <2>1, <2>4, AwayFromShift
  <2> QED BY <1>8, <2>1, <2>5
<1>10. CASE e[1].kind = "tomorrow"
  <2>1. fire_at \in DateAt(1, clock)
    BY <1>3, <1>4, <1>10 DEF Absolute, clock
  <2>2. 1 \in 1 .. 7
    OBVIOUS
  <2>3. PICK l \in Int : /\ Local(fire_at) = l
                         /\ Midnight(l) = m + 1 * Day
                         /\ l % Day = IF IsClock(e[Len(e)]) THEN Reads(e[Len(e)]) ELSE 0
    BY <1>9, <2>1, <2>2
  <2>4. First(e)
    BY <1>1, <1>10, <2>3, FirstTomorrow
  <2> QED BY <2>4 DEF e
<1>11. CASE e[1].kind = "weekday"
  <2> DEFINE n == DaysAhead(Wday(Local(now)), e[1].wday)
  <2>1. e[1].wday \in 0 .. 6
    BY <1>3, <1>11, WordsAssumption
  <2>2. WdayOf(e) = e[1].wday /\ e[1].wday # None
    BY <1>3, <1>11, <2>1, NoneAssumption
  <2>3. ~HasTomorrow(e)
    BY <1>3, <1>11
  <2>4. fire_at \in DateAt(n, clock)
    BY <1>4, <2>2, <2>3 DEF Absolute, clock
  <2>5. n \in 1 .. 7
    BY <1>6, <2>1, WdayTypes, DaysAheadTypes
  <2>6. PICK l \in Int : /\ Local(fire_at) = l
                         /\ Midnight(l) = m + n * Day
                         /\ l % Day = IF IsClock(e[Len(e)]) THEN Reads(e[Len(e)]) ELSE 0
                         /\ Wday(l) = (Wday(Local(now)) + n) % 7
    BY <1>9, <2>4, <2>5
  <2>7. First(e)
    BY <1>1, <1>11, <2>1, <2>5, <2>6, FirstWeekday
  <2> QED BY <2>7 DEF e
<1>12. CASE e[1].kind \notin {"tomorrow", "weekday"}
  <2> DEFINE today == m + clock
  <2>1. Len(e) = 1 /\ IsClock(e[1])
    BY <1>3, <1>12
  <2>2. clock = Reads(e[1]) /\ clock # None
    BY <1>3, <1>7, <2>1 DEF clock
  <2>3. fire_at \in TodayOrTomorrow(clock)
    <3>1. ~HasTomorrow(e) /\ WdayOf(e) = None
      BY <1>3, <1>12
    <3> QED BY <1>4, <2>2, <3>1 DEF Absolute, clock
  <2>4. clock \in Int /\ 0 <= clock /\ clock < Day
    BY <1>5, <2>2
  <2>5. /\ today \in Int /\ today % Day = clock /\ Midnight(today) = m
        /\ \/ fire_at \in Mktime(today) /\ now < fire_at
           \/ \E c \in Mktime(today) : c <= now /\ fire_at \in Mktime(Local(c) + Day)
    BY <1>1, <2>3, <2>4, Clocks
  <2>6. m <= today /\ today < m + Day
    <3> HIDE DEF m
    <3> QED BY <1>6, <2>4, DayIsPositive
  <2> HIDE DEF today
  <2>7. CASE fire_at \in Mktime(today)
    <3>1. Local(fire_at) = today /\ (fire_at <= now <=> today <= Local(now))
      BY <1>1, <1>2, <2>5, <2>6, <2>7, AwayFromShift
    <3>2. today > Local(now) /\ today - Day <= Local(now)
      <4> HIDE DEF m
      <4> QED BY <1>1, <1>2, <1>6, <2>5, <2>6, <3>1, DayIsPositive
    <3>3. First(e)
      BY <1>1, <2>1, <2>2, <2>5, <3>1, <3>2, FirstClock
    <3> QED BY <3>3 DEF e
  <2>8. ASSUME NEW c \in Mktime(today), c <= now, fire_at \in Mktime(Local(c) + Day)
        PROVE  First(e)
    <3> DEFINE l == today + Day
    <3>1. c \in Int
      BY <1>1, <2>5, MktimeTypes
    <3>2. c <= fire_at
      BY <1>1, <1>2, <2>8, <3>1
    <3>3. Local(c) = today /\ (c <= now <=> today <= Local(now))
      BY <1>1, <1>2, <2>5, <2>6, <3>2, AwayFromShift
    <3>4. fire_at \in Mktime(l)
      BY <2>8, <3>3
    <3>5. l \in Int /\ l % Day = clock
      BY <1>1, <2>5, <3>3, TodayHasClock
    <3>6. m <= l /\ l > Local(now) /\ l - Day <= Local(now)
      <4>1. today <= Local(now)
        BY <2>8, <3>3
      <4> HIDE DEF m
      <4> QED BY <1>6, <2>5, <2>6, <4>1, DayIsPositive
    <3> HIDE DEF l
    <3>7. fire_at <= fire_at
      BY <1>2
    <3>8. Local(fire_at) = l
      BY <1>1, <1>2, <3>4, <3>5, <3>6, <3>7, AwayFromShift
    <3> QED BY <1>1, <2>1, <2>2, <3>5, <3>6, <3>8, FirstClock
  <2>9. First(e)
    BY <2>5, <2>7, <2>8 DEF e
  <2> QED BY <2>9 DEF e
<1> QED BY <1>3, <1>10, <1>11, <1>12

(* A reminder with a documented date or clock fires at the first local     *)
(* time after now that is as written, in any zone whose shifts are in the  *)
(* daytime, on any day that is away from one.                              *)
THEOREM NextOccurrences ==
  ASSUME DaytimeShifts
  PROVE  Spec => []NextOccurrence
<1>1. TimeInv => NextOccurrence
  <2> SUFFICES ASSUME TimeInv, Added, NoShift, NEW k \in 1 .. Len(typed),
                      Documented(k), ~IsRelative(SubSeq(typed, k + 1, Len(typed)))
               PROVE  First(SubSeq(typed, k + 1, Len(typed)))
    BY DEF NextOccurrence, First
  <2>1. typed \in Seq(Words) /\ DaytimeShift(zone)
    BY DEF TimeInv, DaytimeShifts
  <2>2. TimeStart(typed) = k + 1
    BY <2>1, TimeStartsThere DEF Documented, PlainUpTo
  <2>3. TimeOf(typed) = SubSeq(typed, k + 1, Len(typed))
    BY <2>2 DEF TimeOf
  <2> QED BY <2>1, <2>3, NextTimes DEF Documented
<1> QED BY <1>1, TimeInvInit, TimeInvNext, PTL DEF Spec
=============================================================================
