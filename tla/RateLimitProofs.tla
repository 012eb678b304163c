--------------------------- MODULE RateLimitProofs ---------------------------
(***************************************************************************)
(* Theorems of RateLimit, for any number of requests and addresses, any    *)
(* limit and any window.                                                   *)
(***************************************************************************)
EXTENDS RateLimit, FiniteSetTheorems, TLAPS

(***************************************************************************)
(* SlidingWindow is not inductive: what limits the next request is not who *)
(* was admitted but who is still counted.  A hit is dropped only when a    *)
(* request a whole window later has been judged; until then everyone       *)
(* admitted is counted.                                                    *)
(***************************************************************************)
Remembered ==
  \A a \in Addresses : \A q \in Admitted(a) :
    (\A j \in Judged(a) : stamp[j] - Window < stamp[q]) => q \in hits[a]

Inv == TypeOK /\ Remembered /\ SlidingWindow

-----------------------------------------------------------------------------
LEMMA Finite ==
  ASSUME NEW S \in SUBSET Requests
  PROVE  IsFiniteSet(S) /\ Cardinality(S) \in Nat
BY RequestsAssumption, FS_Subset, FS_CardinalityType

LEMMA Smaller ==
  ASSUME NEW S \in SUBSET Requests, NEW T \in SUBSET S
  PROVE  Cardinality(T) <= Cardinality(S)
BY Finite, FS_Subset

LEMMA RecentFacts ==
  ASSUME TypeOK, NEW r \in Requests
  PROVE  /\ address[r] \in Addresses
         /\ Recent(r) \subseteq hits[address[r]]
         /\ Recent(r) \subseteq Admitted(address[r])
         /\ Recent(r) \in SUBSET Requests
         /\ Cardinality(Recent(r)) <= Max
<1>1. address[r] \in Addresses /\ hits[address[r]] \in SUBSET Requests
  BY DEF TypeOK
<1>2. Recent(r) \subseteq hits[address[r]]
  BY DEF Recent
<1>3. Cardinality(hits[address[r]]) <= Max /\ hits[address[r]] \subseteq Admitted(address[r])
  BY <1>1 DEF TypeOK
<1>4. Cardinality(Recent(r)) <= Cardinality(hits[address[r]])
  BY <1>1, <1>2, Smaller
<1>5. Recent(r) \in SUBSET Requests
  BY <1>1, <1>2
<1>6. Cardinality(Recent(r)) \in Nat /\ Cardinality(hits[address[r]]) \in Nat
  BY <1>1, <1>5, Finite
<1> QED BY <1>1, <1>2, <1>3, <1>4, <1>5, <1>6, MaxAssumption

(* Both verdicts: how a judgement of r changes who is judged and admitted. *)
LEMMA VerdictFacts ==
  ASSUME TypeOK, NEW r \in Requests, NEW v \in {"admitted", "refused"}, NEW counted,
         state[r] = "waiting", Verdict(r, v, counted), NEW a \in Addresses
  PROVE  /\ Judged(a) \subseteq Judged(a)'
         /\ a = address[r] => r \in Judged(a)'
         /\ Admitted(a)' = IF a = address[r] /\ v = "admitted" THEN Admitted(a) \cup {r}
                           ELSE Admitted(a)
         /\ r \notin Admitted(a)
         /\ hits'[a] = IF a = address[r] THEN counted ELSE hits[a]
<1>1. state' = [state EXCEPT ![r] = v] /\ hits' = [hits EXCEPT ![address[r]] = counted]
      /\ address' = address
  BY DEF Verdict
<1>2. state \in [Requests -> {"away", "waiting", "admitted", "refused"}]
      /\ hits \in [Addresses -> SUBSET Requests]
  BY DEF TypeOK
<1> QED BY <1>1, <1>2 DEF Judged, Admitted

-----------------------------------------------------------------------------
LEMMA InvInit == Init => Inv
<1> SUFFICES ASSUME Init PROVE Inv
  OBVIOUS
<1>1. Cardinality({}) = 0
  BY FS_EmptySet
<1>2. \A a \in Addresses : Admitted(a) = {}
  BY DEF Init, Admitted
<1>3. TypeOK
  BY <1>1, <1>2, MaxAssumption, MaxTimeAssumption DEF Init, TypeOK
<1>4. Remembered
  BY <1>2 DEF Remembered
<1>5. SlidingWindow
  <2> SUFFICES ASSUME NEW a \in Addresses, NEW t \in 0 .. MaxTime
               PROVE  Cardinality({q \in Admitted(a) \ overtaken : InWindow(q, t)}) <= Max
    BY DEF SlidingWindow
  <2>1. {q \in Admitted(a) \ overtaken : InWindow(q, t)} = {}
    BY <1>2
  <2> QED BY <1>1, <2>1, MaxAssumption
<1> QED BY <1>3, <1>4, <1>5 DEF Inv

(* A step that judges nobody.                                              *)
LEMMA NobodyJudged ==
  ASSUME Inv, UNCHANGED <<address, hits, overtaken>>, clock' \in 0 .. MaxTime,
         state' \in [Requests -> {"away", "waiting", "admitted", "refused"}],
         stamp' \in [Requests -> 0 .. MaxTime],
         \A q \in Requests :
           \/ state'[q] = state[q] /\ stamp'[q] = stamp[q]
           \/ state[q] = "away" /\ state'[q] = "waiting"
  PROVE  Inv'
<1>1. \A a \in Addresses : Judged(a)' = Judged(a) /\ Admitted(a)' = Admitted(a)
  BY DEF Judged, Admitted
<1>2. \A a \in Addresses : \A q \in Judged(a) : q \in Requests /\ stamp'[q] = stamp[q]
  BY DEF Judged
<1>3. \A a \in Addresses : Admitted(a) \subseteq Judged(a)
  BY DEF Judged, Admitted
<1>4. TypeOK'
  BY <1>1 DEF Inv, TypeOK
<1>5. Remembered'
  BY <1>1, <1>2, <1>3 DEF Inv, Remembered
<1>6. SlidingWindow'
  <2> SUFFICES ASSUME NEW a \in Addresses, NEW t \in 0 .. MaxTime
               PROVE  Cardinality({q \in Admitted(a)' \ overtaken' : InWindow(q, t)'}) <= Max
    BY DEF SlidingWindow
  <2>1. {q \in Admitted(a)' \ overtaken' : InWindow(q, t)'}
          = {q \in Admitted(a) \ overtaken : InWindow(q, t)}
    BY <1>1, <1>2, <1>3 DEF InWindow
  <2> QED BY <2>1 DEF Inv, SlidingWindow
<1> QED BY <1>4, <1>5, <1>6 DEF Inv

LEMMA InvAdmit ==
  ASSUME Inv, NEW r \in Requests, Admit(r)
  PROVE  Inv'
<1> DEFINE a0 == address[r]
<1>0. /\ TypeOK /\ state[r] = "waiting" /\ a0 \in Addresses
      /\ Verdict(r, "admitted", Recent(r) \cup {r})
      /\ stamp' = stamp /\ address' = address /\ clock' = clock
      /\ stamp \in [Requests -> 0 .. MaxTime]
  BY RecentFacts DEF Inv, Admit, Verdict, TypeOK
<1>1. Cardinality(Recent(r) \cup {r}) <= Max /\ IsFiniteSet(Recent(r) \cup {r})
  <2>1. Cardinality(Recent(r)) < Max
    BY DEF Admit
  <2>2. Recent(r) \in SUBSET Requests
    BY <1>0, RecentFacts
  <2>3. IsFiniteSet(Recent(r)) /\ Cardinality(Recent(r)) \in Nat
    BY <2>2, Finite
  <2>4. /\ IsFiniteSet(Recent(r) \cup {r})
        /\ Cardinality(Recent(r) \cup {r}) \in {Cardinality(Recent(r)), Cardinality(Recent(r)) + 1}
    BY <2>3, FS_AddElement
  <2> QED BY <2>1, <2>3, <2>4, MaxAssumption
<1>2. \A a \in Addresses :
        /\ Judged(a) \subseteq Judged(a)'
        /\ a = a0 => r \in Judged(a)'
        /\ Admitted(a)' = IF a = a0 THEN Admitted(a) \cup {r} ELSE Admitted(a)
        /\ r \notin Admitted(a)
        /\ hits'[a] = IF a = a0 THEN Recent(r) \cup {r} ELSE hits[a]
  BY <1>0, VerdictFacts
<1>3. TypeOK'
  <2>1. /\ clock' \in 0 .. MaxTime /\ address' \in [Requests -> Addresses]
        /\ state' \in [Requests -> {"away", "waiting", "admitted", "refused"}]
        /\ stamp' \in [Requests -> 0 .. MaxTime]
        /\ hits' \in [Addresses -> SUBSET Requests]
        /\ overtaken' \subseteq Requests
    BY <1>0, RecentFacts DEF TypeOK, Verdict
  <2>2. ASSUME NEW a \in Addresses
        PROVE  hits'[a] \subseteq Admitted(a)' /\ Cardinality(hits'[a]) <= Max
    <3>1. CASE a = a0
      <4>1. hits'[a] = Recent(r) \cup {r} /\ Admitted(a)' = Admitted(a) \cup {r}
        BY <1>2, <3>1
      <4>2. Recent(r) \subseteq Admitted(a)
        BY <1>0, <3>1, RecentFacts
      <4> QED BY <1>1, <4>1, <4>2
    <3>2. CASE a # a0
      <4>1. hits'[a] = hits[a] /\ Admitted(a)' = Admitted(a)
        BY <1>2, <3>2
      <4> QED BY <1>0, <4>1 DEF TypeOK
    <3> QED BY <3>1, <3>2
  <2> QED BY <2>1, <2>2 DEF TypeOK
<1>4. Remembered'
  <2> SUFFICES ASSUME NEW a \in Addresses, NEW q \in Admitted(a)',
                      \A j \in Judged(a)' : stamp[j] - Window < stamp[q]
               PROVE  q \in hits'[a]
    BY <1>0 DEF Remembered
  <2>1. CASE q = r /\ a = a0
    BY <2>1, <1>2
  <2>2. CASE q \in Admitted(a)
    <3>1. q \in hits[a]
      BY <1>2, <2>2 DEF Inv, Remembered
    <3>2. a = a0 => stamp[r] - Window < stamp[q]
      BY <1>2
    <3> QED BY <1>2, <3>1, <3>2 DEF Recent
  <2>3. (q = r /\ a = a0) \/ q \in Admitted(a)
    <3> HIDE DEF a0
    <3> QED BY <1>2
  <2> QED BY <2>1, <2>2, <2>3
<1>5. SlidingWindow'
  <2> SUFFICES ASSUME NEW a \in Addresses, NEW t \in 0 .. MaxTime
               PROVE  Cardinality({q \in Admitted(a)' \ overtaken' : InWindow(q, t)'}) <= Max
    BY DEF SlidingWindow
  <2> DEFINE old == {q \in Admitted(a) \ overtaken : InWindow(q, t)}
             new == {q \in Admitted(a)' \ overtaken' : InWindow(q, t)'}
  <2>1. old \in SUBSET Requests /\ Cardinality(old) <= Max /\ Cardinality(old) \in Nat
    <3>1. old \in SUBSET Requests
      BY DEF Admitted
    <3> QED BY <3>1, Finite DEF Inv, SlidingWindow
  <2>2. overtaken \subseteq overtaken'
    BY <1>0 DEF Verdict
  <2>3. CASE r \notin new
    <3>1. new \in SUBSET old
      BY <1>0, <1>2, <2>2, <2>3 DEF InWindow
    <3>2. Cardinality(new) <= Cardinality(old) /\ Cardinality(new) \in Nat
      BY <2>1, <3>1, Smaller, Finite
    <3> QED BY <2>1, <3>2, MaxAssumption
  <2>4. CASE r \in new
    <3>1. a = a0 /\ r \notin overtaken' /\ t - Window < stamp[r] /\ stamp[r] <= t
      <4>1. r \in Admitted(a)' /\ r \notin overtaken' /\ InWindow(r, t)'
        BY <2>4
      <4> QED BY <4>1, <1>0, <1>2 DEF InWindow
    <3>2. \A j \in Judged(a) : stamp[j] <= stamp[r]
      <4>1. ~ \E q \in Requests : Overtakes(q, r)
        BY <1>0, <3>1 DEF Verdict
      <4>2. ASSUME NEW j \in Judged(a) PROVE stamp[j] <= stamp[r]
        BY <1>0, <3>1, <4>1 DEF Overtakes, Judged
      <4> QED BY <4>2
    <3>3. ASSUME NEW q \in new, q # r PROVE q \in Recent(r)
      <4>1. q \in Admitted(a) /\ q \in Requests /\ t - Window < stamp[q]
        BY <1>0, <1>2, <3>3 DEF InWindow, Admitted
      <4>2. \A j \in Judged(a) : stamp[j] - Window < stamp[q]
        <5>1. ASSUME NEW j \in Judged(a) PROVE stamp[j] - Window < stamp[q]
          <6>1. j \in Requests /\ stamp[j] \in Int /\ stamp[q] \in Int /\ stamp[r] \in Int
            BY <1>0, <4>1 DEF Judged
          <6> QED BY <6>1, <3>1, <3>2, <4>1, WindowAssumption
        <5> QED BY <5>1
      <4>3. q \in hits[a]
        BY <4>1, <4>2 DEF Inv, Remembered
      <4>4. stamp[q] > stamp[r] - Window
        BY <1>0, <3>1, <4>1, WindowAssumption
      <4> QED BY <3>1, <4>3, <4>4 DEF Recent
    <3>4. new \in SUBSET (Recent(r) \cup {r}) /\ Recent(r) \cup {r} \in SUBSET Requests
      BY <1>0, <3>3, RecentFacts
    <3>5. Cardinality(new) <= Cardinality(Recent(r) \cup {r})
          /\ Cardinality(new) \in Nat /\ Cardinality(Recent(r) \cup {r}) \in Nat
      <4> HIDE DEF new
      <4> QED BY <3>4, Smaller, Finite
    <3> QED BY <1>1, <3>5, MaxAssumption
  <2> QED BY <2>3, <2>4
<1> QED BY <1>3, <1>4, <1>5 DEF Inv

LEMMA InvRefuse ==
  ASSUME Inv, NEW r \in Requests, Refuse(r)
  PROVE  Inv'
<1> DEFINE a0 == address[r]
<1>0. /\ TypeOK /\ state[r] = "waiting" /\ a0 \in Addresses
      /\ Verdict(r, "refused", Recent(r))
      /\ stamp' = stamp /\ address' = address /\ clock' = clock
      /\ stamp \in [Requests -> 0 .. MaxTime]
  BY RecentFacts DEF Inv, Refuse, Verdict, TypeOK
<1>2. \A a \in Addresses :
        /\ Judged(a) \subseteq Judged(a)'
        /\ a = a0 => r \in Judged(a)'
        /\ Admitted(a)' = Admitted(a)
        /\ hits'[a] = IF a = a0 THEN Recent(r) ELSE hits[a]
  BY <1>0, VerdictFacts
<1>3. TypeOK'
  <2>1. /\ clock' \in 0 .. MaxTime /\ address' \in [Requests -> Addresses]
        /\ state' \in [Requests -> {"away", "waiting", "admitted", "refused"}]
        /\ stamp' \in [Requests -> 0 .. MaxTime]
        /\ hits' \in [Addresses -> SUBSET Requests]
        /\ overtaken' \subseteq Requests
    BY <1>0, RecentFacts DEF TypeOK, Verdict
  <2>2. ASSUME NEW a \in Addresses
        PROVE  hits'[a] \subseteq Admitted(a)' /\ Cardinality(hits'[a]) <= Max
    BY <1>0, <1>2, RecentFacts DEF TypeOK
  <2> QED BY <2>1, <2>2 DEF TypeOK
<1>4. Remembered'
  <2> SUFFICES ASSUME NEW a \in Addresses, NEW q \in Admitted(a),
                      \A j \in Judged(a)' : stamp[j] - Window < stamp[q]
               PROVE  q \in hits'[a]
    BY <1>0, <1>2 DEF Remembered
  <2>1. q \in hits[a]
    BY <1>2 DEF Inv, Remembered
  <2>2. a = a0 => stamp[r] - Window < stamp[q]
    BY <1>2
  <2> QED BY <1>2, <2>1, <2>2 DEF Recent
<1>5. SlidingWindow'
  <2> SUFFICES ASSUME NEW a \in Addresses, NEW t \in 0 .. MaxTime
               PROVE  Cardinality({q \in Admitted(a)' \ overtaken' : InWindow(q, t)'}) <= Max
    BY DEF SlidingWindow
  <2>1. overtaken \subseteq overtaken'
    BY <1>0 DEF Verdict
  <2> DEFINE old == {q \in Admitted(a) \ overtaken : InWindow(q, t)}
             new == {q \in Admitted(a)' \ overtaken' : InWindow(q, t)'}
  <2>2. old \in SUBSET Requests /\ new \in SUBSET old
    BY <1>0, <1>2, <2>1 DEF InWindow, Admitted
  <2>3. Cardinality(new) <= Cardinality(old) /\ Cardinality(new) \in Nat
        /\ Cardinality(old) \in Nat
    <3> HIDE DEF old, new
    <3> QED BY <2>2, Smaller, Finite
  <2>4. Cardinality(old) <= Max
    BY DEF Inv, SlidingWindow
  <2> QED BY <2>3, <2>4, MaxAssumption
<1> QED BY <1>3, <1>4, <1>5 DEF Inv

LEMMA InvNext == Inv /\ [Next]_vars => Inv'
<1> SUFFICES ASSUME Inv, [Next]_vars PROVE Inv'
  OBVIOUS
<1> USE MaxTimeAssumption
<1>1. CASE UNCHANGED vars
  BY <1>1, NobodyJudged DEF vars, Inv, TypeOK
<1>2. CASE Tick
  BY <1>2, NobodyJudged DEF Tick, Inv, TypeOK
<1>3. ASSUME NEW r \in Requests, ReadTime(r) PROVE Inv'
  BY <1>3, NobodyJudged DEF ReadTime, Inv, TypeOK
<1>4. ASSUME NEW r \in Requests, Admit(r) PROVE Inv'
  BY <1>4, InvAdmit
<1>5. ASSUME NEW r \in Requests, Refuse(r) PROVE Inv'
  BY <1>5, InvRefuse
<1> QED BY <1>1, <1>2, <1>3, <1>4, <1>5 DEF Next

-----------------------------------------------------------------------------
(* Whatever the order in which requests reach the mutex, no window admits  *)
(* more than Max requests of an address that were not overtaken.           *)
THEOREM LimitHolds == Spec => []SlidingWindow
<1>1. Init => Inv
  BY InvInit
<1>2. Inv /\ [Next]_vars => Inv'
  BY InvNext
<1>3. Inv => SlidingWindow
  BY DEF Inv
<1> QED BY <1>1, <1>2, <1>3, PTL DEF Spec

(* A refusal is always backed by Max admissions of the same address in the *)
(* window of the refused request, or after it.                             *)
THEOREM RefusalsAreJust == Spec => RefusedWithCause
<1>1. Init => Inv
  BY InvInit
<1>2. Inv /\ [Next]_vars => Inv'
  BY InvNext
<1>3. Inv /\ [Next]_vars =>
        [\A r \in Requests :
           state[r] = "waiting" /\ state'[r] = "refused" =>
             Cardinality({q \in Admitted(address[r]) : stamp[q] > stamp[r] - Window}) >= Max]_vars
  <2> SUFFICES ASSUME Inv, Next, NEW r \in Requests,
                      state[r] = "waiting", state'[r] = "refused"
               PROVE  Cardinality({q \in Admitted(address[r]) : stamp[q] > stamp[r] - Window}) >= Max
    BY DEF vars
  <2>1. Refuse(r)
    <3>1. state \in [Requests -> {"away", "waiting", "admitted", "refused"}]
      BY DEF Inv, TypeOK
    <3>2. ~Tick
      BY DEF Tick
    <3>3. ASSUME NEW q \in Requests, ReadTime(q) \/ Admit(q) PROVE FALSE
      BY <3>1, <3>3 DEF ReadTime, Admit, Verdict
    <3>4. PICK q \in Requests : Refuse(q)
      BY <3>2, <3>3 DEF Next
    <3>5. q = r
      BY <3>1, <3>4 DEF Refuse, Verdict
    <3> QED BY <3>4, <3>5
  <2> DEFINE cause == {q \in Admitted(address[r]) : stamp[q] > stamp[r] - Window}
  <2>2. cause \in SUBSET Requests /\ Recent(r) \in SUBSET cause
    BY RecentFacts DEF Inv, Recent, Admitted
  <2>3. Cardinality(Recent(r)) <= Cardinality(cause)
        /\ Cardinality(cause) \in Nat /\ Cardinality(Recent(r)) \in Nat
    <3> HIDE DEF cause
    <3> QED BY <2>2, Smaller, Finite
  <2>4. Cardinality(Recent(r)) >= Max
    BY <2>1 DEF Refuse
  <2> QED BY <2>3, <2>4, MaxAssumption
<1> QED BY <1>1, <1>2, <1>3, PTL DEF Spec, RefusedWithCause

(* The hits counted against an address are requests of its own that were  *)
(* admitted, and never more than Max: the filter-and-append of allow       *)
(* leaves neither a stranger's hit nor one too many in the slice.          *)
THEOREM HitsAreAdmissions == Spec => []TypeOK
<1>1. Init => Inv
  BY InvInit
<1>2. Inv /\ [Next]_vars => Inv'
  BY InvNext
<1>3. Inv => TypeOK
  BY DEF Inv
<1> QED BY <1>1, <1>2, <1>3, PTL DEF Spec
=============================================================================
