------------------------------ MODULE RateLimit ------------------------------
(***************************************************************************)
(* The limiter in front of /v1/auth: at most Max requests of one address   *)
(* in any window of Window time units.                                     *)
(*                                                                         *)
(* A request reads the time before it takes the mutex, so requests can be  *)
(* judged in another order than that of their times.  Times are those of   *)
(* one process, which never go back.  A hit is kept as the request that    *)
(* caused it; the code keeps its time.                                     *)
(***************************************************************************)
EXTENDS Integers, FiniteSets

CONSTANTS
  Requests,
  Addresses,
  Max,      \* rateLimitMax
  Window,   \* rateLimitWindow
  MaxTime   \* BOUND: the clock

ASSUME RequestsAssumption == IsFiniteSet(Requests)
ASSUME MaxAssumption == Max \in Nat \ {0}
ASSUME WindowAssumption == Window \in Nat \ {0}
ASSUME MaxTimeAssumption == MaxTime \in Nat

VARIABLES
  clock,
  address,   \* where each request comes from
  state,     \* and how far it is
  stamp,     \* the time it read
  hits,      \* per address, the admitted requests still counted
  overtaken  \* history: judged after one of the same address with a later time

vars == <<clock, address, state, stamp, hits, overtaken>>

Init ==
  /\ clock = 0
  /\ address \in [Requests -> Addresses]
  /\ state = [r \in Requests |-> "away"]
  /\ stamp = [r \in Requests |-> 0]
  /\ hits = [a \in Addresses |-> {}]
  /\ overtaken = {}

Tick ==
  /\ clock < MaxTime
  /\ clock' = clock + 1
  /\ UNCHANGED <<address, state, stamp, hits, overtaken>>

(* now := time.Now()                                                       *)
ReadTime(r) ==
  /\ state[r] = "away"
  /\ state' = [state EXCEPT ![r] = "waiting"]
  /\ stamp' = [stamp EXCEPT ![r] = clock]
  /\ UNCHANGED <<clock, address, hits, overtaken>>

Judged(a) == {q \in Requests : address[q] = a /\ state[q] \in {"admitted", "refused"}}
Admitted(a) == {q \in Requests : address[q] = a /\ state[q] = "admitted"}

(* The hits that still count at the time of r.                             *)
RecentOfAll(r) == {q \in UNION {hits[a] : a \in Addresses} : stamp[q] > stamp[r] - Window}
RecentOfHalf(r) == {q \in hits[address[r]] : stamp[q] > stamp[r] - Window + 1}
Recent(r) == {q \in hits[address[r]] : stamp[q] > stamp[r] - Window}

Overtakes(q, r) == q \in Judged(address[r]) /\ stamp[q] > stamp[r]

(* One that is refused does not count; it prunes the list all the same.    *)
Verdict(r, verdict, counted) ==
  /\ state' = [state EXCEPT ![r] = verdict]
  /\ hits' = [hits EXCEPT ![address[r]] = counted]
  /\ overtaken' = IF \E q \in Requests : Overtakes(q, r) THEN overtaken \cup {r} ELSE overtaken
  /\ UNCHANGED <<clock, address, stamp>>

Admit(r) ==
  /\ state[r] = "waiting"
  /\ Cardinality(Recent(r)) < Max
  /\ Verdict(r, "admitted", Recent(r) \cup {r})

RefuseAndCount(r) ==
  /\ state[r] = "waiting"
  /\ Cardinality(Recent(r)) >= Max
  /\ Verdict(r, "refused", Recent(r) \cup {r})

Refuse(r) ==
  /\ state[r] = "waiting"
  /\ Cardinality(Recent(r)) >= Max
  /\ Verdict(r, "refused", Recent(r))

Next == Tick \/ \E r \in Requests : ReadTime(r) \/ Admit(r) \/ Refuse(r)

Spec == Init /\ [][Next]_vars

-----------------------------------------------------------------------------
(* Every variable keeps to its type, and only admitted requests of an      *)
(* address, Max at most, are counted against it.                           *)
TypeOK ==
  /\ clock \in 0 .. MaxTime
  /\ address \in [Requests -> Addresses]
  /\ state \in [Requests -> {"away", "waiting", "admitted", "refused"}]
  /\ stamp \in [Requests -> 0 .. MaxTime]
  /\ hits \in [Addresses -> SUBSET Requests]
  /\ overtaken \subseteq Requests
  /\ \A a \in Addresses : hits[a] \subseteq Admitted(a) /\ Cardinality(hits[a]) <= Max

InWindow(q, t) == t - Window < stamp[q] /\ stamp[q] <= t

(* In no window are more than Max requests of an address admitted, those   *)
(* aside that were overtaken on the way to the mutex: the one that         *)
(* overtook them may have dropped hits they should have met.               *)
SlidingWindow ==
  \A a \in Addresses, t \in 0 .. MaxTime :
    Cardinality({q \in Admitted(a) \ overtaken : InWindow(q, t)}) <= Max

(* A request is refused only if Max of its own address were admitted at    *)
(* times less than Window before its own, or later: refusals, other        *)
(* addresses and what is long past never count.                            *)
RefusedWithCause ==
  [][\A r \in Requests :
       state[r] = "waiting" /\ state'[r] = "refused" =>
         Cardinality({q \in Admitted(address[r]) : stamp[q] > stamp[r] - Window}) >= Max]_vars
=============================================================================
