---------------------------- MODULE MCRemindrSync ----------------------------
(***************************************************************************)
(* RemindrSync on small instances.  A second of the model is the unit in   *)
(* which stamps can tie; a daily reminder comes round every 2 of them, and *)
(* reminders are due one second after the clock starts.                    *)
(***************************************************************************)
EXTENDS RemindrSync, TLC

CONSTANTS Recurring, d1, d2, old

MCPeriod == [m \in Messages |-> IF m \in Recurring THEN 2 ELSE 0]
MCFireTimes == {2}

NoLegacy == [d \in Devices |-> [i \in Ids |-> NoRow]]

(* One entry of a v1 store on d1, under an id that is not a UUID; the API  *)
(* refuses it, if it refuses any.                                          *)
OneLegacyRow ==
  [d \in Devices |-> [i \in Ids |->
     IF d = d1 /\ i = old
     THEN Pending(NewRow(CHOOSE m \in Messages : Refused # {} => m \in Refused, 1, 1 + Skew[d]))
     ELSE NoRow]]

SameClock == [d \in Devices |-> 0]
TwoAhead == [d \in Devices |-> IF d = d1 THEN 2 ELSE 0]

IdSymmetry == Permutations(Ids)
IdAndDeviceSymmetry == IdSymmetry \cup Permutations(Devices)
=============================================================================
