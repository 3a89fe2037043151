-------------------------- MODULE ReservationLedger --------------------------
(***************************************************************************)
(* What the reservation scheduler promises (specification section 4.6),   *)
(* with an interval of time reduced to the set of instants it covers.  A   *)
(* hold is a resource and a set of instants; reserve grants the first      *)
(* resource of the preference list on which none of the requested instants *)
(* is held, under an id larger than every id granted before, or answers    *)
(* none; cancel removes the hold with the given id, or fails with          *)
(* UnknownReservation.                                                     *)
(***************************************************************************)
EXTENDS Integers, Sequences

CONSTANTS
  Resources,  \* the resources (waypoints) that can be reserved
  Ids,        \* the ids the scheduler may grant
  Instants,   \* the instants an interval may cover
  Requests,   \* the preference lists a caller may give
  Slots       \* the instant sets a request may ask for

VARIABLES
  holds,    \* the granted, not yet cancelled, holds, by id
  issued,   \* every id granted so far
  call,     \* the arguments of the last call
  reply     \* the outcome of the last call

vars == <<holds, issued, call, reply>>

Hold == [res : Resources, slots : SUBSET Instants]

\* The holds on resource r leave every instant of S free.
Free(r, S) == \A h \in DOMAIN holds : holds[h].res = r => holds[h].slots \cap S = {}

\* Position i of the preference list rs is the first with S free.
FirstFree(rs, S, i) ==
  /\ Free(rs[i], S)
  /\ \A j \in 1..(i - 1) : ~Free(rs[j], S)

Init ==
  /\ holds = [h \in {} |-> {}]
  /\ issued = {}
  /\ call = [op |-> "none"]
  /\ reply = [kind |-> "idle"]

Grant(rs, S) ==
  /\ call' = [op |-> "reserve", rs |-> rs, slots |-> S]
  /\ \E i \in 1..Len(rs), n \in Ids :
       /\ FirstFree(rs, S, i)
       /\ \A m \in issued : m < n
       /\ holds' = [h \in DOMAIN holds \cup {n} |->
                      IF h = n THEN [res |-> rs[i], slots |-> S] ELSE holds[h]]
       /\ issued' = issued \cup {n}
       /\ reply' = [kind |-> "reserved", id |-> n, res |-> rs[i]]

Refuse(rs, S) ==
  /\ call' = [op |-> "reserve", rs |-> rs, slots |-> S]
  /\ \A i \in 1..Len(rs) : ~Free(rs[i], S)
  /\ reply' = [kind |-> "none"]
  /\ UNCHANGED <<holds, issued>>

Release(n) ==
  /\ call' = [op |-> "cancel", id |-> n]
  /\ n \in DOMAIN holds
  /\ holds' = [h \in DOMAIN holds \ {n} |-> holds[h]]
  /\ reply' = [kind |-> "cancelled"]
  /\ UNCHANGED issued

Unknown(n) ==
  /\ call' = [op |-> "cancel", id |-> n]
  /\ n \notin DOMAIN holds
  /\ reply' = [kind |-> "unknown"]
  /\ UNCHANGED <<holds, issued>>

Next ==
  \/ \E rs \in Requests, S \in Slots : Grant(rs, S) \/ Refuse(rs, S)
  \/ \E n \in Ids : Release(n) \/ Unknown(n)

Spec == Init /\ [][Next]_vars
=============================================================================
