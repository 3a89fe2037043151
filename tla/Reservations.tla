---------------------------- MODULE Reservations ----------------------------
(***************************************************************************)
(* The reservation scheduler of rmf_traffic::reservations (specification  *)
(* section 4.6), whose unit test is                                        *)
(* src/rmf_traffic/test/unit/reservation/test_ReservationSystem.cpp; the   *)
(* implementation itself is not part of the repository, so the module is  *)
(* written from the specification and checked against the test's          *)
(* scenarios.                                                              *)
(*                                                                         *)
(* The scheduler keeps, per resource, its reservations ordered by start    *)
(* time, and admits a request [s, e) on a resource after two queries only: *)
(* the predecessor (the reservation with the greatest start <= s) must end *)
(* by s, and the successor (the one with the least start > s) must start   *)
(* at or after e.  A request without a duration has e = Forever.  reserve  *)
(* tries the resources of the preference list in order and takes the first *)
(* that admits the request, under a fresh id; cancel removes a reservation *)
(* by id or throws UnknownReservation.                                     *)
(***************************************************************************)
EXTENDS Integers, Sequences

CONSTANTS
  Resources,        \* the resources (waypoints) that can be reserved
  Requests,         \* the preference lists a caller may give
  MaxTime,          \* the latest start time of a request
  MaxDur,           \* the longest finite duration of a request
  MaxReservations,  \* the number of ids the scheduler may grant
  Forever,          \* the end of a reservation without a duration
  NoDuration        \* an absent duration argument

ASSUME ReservationTimeAssumption == MaxTime \in Nat /\ MaxDur \in Nat \ {0}
ASSUME MaxReservationsAssumption == MaxReservations \in Nat
ASSUME ForeverAssumption == Forever \notin Int /\ NoDuration \notin Int
ASSUME RequestsAssumption == Requests \subseteq Seq(Resources)

Starts == 0..MaxTime
Durations == (1..MaxDur) \cup {NoDuration}

\* The last instant a finite reservation may reach.
Horizon == MaxTime + MaxDur

Reservation == [res : Resources, start : Starts, end : (1..Horizon) \cup {Forever}]

\* (mutant) the duration counted as an inclusive end.
EndInclusive(s, d) == IF d = NoDuration THEN Forever ELSE s + d - 1

\* start + duration, or no end.
End(s, d) == IF d = NoDuration THEN Forever ELSE s + d

\* (mutant) touching endpoints counted as an overlap.
EndsByStrict(e, t) == e # Forever /\ e < t

\* An interval ending at e is over by instant t.
EndsBy(e, t) == e # Forever /\ e <= t

VARIABLES
  table,    \* the live reservations, by id
  nextId,   \* the id the next accepted request receives
  call,     \* the arguments of the last call
  reply     \* the outcome of the last call

vars == <<table, nextId, call, reply>>

\* (mutant) a reservation starting exactly at s left out of the predecessor
\* query.
BelowStrict(r, s) == {n \in DOMAIN table : table[n].res = r /\ table[n].start < s}

\* The reservations on resource r starting at or before s, and after s.
Below(r, s) == {n \in DOMAIN table : table[n].res = r /\ table[n].start <= s}
Above(r, s) == {n \in DOMAIN table : table[n].res = r /\ table[n].start > s}

\* The predecessor and successor queries of the ordered structure.
IsPred(r, s, n) ==
  n \in Below(r, s) /\ \A m \in Below(r, s) : table[m].start <= table[n].start
IsSucc(r, s, n) ==
  n \in Above(r, s) /\ \A m \in Above(r, s) : table[n].start <= table[m].start

\* Admission of [s, e) on resource r.
Fits(r, s, e) ==
  /\ \A n \in DOMAIN table : IsPred(r, s, n) => EndsBy(table[n].end, s)
  /\ \A n \in DOMAIN table : IsSucc(r, s, n) => EndsBy(e, table[n].start)

\* Position i of the preference list rs is the first that admits [s, e).
FirstFit(rs, s, e, i) ==
  /\ Fits(rs[i], s, e)
  /\ \A j \in 1..(i - 1) : ~Fits(rs[j], s, e)

Init ==
  /\ table = [n \in {} |-> {}]
  /\ nextId = 0
  /\ call = [op |-> "none"]
  /\ reply = [kind |-> "idle"]

\* reserve(start, resources, duration) returning a Reservation.
ReserveAccepted(rs, s, d) ==
  /\ call' = [op |-> "reserve", rs |-> rs, start |-> s, dur |-> d]
  /\ nextId < MaxReservations
  /\ \E i \in 1..Len(rs) :
       /\ FirstFit(rs, s, End(s, d), i)
       /\ table' = [n \in DOMAIN table \cup {nextId} |->
                      IF n = nextId
                      THEN [res |-> rs[i], start |-> s, end |-> End(s, d)]
                      ELSE table[n]]
       /\ reply' = [kind |-> "reserved", id |-> nextId, res |-> rs[i]]
  /\ nextId' = nextId + 1

\* reserve returning nullopt: no resource of the list admits the request.
ReserveRejected(rs, s, d) ==
  /\ call' = [op |-> "reserve", rs |-> rs, start |-> s, dur |-> d]
  /\ \A i \in 1..Len(rs) : ~Fits(rs[i], s, End(s, d))
  /\ reply' = [kind |-> "none"]
  /\ UNCHANGED <<table, nextId>>

\* cancel_reservation(id) of a live reservation.
Cancel(n) ==
  /\ call' = [op |-> "cancel", id |-> n]
  /\ n \in DOMAIN table
  /\ table' = [m \in DOMAIN table \ {n} |-> table[m]]
  /\ reply' = [kind |-> "cancelled"]
  /\ UNCHANGED nextId

\* cancel_reservation(id) throwing UnknownReservation.
CancelUnknown(n) ==
  /\ call' = [op |-> "cancel", id |-> n]
  /\ n \notin DOMAIN table
  /\ reply' = [kind |-> "unknown"]
  /\ UNCHANGED <<table, nextId>>

Next ==
  \/ \E rs \in Requests, s \in Starts, d \in Durations :
       ReserveAccepted(rs, s, d) \/ ReserveRejected(rs, s, d)
  \/ \E n \in 0..MaxReservations : Cancel(n) \/ CancelUnknown(n)

Spec == Init /\ [][Next]_vars

-----------------------------------------------------------------------------

\* The variables have their types; every live id is below nextId.
TypeOK ==
  /\ nextId \in 0..MaxReservations
  /\ DOMAIN table \subseteq 0..(nextId - 1)
  /\ \A n \in DOMAIN table : table[n] \in Reservation /\ ~EndsBy(table[n].end, table[n].start)
  /\ call \in [op : {"none"}] \cup [op : {"cancel"}, id : 0..MaxReservations]
             \cup [op : {"reserve"}, rs : Requests, start : Starts, dur : Durations]
  /\ reply \in [kind : {"idle", "none", "cancelled", "unknown"}]
              \cup [kind : {"reserved"}, id : Nat, res : Resources]

\* No two live reservations on the same resource overlap, although reserve
\* looks only at the predecessor and the successor of the request: the
\* order of the table and the admission test keep each other right across
\* any sequence of reserve and cancel calls.
NoOverlap ==
  \A n, m \in DOMAIN table :
    n # m /\ table[n].res = table[m].res =>
      EndsBy(table[n].end, table[m].start) \/ EndsBy(table[m].end, table[n].start)
=============================================================================
