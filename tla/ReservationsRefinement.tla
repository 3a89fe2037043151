------------------------ MODULE ReservationsRefinement ------------------------
(***************************************************************************)
(* The reservation scheduler implements ReservationLedger: an interval     *)
(* [start, end) of a reservation is mapped to the set of instants it       *)
(* covers, up to Horizon (which every finite end reaches at most, and an   *)
(* indefinite one covers), and the ids granted so far are 0..nextId-1.     *)
(***************************************************************************)
EXTENDS Reservations

\* The instants of [s, e) up to Horizon.
Cover(s, e) == {t \in 0..Horizon : s <= t /\ (e = Forever \/ t < e)}

Ledger == INSTANCE ReservationLedger WITH
  Ids <- 0..MaxReservations,
  Instants <- 0..Horizon,
  Slots <- {Cover(s, End(s, d)) : s \in Starts, d \in Durations},
  holds <- [n \in DOMAIN table |->
              [res |-> table[n].res, slots |-> Cover(table[n].start, table[n].end)]],
  issued <- 0..(nextId - 1),
  call <- IF call.op = "reserve"
          THEN [op |-> "reserve", rs |-> call.rs,
                slots |-> Cover(call.start, End(call.start, call.dur))]
          ELSE call

\* reserve and cancel, read through the mapping, are steps of the ledger:
\* a request is granted on the first resource of its list on which the
\* instants it asks for are free, under an id above every id granted so
\* far, refused only when every resource of the list is taken, and a
\* cancel removes exactly the reservation it names.
LedgerSpec == Ledger!Spec
=============================================================================
