-------------------------- MODULE ReservationsProofs --------------------------
(***************************************************************************)
(* Proofs about the reservation scheduler, for every value of the          *)
(* constants: the predecessor/successor admission test is exact as long as *)
(* the reservations on each resource are pairwise apart, so they stay      *)
(* apart (NoOverlap), and the scheduler implements ReservationLedger.      *)
(***************************************************************************)
EXTENDS ReservationsRefinement, WellFoundedInduction, TLAPS

USE ReservationTimeAssumption, MaxReservationsAssumption, ForeverAssumption,
    RequestsAssumption

\* The two intervals [a, b) and [c, e) are apart.
Apart(a, b, c, e) == EndsBy(b, c) \/ EndsBy(e, a)

Ends == (1..Horizon) \cup {Forever}

Inv == TypeOK /\ NoOverlap

\* A non-empty set of naturals has a least element.
LEMMA NatMin ==
  ASSUME NEW T \in SUBSET Nat, T # {}
  PROVE  \E m \in T : \A k \in T : m <= k
<1>1. PICK x \in T : \A y \in T : ~(<<y, x>> \in OpToRel(<, Nat))
  BY NatLessThanWellFounded, WFMin
<1>2. \A y \in T : ~(y < x)
  BY <1>1 DEF OpToRel
<1> QED
  BY <1>2

\* The end of a request is after its start and within Ends.
LEMMA EndType ==
  ASSUME NEW s \in Starts, NEW d \in Durations
  PROVE  /\ End(s, d) \in Ends
         /\ ~EndsBy(End(s, d), s)
BY DEF End, Ends, EndsBy, Starts, Durations, Horizon

\* Two intervals of the table share an instant of Cover exactly when they
\* are not apart.
LEMMA CoverApart ==
  ASSUME NEW a \in Starts, NEW b \in Ends, ~EndsBy(b, a),
         NEW c \in Starts, NEW e \in Ends, ~EndsBy(e, c)
  PROVE  Cover(a, b) \cap Cover(c, e) = {} <=> Apart(a, b, c, e)
<1>1. ASSUME Apart(a, b, c, e) PROVE Cover(a, b) \cap Cover(c, e) = {}
  BY <1>1 DEF Apart, EndsBy, Cover, Starts, Ends, Horizon
<1>2. ASSUME ~Apart(a, b, c, e) PROVE Cover(a, b) \cap Cover(c, e) # {}
  <2> DEFINE t == IF a <= c THEN c ELSE a
  <2>1. t \in Cover(a, b) /\ t \in Cover(c, e)
    BY <1>2 DEF Apart, EndsBy, Cover, Starts, Ends, Horizon
  <2> QED
    BY <2>1
<1> QED
  BY <1>1, <1>2

\* If the table's intervals on r are pairwise apart, a request that passes
\* the predecessor and successor queries is apart from every one of them:
\* an interval starting at or before s that reaches past s is itself the
\* predecessor, and one starting after s that begins before e starts no
\* earlier than the successor.
LEMMA FitsApart ==
  ASSUME Inv, NEW r \in Resources, NEW s \in Starts, NEW e \in Ends,
         ~EndsBy(e, s), Fits(r, s, e),
         NEW h \in DOMAIN table, table[h].res = r
  PROVE  Apart(table[h].start, table[h].end, s, e)
<1> DEFINE a == table[h].start
           b == table[h].end
<1>0. /\ \A m \in DOMAIN table : table[m] \in Reservation
      /\ \A m \in DOMAIN table : ~EndsBy(table[m].end, table[m].start)
  BY DEF Inv, TypeOK
<1>1. CASE a <= s
  <2>1. SUFFICES ASSUME ~EndsBy(b, s) PROVE FALSE
    BY DEF Apart
  <2>2. ASSUME NEW m \in Below(r, s) PROVE table[m].start <= a
    <3>1. CASE m = h
      BY <3>1, <1>0 DEF Reservation, Starts
    <3>2. CASE m # h
      <4>1. m \in DOMAIN table /\ table[m].res = r /\ table[m].start <= s
        BY DEF Below
      <4>2. EndsBy(table[m].end, a) \/ EndsBy(b, table[m].start)
        BY <3>2, <4>1 DEF Inv, NoOverlap
      <4> QED
        BY <4>1, <4>2, <2>1, <1>0 DEF EndsBy, Reservation, Starts, Horizon
    <3> QED
      BY <3>1, <3>2
  <2>3. IsPred(r, s, h)
    BY <2>2, <1>1 DEF IsPred, Below
  <2> QED
    BY <2>1, <2>3 DEF Fits
<1>2. CASE ~(a <= s)
  <2>1. SUFFICES ASSUME ~EndsBy(e, a) PROVE FALSE
    BY DEF Apart
  <2> DEFINE T == {table[k].start : k \in Above(r, s)}
  <2>2. h \in Above(r, s)
    BY <1>2, <1>0 DEF Above, Reservation, Starts
  <2>3. T \in SUBSET Nat /\ T # {}
    BY <2>2, <1>0 DEF Above, Reservation, Starts
  <2>4. PICK v \in T : \A k \in T : v <= k
    BY <2>3, NatMin
  <2>5. PICK m \in Above(r, s) : table[m].start = v
    OBVIOUS
  <2>6. IsSucc(r, s, m)
    BY <2>4, <2>5 DEF IsSucc
  <2>7. EndsBy(e, table[m].start)
    BY <2>6, <2>5 DEF Fits, Above
  <2>8. table[m].start <= a
    BY <2>2, <2>4, <2>5
  <2> QED
    <3>1. table[m].start \in Nat /\ a \in Nat
      BY <2>5, <1>0 DEF Above, Reservation, Starts
    <3> QED
      BY <2>1, <2>7, <2>8, <3>1 DEF EndsBy, Ends, Horizon
<1> QED
  BY <1>1, <1>2

\* Conversely, a request apart from every interval on r passes both queries.
LEMMA ApartFits ==
  ASSUME TypeOK, NEW r \in Resources, NEW s \in Starts, NEW e \in Ends,
         ~EndsBy(e, s),
         \A h \in DOMAIN table : table[h].res = r =>
            Apart(table[h].start, table[h].end, s, e)
  PROVE  Fits(r, s, e)
<1>0. \A m \in DOMAIN table : table[m] \in Reservation /\ ~EndsBy(table[m].end, table[m].start)
  BY DEF TypeOK
<1>1. ASSUME NEW n \in DOMAIN table, IsPred(r, s, n) PROVE EndsBy(table[n].end, s)
  <2>1. table[n].res = r /\ table[n].start <= s
    BY <1>1 DEF IsPred, Below
  <2> QED
    BY <2>1, <1>0 DEF Apart, EndsBy, Reservation, Starts, Ends, Horizon
<1>2. ASSUME NEW n \in DOMAIN table, IsSucc(r, s, n) PROVE EndsBy(e, table[n].start)
  <2>1. table[n].res = r /\ table[n].start > s
    BY <1>2 DEF IsSucc, Above
  <2> QED
    BY <2>1, <1>0 DEF Apart, EndsBy, Reservation, Starts, Ends, Horizon
<1> QED
  BY <1>1, <1>2 DEF Fits

LEMMA InitInv == Init => Inv
BY DEF Init, Inv, TypeOK, NoOverlap

\* An accepted request keeps the table typed and its intervals apart.
LEMMA AcceptedInv ==
  ASSUME Inv, NEW rs \in Requests, NEW s \in Starts, NEW d \in Durations,
         ReserveAccepted(rs, s, d)
  PROVE  Inv'
<1>1. PICK i \in 1..Len(rs) :
        /\ FirstFit(rs, s, End(s, d), i)
        /\ table' = [n \in DOMAIN table \cup {nextId} |->
                       IF n = nextId
                       THEN [res |-> rs[i], start |-> s, end |-> End(s, d)]
                       ELSE table[n]]
        /\ reply' = [kind |-> "reserved", id |-> nextId, res |-> rs[i]]
  BY DEF ReserveAccepted
<1> DEFINE e == End(s, d)
           new == [res |-> rs[i], start |-> s, end |-> e]
<1>2. rs[i] \in Resources
  BY RequestsAssumption
<1>3. e \in Ends /\ ~EndsBy(e, s)
  BY EndType
<1>4. /\ nextId \in 0..(MaxReservations - 1)
      /\ nextId' = nextId + 1
      /\ call' = [op |-> "reserve", rs |-> rs, start |-> s, dur |-> d]
      /\ nextId \notin DOMAIN table
  BY DEF ReserveAccepted, Inv, TypeOK
<1>5. DOMAIN table' = DOMAIN table \cup {nextId}
  BY <1>1
<1>6. table'[nextId] = new
  BY <1>1
<1>7. \A n \in DOMAIN table : table'[n] = table[n]
  BY <1>1, <1>4
<1>8. TypeOK'
  <2>1. new \in Reservation /\ ~EndsBy(new.end, new.start)
    BY <1>2, <1>3 DEF Reservation, Ends
  <2>2. \A n \in DOMAIN table' : table'[n] \in Reservation /\ ~EndsBy(table'[n].end, table'[n].start)
    BY <2>1, <1>5, <1>6, <1>7 DEF Inv, TypeOK
  <2>3. DOMAIN table' \subseteq 0..(nextId' - 1)
    BY <1>4, <1>5 DEF Inv, TypeOK
  <2>4. call' \in [op : {"reserve"}, rs : Requests, start : Starts, dur : Durations]
    BY <1>4
  <2>5. reply' \in [kind : {"reserved"}, id : Nat, res : Resources]
    BY <1>1, <1>2, <1>4
  <2> QED
    BY <1>4, <2>2, <2>3, <2>4, <2>5 DEF TypeOK
<1>9. NoOverlap'
  <2> SUFFICES ASSUME NEW x \in DOMAIN table', NEW y \in DOMAIN table', x # y,
                      table'[x].res = table'[y].res
               PROVE  EndsBy(table'[x].end, table'[y].start) \/ EndsBy(table'[y].end, table'[x].start)
    BY DEF NoOverlap
  <2>1. CASE x \in DOMAIN table /\ y \in DOMAIN table
    BY <2>1, <1>7 DEF Inv, NoOverlap
  <2>2. ASSUME NEW h \in DOMAIN table, table[h].res = rs[i]
        PROVE  Apart(table[h].start, table[h].end, s, e)
    <3>1. Fits(rs[i], s, e)
      BY <1>1 DEF FirstFit
    <3> QED
      BY <3>1, <2>2, <1>2, <1>3, FitsApart
  <2>3. CASE x = nextId
    <3>1. y \in DOMAIN table
      BY <2>3, <1>5
    <3>2. table[y].res = rs[i]
      BY <2>3, <3>1, <1>6, <1>7
    <3> QED
      BY <2>3, <3>1, <3>2, <2>2, <1>6, <1>7 DEF Apart
  <2>4. CASE y = nextId
    <3>1. x \in DOMAIN table
      BY <2>4, <1>5
    <3>2. table[x].res = rs[i]
      BY <2>4, <3>1, <1>6, <1>7
    <3> QED
      BY <2>4, <3>1, <3>2, <2>2, <1>6, <1>7 DEF Apart
  <2> QED
    BY <2>1, <2>3, <2>4, <1>5
<1> QED
  BY <1>8, <1>9 DEF Inv

LEMMA NextInv == Inv /\ [Next]_vars => Inv'
<1> SUFFICES ASSUME Inv, [Next]_vars PROVE Inv'
  OBVIOUS
<1>1. CASE \E rs \in Requests, s \in Starts, d \in Durations : ReserveAccepted(rs, s, d)
  BY <1>1, AcceptedInv
<1>2. CASE \E rs \in Requests, s \in Starts, d \in Durations : ReserveRejected(rs, s, d)
  BY <1>2 DEF ReserveRejected, Inv, TypeOK, NoOverlap
<1>3. CASE \E n \in 0..MaxReservations : Cancel(n)
  <2>1. PICK n \in 0..MaxReservations : Cancel(n)
    BY <1>3
  <2>2. /\ DOMAIN table' = DOMAIN table \ {n}
        /\ \A m \in DOMAIN table' : table'[m] = table[m]
    BY <2>1 DEF Cancel
  <2>3. TypeOK'
    BY <2>1, <2>2 DEF Cancel, Inv, TypeOK
  <2>4. NoOverlap'
    BY <2>2 DEF Inv, NoOverlap
  <2> QED
    BY <2>3, <2>4 DEF Inv
<1>4. CASE \E n \in 0..MaxReservations : CancelUnknown(n)
  BY <1>4 DEF CancelUnknown, Inv, TypeOK, NoOverlap
<1>5. CASE UNCHANGED vars
  BY <1>5 DEF vars, Inv, TypeOK, NoOverlap
<1> QED
  BY <1>1, <1>2, <1>3, <1>4, <1>5 DEF Next

\* No sequence of reserve and cancel calls leaves two live reservations on
\* the same resource overlapping, although reserve consults only the
\* predecessor and the successor of the request (NoOverlap, checked by the
\* reservations run).
THEOREM NoOverlapHolds == Spec => []NoOverlap
<1>1. Inv => NoOverlap
  BY DEF Inv
<1> QED
  BY InitInv, NextInv, <1>1, PTL DEF Spec

\* reserve and cancel keep the scheduler's state well formed for every
\* horizon and bound: ids stay below the next id, which never passes
\* MaxReservations, and every live reservation ends after it starts
\* (TypeOK, checked by the reservations run).
THEOREM ReservationsTypeCorrect == Spec => []TypeOK
<1>1. Inv => TypeOK
  BY DEF Inv
<1> QED
  BY InitInv, NextInv, <1>1, PTL DEF Spec

-----------------------------------------------------------------------------
(* The refinement of ReservationLedger.                                   *)

\* The holds and the call of the ledger, as the mapping gives them.
MHolds == [n \in DOMAIN table |->
             [res |-> table[n].res, slots |-> Cover(table[n].start, table[n].end)]]
MCall == IF call.op = "reserve"
         THEN [op |-> "reserve", rs |-> call.rs,
               slots |-> Cover(call.start, End(call.start, call.dur))]
         ELSE call

\* Under the invariant, the admission test of the scheduler and the ledger's
\* "every requested instant is free" agree on every resource.
LEMMA FreeFits ==
  ASSUME Inv, NEW r \in Resources, NEW s \in Starts, NEW d \in Durations
  PROVE  Ledger!Free(r, Cover(s, End(s, d))) <=> Fits(r, s, End(s, d))
<1> DEFINE e == End(s, d)
<1>1. e \in Ends /\ ~EndsBy(e, s)
  BY EndType
<1>2. ASSUME NEW h \in DOMAIN table
      PROVE  (Cover(table[h].start, table[h].end) \cap Cover(s, e) = {})
               <=> Apart(table[h].start, table[h].end, s, e)
  <2>1. /\ table[h].start \in Starts
        /\ table[h].end \in Ends
        /\ ~EndsBy(table[h].end, table[h].start)
    BY DEF Inv, TypeOK, Reservation, Ends
  <2> QED
    BY <2>1, <1>1, CoverApart
<1>3. Ledger!Free(r, Cover(s, e)) <=>
        \A h \in DOMAIN table : table[h].res = r => Apart(table[h].start, table[h].end, s, e)
  BY <1>2 DEF Ledger!Free
<1>4. (\A h \in DOMAIN table : table[h].res = r => Apart(table[h].start, table[h].end, s, e))
        => Fits(r, s, e)
  BY <1>1, ApartFits DEF Inv
<1>5. Fits(r, s, e)
        => \A h \in DOMAIN table : table[h].res = r => Apart(table[h].start, table[h].end, s, e)
  BY <1>1, FitsApart
<1> QED
  BY <1>3, <1>4, <1>5

\* The initial state of the scheduler is an initial state of the ledger.
LEMMA InitLedger == Init => Ledger!Init
<1> SUFFICES ASSUME Init PROVE Ledger!Init
  OBVIOUS
<1>1. DOMAIN table = {}
  BY DEF Init
<1>2. MHolds = [h \in {} |-> {}]
  BY <1>1 DEF MHolds
<1>3. 0..(nextId - 1) = {}
  BY DEF Init
<1> QED
  BY <1>2, <1>3 DEF Init, Ledger!Init, MHolds

\* The ledger's slot set of a request.
LEMMA SlotsOfRequest ==
  ASSUME NEW s \in Starts, NEW d \in Durations
  PROVE  Cover(s, End(s, d)) \in {Cover(s2, End(s2, d2)) : s2 \in Starts, d2 \in Durations}
OBVIOUS

\* An accepted request is a grant of the ledger: on the same resource,
\* under the id nextId.
LEMMA AcceptedGrant ==
  ASSUME Inv, NEW rs \in Requests, NEW s \in Starts, NEW d \in Durations,
         ReserveAccepted(rs, s, d)
  PROVE  Ledger!Grant(rs, Cover(s, End(s, d)))
<1>1. PICK i \in 1..Len(rs) :
        /\ FirstFit(rs, s, End(s, d), i)
        /\ table' = [n \in DOMAIN table \cup {nextId} |->
                       IF n = nextId
                       THEN [res |-> rs[i], start |-> s, end |-> End(s, d)]
                       ELSE table[n]]
        /\ reply' = [kind |-> "reserved", id |-> nextId, res |-> rs[i]]
  BY DEF ReserveAccepted
<1> DEFINE S == Cover(s, End(s, d))
<1>2. \A j \in 1..Len(rs) : rs[j] \in Resources
  BY RequestsAssumption
<1>3. /\ nextId \in 0..(MaxReservations - 1)
      /\ nextId' = nextId + 1
      /\ call' = [op |-> "reserve", rs |-> rs, start |-> s, dur |-> d]
  BY DEF ReserveAccepted, Inv, TypeOK
<1>4. Ledger!FirstFree(rs, S, i)
  <2>1. Ledger!Free(rs[i], S)
    BY <1>1, <1>2, FreeFits DEF FirstFit
  <2>2. \A j \in 1..(i - 1) : ~Ledger!Free(rs[j], S)
    BY <1>1, <1>2, FreeFits DEF FirstFit
  <2> QED
    BY <2>1, <2>2 DEF Ledger!FirstFree
<1>5. \A m \in 0..(nextId - 1) : m < nextId
  BY <1>3
<1>6. MHolds' = [h \in DOMAIN MHolds \cup {nextId} |->
                  IF h = nextId THEN [res |-> rs[i], slots |-> S] ELSE MHolds[h]]
  <2>1. DOMAIN table' = DOMAIN table \cup {nextId}
    BY <1>1
  <2>2. table'[nextId] = [res |-> rs[i], start |-> s, end |-> End(s, d)]
    BY <1>1
  <2>3. \A n \in DOMAIN table : n # nextId => table'[n] = table[n]
    BY <1>1
  <2> QED
    BY <2>1, <2>2, <2>3 DEF MHolds
<1>7. 0..(nextId' - 1) = 0..(nextId - 1) \cup {nextId}
  BY <1>3
<1>8. MCall' = [op |-> "reserve", rs |-> rs, slots |-> S]
  BY <1>3 DEF MCall
<1>9. nextId \in 0..MaxReservations
  BY <1>3
<1> QED
  BY <1>1, <1>4, <1>5, <1>6, <1>7, <1>8, <1>9 DEF Ledger!Grant, MHolds, MCall

\* Every step of the scheduler is a step of the ledger or leaves the
\* ledger's variables alone.
LEMMA StepLedger == Inv /\ [Next]_vars => [Ledger!Next]_Ledger!vars
<1> SUFFICES ASSUME Inv, [Next]_vars PROVE [Ledger!Next]_Ledger!vars
  OBVIOUS
<1> DEFINE Slots == {Cover(s2, End(s2, d2)) : s2 \in Starts, d2 \in Durations}
<1>1. CASE \E rs \in Requests, s \in Starts, d \in Durations : ReserveAccepted(rs, s, d)
  <2>1. PICK rs \in Requests, s \in Starts, d \in Durations : ReserveAccepted(rs, s, d)
    BY <1>1
  <2>2. Ledger!Grant(rs, Cover(s, End(s, d)))
    BY <2>1, AcceptedGrant
  <2>3. Cover(s, End(s, d)) \in Slots
    BY SlotsOfRequest
  <2> QED
    BY <2>2, <2>3 DEF Ledger!Next
<1>2. CASE \E rs \in Requests, s \in Starts, d \in Durations : ReserveRejected(rs, s, d)
  <2>1. PICK rs \in Requests, s \in Starts, d \in Durations : ReserveRejected(rs, s, d)
    BY <1>2
  <2> DEFINE S == Cover(s, End(s, d))
  <2>2. \A i \in 1..Len(rs) : ~Ledger!Free(rs[i], S)
    <3>1. \A i \in 1..Len(rs) : rs[i] \in Resources
      BY RequestsAssumption
    <3> QED
      BY <2>1, <3>1, FreeFits DEF ReserveRejected
  <2>3. /\ table' = table /\ nextId' = nextId
        /\ call' = [op |-> "reserve", rs |-> rs, start |-> s, dur |-> d]
        /\ reply' = [kind |-> "none"]
    BY <2>1 DEF ReserveRejected
  <2>4. MHolds' = MHolds /\ MCall' = [op |-> "reserve", rs |-> rs, slots |-> S]
    BY <2>3 DEF MHolds, MCall
  <2>5. Ledger!Refuse(rs, S)
    BY <2>2, <2>3, <2>4 DEF Ledger!Refuse, MHolds, MCall
  <2>6. S \in Slots
    BY SlotsOfRequest
  <2> QED
    BY <2>5, <2>6 DEF Ledger!Next
<1>3. CASE \E n \in 0..MaxReservations : Cancel(n)
  <2>1. PICK n \in 0..MaxReservations : Cancel(n)
    BY <1>3
  <2>2. MHolds' = [h \in DOMAIN MHolds \ {n} |-> MHolds[h]]
    BY <2>1 DEF Cancel, MHolds
  <2>3. MCall' = [op |-> "cancel", id |-> n]
    BY <2>1 DEF Cancel, MCall
  <2>4. Ledger!Release(n)
    BY <2>1, <2>2, <2>3 DEF Cancel, Ledger!Release, MHolds, MCall
  <2> QED
    BY <2>4 DEF Ledger!Next
<1>4. CASE \E n \in 0..MaxReservations : CancelUnknown(n)
  <2>1. PICK n \in 0..MaxReservations : CancelUnknown(n)
    BY <1>4
  <2>2. MHolds' = MHolds
    BY <2>1 DEF CancelUnknown, MHolds
  <2>3. MCall' = [op |-> "cancel", id |-> n]
    BY <2>1 DEF CancelUnknown, MCall
  <2>4. Ledger!Unknown(n)
    BY <2>1, <2>2, <2>3 DEF CancelUnknown, Ledger!Unknown, MHolds, MCall
  <2> QED
    BY <2>4 DEF Ledger!Next
<1>5. CASE UNCHANGED vars
  <2>1. MHolds' = MHolds /\ MCall' = MCall
    BY <1>5 DEF vars, MHolds, MCall
  <2> QED
    BY <1>5, <2>1 DEF vars, Ledger!vars, MHolds, MCall
<1> QED
  BY <1>1, <1>2, <1>3, <1>4, <1>5 DEF Next

\* The scheduler implements its contract: through the mapping of intervals
\* to instant sets, every behaviour of reserve and cancel is a behaviour of
\* ReservationLedger (LedgerSpec, checked by the reservations run): grants
\* go to the first free resource of the preference list under ids above
\* every earlier id, refusals only when every listed resource is taken,
\* and cancel removes exactly the named reservation.
THEOREM LedgerRefinement == Spec => LedgerSpec
<1> QED
  BY InitInv, NextInv, InitLedger, StepLedger, PTL DEF Spec, LedgerSpec, Ledger!Spec
=============================================================================
