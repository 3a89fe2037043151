--------------------------- MODULE MC_Reservations ---------------------------
EXTENDS ReservationsRefinement

CONSTANTS w0, w1

\* The preference lists of the unit test, in either order.
MCRequests == {<<w0>>, <<w1>>, <<w0, w1>>, <<w1, w0>>}
=============================================================================
