--------------------------- MODULE MCUberFulfillment ---------------------------
(* UberFulfillment for TLC: two workers and one courier, some of Uber's     *)
(* statuses, and a delivery that was made by hand.                          *)
EXTENDS UberFulfillment, TLC

CONSTANTS first, second

MCWorkers == {first, second}
Symmetric == Permutations(MCWorkers)
MCOneWorker == {first}
\* One that can still be sent away, one that cannot, and two ends.
MCReports == {"pending", "dropoff", "delivered", "canceled"}
MCEnds == {"delivered", "canceled"}

=============================================================================
