---------------------------- MODULE MCCustomerCredit ----------------------------
(* CustomerCredit for TLC: two orders, one of them taxed, and ids of orders *)
(* and attempts that meet.                                                  *)
EXTENDS CustomerCredit

MCOrders == {1, 2}
MCTotal == <<2, 2>>
MCSubtotal == <<2, 1>>
MCGrants == {3, -1}
MCEdited == {1}

\* Bound: entries of the ledger that have a key, adjustments included.
BookingsBound == Cardinality(used) <= 5

=============================================================================
