--------------------------- MODULE CheckoutPromise ---------------------------
(***************************************************************************)
(* What checkout promises about one order, whatever PayPal, the network,   *)
(* the webhooks and the operators do: the buyer is charged at most once,   *)
(* and the order is settled at most once, only after a charge, together    *)
(* with the sale of its stock.  Nothing is ever taken back here: refunds   *)
(* are another component.                                                  *)
(***************************************************************************)
EXTENDS Naturals

VARIABLES
    charges,   \* how many PayPal orders of this order were captured
    settled,   \* the order counts as paid
    sold       \* its stock was deducted

Init == charges = 0 /\ settled = FALSE /\ sold = FALSE

Charge == charges = 0 /\ charges' = 1 /\ UNCHANGED <<settled, sold>>

Settle ==
    /\ charges = 1 /\ ~settled
    /\ settled' = TRUE /\ sold' = TRUE
    /\ UNCHANGED charges

Next == Charge \/ Settle

Spec == Init /\ [][Next]_<<charges, settled, sold>>

=============================================================================
