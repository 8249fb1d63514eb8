-------------------------- MODULE MCPayPalCheckout --------------------------
(* PayPalCheckout for TLC: a second attempt after a first that came to      *)
(* nothing.                                                                 *)
EXTENDS PayPalCheckout

\* Bound: webhook handlers and clean-ups at work at once, beside the call that
\* holds the lock.
HandlersBound == Cardinality(hooks) <= 1 /\ Cardinality(hooks) + Cardinality(cleanups) <= 2

=============================================================================
