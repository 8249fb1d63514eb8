--------------------------- MODULE MCRefundIntents ---------------------------
(* RefundIntents for TLC: keys and callers are interchangeable.             *)
EXTENDS RefundIntents, TLC

\* Bound: webhooks on their way, or waiting for another delivery, at once.
MailBound == Cardinality(mail) <= 3

Symmetry == Permutations(Keys) \cup Permutations(Callers)

=============================================================================
