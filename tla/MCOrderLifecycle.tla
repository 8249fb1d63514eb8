--------------------------- MODULE MCOrderLifecycle ---------------------------
(* OrderLifecycle for TLC: representatives, a manager and a stale archive.  *)
EXTENDS OrderLifecycle, TLC

CONSTANTS ann, bob

MCCsrs == {ann, bob}
MCOneCsr == {ann}
\* A status that PATCH writes behind the back of the fulfilment stage, and the
\* stages that the lifecycle reaches one by one.
MCStatuses == {"completed"}
MCStages == {"submitted", "completed"}
MCCancelling == {"cancelled"}
Symmetric == Permutations(MCCsrs)

=============================================================================
