---------------------------- MODULE MCPrintQueue ----------------------------
(* PrintQueue for TLC: two requests beside the worker, so that three can    *)
(* meet on one job, and every bound large enough for a second round.        *)
EXTENDS PrintQueue

\* Bound: how much goes wrong in a run at once.
TroublesBound == asked + unheard + crashes + (IF crowded THEN 1 ELSE 0) <= 2

=============================================================================
