---------------------------- MODULE MCReturns ----------------------------
(* Returns for TLC: two lines, one of two units and taxed, cents that do not *)
(* divide evenly, and a cent of tip that no return gives back.               *)
EXTENDS Returns, TLC

MCQuantity == [l \in Lines |-> IF l = "l1" THEN 2 ELSE 1]
MCAmount == [l \in Lines |-> IF l = "l1" THEN 3 ELSE 2]
MCTax == [l \in Lines |-> IF l = "l1" THEN 1 ELSE 0]
MCSymmetry == Permutations(Keys) \cup Permutations(Callers)

=============================================================================
