INIT Init
NEXT Next
SYMMETRY MCSymmetry
CONSTANTS
    Lines = {"l1", "l2"}
    Quantity <- MCQuantity
    Amount <- MCAmount
    Tax <- MCTax
    Total = 6
    Keys = {k1, k2, k3}
    Callers = {c1, c2}
CHECK_DEADLOCK FALSE
INVARIANTS
    TypeOK
    SharesAreExact
    MoneyMatchesGoods
    StaysFinishable
