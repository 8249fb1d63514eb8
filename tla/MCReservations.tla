---------------------------- MODULE MCReservations ----------------------------
(* Reservations for TLC: two orders of one option whose types rank two      *)
(* locations in opposite order, or of two options kept in one location.     *)
EXTENDS Reservations

CONSTANTS first, second, storefront, backstock, small, large

MCOrders == {first, second}
MCLocations == {storefront, backstock}
MCOrdered == [o \in MCOrders |-> IF o = first THEN 1 ELSE 2]
MCLocationOrder ==
    [o \in MCOrders |-> IF o = first THEN <<storefront, backstock>>
                                      ELSE <<backstock, storefront>>]
MCStock == [l \in MCLocations |-> 1]
\* One location, for the run in which staff move stock.
MCShop == {storefront}
MCShopOrder == [o \in MCOrders |-> <<storefront>>]
MCShopStock == [l \in MCShop |-> 2]
MCFirst == {first}
MCSecond == {second}
MCTwoOptions == [o \in MCOrders |-> IF o = first THEN small ELSE large]
MCOneOption == [o \in MCOrders |-> small]

=============================================================================
