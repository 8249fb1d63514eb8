SPECIFICATION Spec
CONSTANTS
    first = first
    second = second
    storefront = storefront
    backstock = backstock
    small = small
    large = large
    Archiver = Archiver
    Orders <- MCOrders
    Locations <- MCLocations
    Ordered <- MCOrdered
    LocationOrder <- MCLocationOrder
    OneLocation <- MCFirst
    Option <- MCOneOption
    Source = small
    Online <- MCSecond
    Edited <- MCSecond
    Stock <- MCStock
    Ttl = 1
    Horizon = 1
    MaxDecreases = 0
INVARIANTS
    TypeOK
    SoldAsOrdered
    CheckoutIsHeld
    HeldForACause
    NoOverage
CHECK_DEADLOCK FALSE
