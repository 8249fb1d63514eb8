SPECIFICATION FairSpec
CONSTANTS
    first = first
    second = second
    storefront = storefront
    backstock = backstock
    small = small
    large = large
    Archiver = Archiver
    Orders <- MCOrders
    Locations <- MCShop
    Ordered <- MCOrdered
    LocationOrder <- MCShopOrder
    OneLocation <- MCFirst
    Option <- MCTwoOptions
    Source = small
    Online <- MCSecond
    Edited <- MCSecond
    Stock <- MCShopStock
    Ttl = 1
    Horizon = 0
    MaxDecreases = 1
INVARIANTS
    NeverOversells
PROPERTIES
    TransactionsEnd
CHECK_DEADLOCK FALSE
