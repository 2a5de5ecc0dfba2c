SPECIFICATION ViewsSpec
CONSTANTS
    Addresses = {"a", "b"}
    Sorts = {"recommended", "fee"}
    FirstSort = "recommended"
    MaxChanges = 1
    MaxRequests = 4
INVARIANTS
    ViewsTypeOK
    ProfileShowsItsOwn
PROPERTIES
    CacheNeverGoesBack
    KeepsLastGood
    PagesSettle
CHECK_DEADLOCK FALSE
