\* One caller places and cancels; an answer misleads.
CONSTANTS
    c1 = c1  o1 = o1
    Calls = {c1}
    Orders = {o1}
    Cents = {1}
    Kinds = {"place", "cancel"}
    Faults = {"misleading"}
    LastDay = 1
    MaxOrderCents = 1
    MaxDailyCents = 3
    MaxDailyOrders = 3
SPECIFICATION Spec
SYMMETRY Symmetry
INVARIANTS CleanFailureIsClean
