\* One caller places, then amends and loses the answer.
CONSTANTS
    c1 = c1  o1 = o1  o2 = o2
    Calls = {c1}
    Orders = {o1, o2}
    Cents = {1, 2}
    Kinds = {"place", "amend"}
    Faults = {}
    LastDay = 1
    MaxOrderCents = 2
    MaxDailyCents = 3
    MaxDailyOrders = 3
SPECIFICATION Spec
SYMMETRY Symmetry
INVARIANTS AcceptedWithinDailyCaps
