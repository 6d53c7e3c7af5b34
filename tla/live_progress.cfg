\* All three write tools on one order under the fairness of the
\* goroutines.  No symmetry: the properties are temporal.
CONSTANTS
    c1 = c1  c2 = c2  o1 = o1
    Calls = {c1, c2}
    Orders = {o1}
    Cents = {1}
    Kinds = {"place", "amend", "cancel"}
    Faults = {}
    LastDay = 1
    MaxOrderCents = 1
    MaxDailyCents = 2
    MaxDailyOrders = 2
SPECIFICATION Spec
PROPERTIES EveryCallReturns DisarmStopsWrites
