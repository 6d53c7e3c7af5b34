\* Two calls placing at once under three order ids, midnight, answers lost but
\* none late or cut off: the caps, their overrun, and what is accounted for.
CONSTANTS
    c1 = c1  c2 = c2  o1 = o1  o2 = o2  o3 = o3
    Calls = {c1, c2}
    Orders = {o1, o2, o3}
    Cents = {2, 3}
    Kinds = {"place"}
    Faults = {}
    LastDay = 2
    MaxOrderCents = 2
    MaxDailyCents = 3
    MaxDailyOrders = 2
SPECIFICATION Spec
SYMMETRY Symmetry
INVARIANTS TypeOK OrderCapHolds OverrunIsBounded TrackerCoversExchange AcceptedOverrunIsBounded
