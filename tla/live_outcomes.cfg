\* All three write tools at once on one order, requests that arrive late, a
\* crowded account and restarts: what each caller is told against what happened.
CONSTANTS
    c1 = c1  c2 = c2  o1 = o1
    Calls = {c1, c2}
    Orders = {o1}
    Cents = {1}
    Kinds = {"place", "amend", "cancel"}
    Faults = {"late", "crowded", "restart"}
    LastDay = 1
    MaxOrderCents = 1
    MaxDailyCents = 1
    MaxDailyOrders = 1
SPECIFICATION Spec
SYMMETRY Symmetry
INVARIANTS SuccessIsTrue CleanFailureIsClean ArmingIsPerProcess
PROPERTIES NeverBlindRetry KeepsOutcomeContract
