\* Processes in every environment; two goroutines, a cap of two orders.
CONSTANTS
    c1 = c1  c2 = c2
    NoTracker = NoTracker
    NoConfig = NoConfig
    Calls = {c1, c2}
    OrderCents = 1
    MaxOrderCents = 1
    MaxDailyCents = 9
    MaxDailyOrders = 2
SPECIFICATION Spec
SYMMETRY Symmetry
INVARIANTS TypeOK SignedWithConsent KeyUntouched OneTrackerKnowsAll RecordedIsBounded
