\* One agent reads while the listing and the account change.
CONSTANTS
    c1 = c1
    Calls = {c1}
    Last = 3
    Limits = {0, 1}
    DefaultLimit = 2
    FillPage = 2
    MaxExecutions = 3
SPECIFICATION Spec
INVARIANTS TypeOK NoRowTwice WalkReadsAll FillsExplainRecent
PROPERTIES EveryReadReturns
