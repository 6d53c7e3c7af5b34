\* Two contracts; upstream publishes freely; the script is run again and again.
CONSTANTS
    v1 = v1  v2 = v2  broken = broken
    N = 2
    Contents = {v1, v2, broken}
    Valid = {v1, v2}
    Offers <- MCOffers
    Sources <- MCSources
SPECIFICATION Spec
INVARIANTS TypeOK SuccessMeansParity
PROPERTIES PromotesWhatPassed ReplacesOnlyAfterAllValid FetchEnds
