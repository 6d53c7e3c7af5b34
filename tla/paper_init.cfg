\* Two first calls at once.
CONSTANTS
    c1 = c1  c2 = c2  T1 = T1  k1 = k1  fok = fok  k2 = k2
    NoId = NoId
    NoLedger = NoLedger
    Calls = {c1, c2}
    Tickers = {T1}
    Ids = {k1, k2}
    Policies = {fok}
    Keys <- MCKeys
    Prices = {5000}
    Counts = {100}
    Levels <- MCLevels
    StartCash = 60
    JournalCap = 2
    FirstAlone = FALSE
SPECIFICATION Spec
INVARIANTS ToldFillsStay
