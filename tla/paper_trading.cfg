\* Two agents in one market, three keys for a journal of two, an order larger
\* than what is displayed; the very first answer is awaited.
CONSTANTS
    c1 = c1  c2 = c2  T1 = T1  k1 = k1  fok = fok  ioc = ioc
    NoId = NoId
    NoLedger = NoLedger
    Calls = {c1, c2}
    Tickers = {T1}
    Ids = {k1}
    Policies = {fok, ioc}
    Keys <- MCKeys
    Prices = {5000}
    Counts = {100, 200}
    Levels <- MCLevels
    StartCash = 51
    JournalCap = 2
    FirstAlone = TRUE
SPECIFICATION Spec
SYMMETRY Symmetry
INVARIANTS TypeOK CashNeverNegative OneFillPerKey FillAnswersTheOrder ToldFillsStay ReadsOwnFills RetryIsAnswered BooksBalance
PROPERTIES KeepsAccount
