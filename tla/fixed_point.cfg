\* Prices at, between and beside whole cents; counts up to 300 hundredths or
\* contracts, beyond what the integers of the live caps hold.
CONSTANTS
    Prices <- MCPrices
    Digits <- MCDigits
    IntBits = 22
SPECIFICATION Spec
INVARIANTS FeeMatchesFormula AskNeverCosts LiveReadsTheCount CapMissesLessThanACent
