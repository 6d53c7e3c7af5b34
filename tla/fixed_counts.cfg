\* The same orders, as the paper book reads their counts.
CONSTANTS
    Prices <- MCPrices
    Digits <- MCDigits
    IntBits = 22
SPECIFICATION Spec
INVARIANTS PaperReadsTheCount
