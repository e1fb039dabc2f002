SPECIFICATION Spec
CONSTANTS
    Prices <- MCPrices
    Bodies <- MCBodies
    Limits <- MCLimits
    MaxVersion = 2
    MaxAsked = 2
CHECK_DEADLOCK FALSE
INVARIANTS
    BillBalances
    TermsExplainDiscount
PROPERTIES
    QuoteIsCharged
    QuoteIsHonoured
