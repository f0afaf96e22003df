SPECIFICATION Spec
CONSTANTS
    Isin = {"ETF", "GOOG"}
    NoIsin = NoIsin
    Euro = "EUR"
    CurrencyOf <- MCCurrencyOf
    Yesterday = 3
    TransitDays = 2
    Zones = {TRUE, FALSE}
    Inputs <- MCInputs
INVARIANTS
    ValuedAtLatest
    CashIsBalance
    HoldingsPersist
CHECK_DEADLOCK FALSE
