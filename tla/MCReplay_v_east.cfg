SPECIFICATION Spec
CONSTANTS
    Isin = {"ETF", "GOOG"}
    NoIsin = NoIsin
    Euro = "EUR"
    CurrencyOf <- MCCurrencyOf
    Yesterday = 3
    TransitDays = 2
    Zones = {TRUE}
    Inputs <- MCHistories
INVARIANTS
    ValuedOnOrBefore
CHECK_DEADLOCK FALSE
