CONSTANTS
    Windows = {"1h", "24h"}
    Named = {"eviction", "restart"}
    Added = {"new-one", "new-two"}
    MaxInt = 2
    Flaws = {"large", "syntax", "schema", "fields"}
SPECIFICATION Spec
INVARIANT OlderReaderKeepsTheReport
CHECK_DEADLOCK FALSE
