SPECIFICATION MCSpec
INVARIANTS
    DialReachesTheNode
    ScannerDecidesTheGrammar
    ResolverReadsTheConfig
    ServiceKeepsItsPorts
    NodeAppliesTheAdminsRule
    LedgerHoldsTheOwnedAliases
