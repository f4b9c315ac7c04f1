SPECIFICATION MCSpec
CONSTANTS
    Minors = {0, 1, 2}
    BodyWords <- MCBodyWords
    Keys = {a}
    NoKey = NoKey
    MaxRestarts = 3
    MaxPublishes = 0
    Tables <- MCTables
    Low = 4
    Turns = 3
    MaxMissed = 13
INVARIANTS
    HeaderReadsWereHeld
    LayoutSound
    TableServesTheStores
    EqualWordsHideWholeTurns
    PageCarriesTheObservation
    NotifiedReaderIsCurrent
CHECK_DEADLOCK FALSE
