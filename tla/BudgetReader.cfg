CONSTANTS
  Minors = {0, 1}
  BodyWords <- MCBodyWords
  Keys = {a, b}
  NoKey = NoKey
  MaxRestarts = 1
  MaxPublishes = 2
  Readers = {r1}
SPECIFICATION FairSpec
INVARIANTS
    ReaderTypeOK
    RecognisedHeaderValid
    SeqlockHolds
    NoLostWakeup
PROPERTIES
    StoresInOrder
    ImplementsRegister
    ReadersConverge
