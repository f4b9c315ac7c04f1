CONSTANTS
  Minors = {0, 1}
  BodyWords <- MCBodyWords
  Keys = {a, b}
  NoKey = NoKey
  MaxRestarts = 1
  MaxPublishes = 1
  Readers = {r1}
SPECIFICATION Spec
INVARIANT
  AcceptedIsPublished
