\* The constants are the pair's; the module gives the other streams theirs.
CONSTANTS
  Ids <- PairIds
  Pkgs = {"p"}
  PkgOf <- PairPkgOf
  Above <- PairAbove
  Lines = {"sig", "race"}
  Rounds = 2
  Reruns = FALSE
SPECIFICATION MCSpec
INVARIANTS
    VerdictFollowsTheRule
    NothingTurnsItGreen
\* go test ends.
CHECK_DEADLOCK FALSE
