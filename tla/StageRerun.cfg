CONSTANTS
  Ids <- PairIds
  Pkgs = {"p"}
  PkgOf <- PairPkgOf
  Above <- PairAbove
  Lines = {"sig", "race"}
  Rounds = 2
  Reruns = FALSE
SPECIFICATION RerunSpec
INVARIANT LostRunReds
CHECK_DEADLOCK FALSE
