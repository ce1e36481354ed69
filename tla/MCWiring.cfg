\* the stores commands get, and what later commands find
CONSTANTS
  Run = {r1, r2}
  Node = {n1, n2}
  Place = {p1, p2}
  Options <- MCOptions
  Env <- MCEnv
  Unset = Unset
SPECIFICATION WiringSpec
CONSTRAINT Bounded
SYMMETRY Symmetry
INVARIANT NothingIsSwapped
