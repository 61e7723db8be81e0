CONSTANTS
  Starts = {s1, s2}
  Hosts = {h1}
  MaxPolls = 1
SPECIFICATION Spec
SYMMETRY Symmetry
INVARIANT RunningHasServer
