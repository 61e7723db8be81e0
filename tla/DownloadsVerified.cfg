CONSTANTS
  Downloads = {d1, d2}
  Files = {f}
  Inodes = {i1, i2, i3}
  Chunks = 2
  None = None
SPECIFICATION Spec
SYMMETRY Symmetry
VIEW View
INVARIANT LibraryIsVerified
