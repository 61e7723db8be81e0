CONSTANTS
  Downloads = {d1, d2}
  Files = {f, g}
  Inodes = {i1, i2}
  Chunks = 2
  None = None
SPECIFICATION Spec
SYMMETRY Symmetry
VIEW View
INVARIANTS SlotIsTruthful
PROPERTY OnlyVerifiedFilesEnter
