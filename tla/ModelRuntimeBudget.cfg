CONSTANTS
  Files = {f, g}
  LmStudio = {g}
  Loads = {l1, l2}
  MaxPolls = 2
  None = None
SPECIFICATION Spec
SYMMETRY Symmetry
PROPERTY BudgetIsGranted
