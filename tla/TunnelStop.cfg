CONSTANTS
  Calls = {c1}
  Sups = {s1, s2}
  MaxAutoRestarts = 3
  Boot = Boot
  Dog = Dog
  NoOne = NoOne
SPECIFICATION Spec
PROPERTY StopIsFinal
