SPECIFICATION Spec
CONSTANTS
  a = a
  b = b
  c = c
  na = na
  nb = nb
  k = k
  xb = xb
  xc = xc
  Machines = {a, b, c}
  Names = {na, nb}
  NameOf <- MCNameOf
  NoOne = NoOne
  Offerers = {a}
  Tokens = {t1}
  Codes = {c1}
  Attempts = {xb, xc}
  HomeOf <- MCHomeOf
  HowOf <- MCHowOf
  BindOf <- MCBindOf
  Relayed = {a, b}
  OnLan <- MCOnLan
  Seen = {"private"}
  Burst = 1
  Clis = {k}
  CliHome <- MCCliHome
  MaxFaults = 2
INVARIANTS TokenPairsOnce PairedBothWays UnpairSticks
CHECK_DEADLOCK FALSE
