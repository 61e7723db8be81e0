SPECIFICATION RunsFairSpec
CONSTANTS
  a = a
  b = b
  c = c
  r1 = r1
  r2 = r2
  r3 = r3
  Machines = {a, b, c}
  Requests = {r1, r2, r3}
  HomeOf <- MCHomeOf
  KindOf <- MCKindOf
  ListsOf <- MCListsOf
  Trusts <- MCTrusts
  Runtimes <- MCRuntimes
  QuicOn = {a}
  DlpOn = {a}
  MaxChanges = 1
  MaxBreaks = 1
INVARIANTS AskedWhereSent RefusedOnlyByItself TurnsAreEven
PROPERTIES RequestsEnd
CHECK_DEADLOCK FALSE
