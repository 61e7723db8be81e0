SPECIFICATION FairSpec
CONSTANTS
  c1 = c1
  c2 = c2
  s1 = s1
  s2 = s2
  o1 = o1
  ChatIds = {c1, c2}
  Saves = {s1, s2}
  Ops = {o1}
  NoChat = NoChat
  Nobody = Nobody
  MemoryCap = 2
  TopK = 1
  MaxScore = 1
  MaxFaults = 1
  MaxChanges = 1
INVARIANTS AcknowledgedIsKept OneMemoryPerChat
PROPERTIES SavedIsRead
CHECK_DEADLOCK FALSE
