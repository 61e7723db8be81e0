CONSTANTS
  Calls = {c1}
  MaxChunks = 1
SPECIFICATION FairSpec
PROPERTY CallsEnd
