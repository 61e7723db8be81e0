CONSTANTS
  Calls = {c1, c2}
  MaxChunks = 1
SPECIFICATION FairSpec
INVARIANTS WaitersAreReachable
PROPERTIES RepliesAreStreams AnswersArrive
