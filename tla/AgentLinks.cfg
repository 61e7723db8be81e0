SPECIFICATION AgentSpec
CONSTANTS
  r1 = r1
  Runs = {r1}
  Asked <- MCAsked
  HardSteps = 2
  HardCalls = 2
  HardTokens = 2
  MaxUsage = 1
  Surplus = 1
  ToolCalls <- MCToolCalls
  NoCall = NoCall
  Hosts <- MCHosts
  RingMax = 4
  SeedMax = 3
  MaxLags = 2
  MaxBytes = 2
  ListMax = 2
  GrepMaxMatches = 2
  GrepMaxFiles = 2
  LogMax = 2
  FetchMax = 2
INVARIANTS LinksAreFollowed
CHECK_DEADLOCK FALSE
