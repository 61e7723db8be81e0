CONSTANTS
  Starts = {s1}
  Hosts = {h1, h2}
  MaxPolls = 1
SPECIFICATION FairSpec
PROPERTIES HostDeathsAreNoticed
