CONSTANTS
  Starts = {s1, s2}
  Hosts = {h1, h2}
  MaxPolls = 1
SPECIFICATION FairSpec
INVARIANTS ServerIsSupervised IdleOwnsNothing
PROPERTIES StoppedStaysStopped LoadEnds DeathsAreNoticed
