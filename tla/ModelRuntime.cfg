CONSTANTS
  Files = {f, g}
  LmStudio = {g}
  Loads = {l1, l2}
  MaxPolls = 2
  None = None
SPECIFICATION FairSpec
INVARIANTS OwnedServerIsShown StartingIsWatched
PROPERTIES NothingRevives StartingEnds DeleteSparesLoaded
