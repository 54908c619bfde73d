SPECIFICATION Spec
CONSTANTS
  p1 = p1
  p2 = p2
  s1 = s1
  c1 = c1
  None = None
  AdHoc = AdHoc
  Patterns <- TwoPatterns
  Scenes <- OneScene
  Base <- OneBase
  Records <- SomeRecords
  Lists <- Playlists
  Values = {0, 1}
  Clients <- OneClient
  QueueCap = 2
  MaxAsks = 2
  MaxBoots = 1
  Mishaps <- NoMishaps
INVARIANTS RebootShowsTheSame CommandsLand
PROPERTIES AdHocKeepsRecord BootShows
CHECK_DEADLOCK FALSE
