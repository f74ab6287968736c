CONSTANTS
  Clients = {c1, c2}
  MaxUids = 2
  Cap = 2
  Flaky = TRUE
SPECIFICATION FairSpec
INVARIANT RefIsOwn
INVARIANT ReportIsTrue
PROPERTY DeleteSparesOthers
PROPERTY WatchEnds
CHECK_DEADLOCK FALSE
