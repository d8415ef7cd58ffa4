SPECIFICATION MCSpec
CONSTANTS
  e1 = e1
  m1 = m1
  afd = afd
  fdo = fdo
  DayLength = 3
  Offset = 1
  Events = {e1}
  Matches = {m1}
  WatchedBy <- MCWatchedBy
  Wants <- MCWants
  Leads = {"1h"}
  LeadTime <- MCLeadTime
  Lookahead = 3
  Lookback = 2
  Providers = {afd, fdo}
  Rank <- MCRank
  Naming <- MCNaming
  Kickoffs = {2, 3}
  Quiets <- MCQuiets
  Senders = {"telegram", "console"}
  Attempts = 2
  MaxTime = 3
  MaxFaults = 1
  MaxTroubles = 1
  MaxActive = 2
  MaxWatched = 1
INVARIANTS TypeOK NothingOwedIsSettled CopiesAccounted CopiesBounded RepeatsExplained
CHECK_DEADLOCK FALSE
PROPERTIES ImplementsOutbox QuietKept NeverEarly OnlySetbacksDelay OnTime
