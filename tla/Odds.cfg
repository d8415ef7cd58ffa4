SPECIFICATION MCSpec
CONSTANTS
  MaxCycles = 3
  u1 = u1
  u2 = u2
  m1 = m1
  m2 = m2
  reds = reds
  blues = blues
  greens = greens
  NoOdds = NoOdds
  Unasked = Unasked
  NoMatch = NoMatch
  Users = {u1, u2}
  Matches = {m1, m2}
  Follows <- MCFollows
  Score <- MCScore
  Teams = {reds, blues, greens}
  Team <- MCTeam
  Quotes <- MCQuotes
  Tables <- MCTables
  SignalPriority <- MCSignalPriority
  Sensitivity = 65
  MinPositionGap = 8
  FormWindow = 2
  DailyCap = 3
  Attempts = 1
  DayLength = 1
  MaxTime = 1
  MaxFaults = 1
INVARIANTS TypeOK RequestsPaid LateRequests OneUnitPerMatch SameVerdict BudgetLasts OneSided
PROPERTIES WorkShrinks PlanningEnds
CHECK_DEADLOCK FALSE
