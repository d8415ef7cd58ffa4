SPECIFICATION Spec
CONSTANTS
  a = a
  b = b
  x = x
  y = y
  m = m
  arsenal = arsenal
  chelsea = chelsea
  Absent = Absent
  None = None
  AllTeams = "*"
  Chats = {a}
  Comps = {x}
  Teams = {arsenal, chelsea}
  Leads = {"1d"}
  DefaultLeads = {"1d"}
  Windows <- MCQuiet
  DefaultWindow = {1}
  Matches = {m}
  CompOf <- MCCompOf
  Sides <- MCSides
  Kickoff <- MCKickoff
  LeadTime <- MCLeadTime
  MaxTime = 3
  Lookahead = 2
  Lookback = 1
  Senders = {"telegram", "console"}
  Attempts = 2
  MaxFaults = 1
  Picks <- MCPicks
  AlertPrefs <- MCPrefs
  InitialStores <- MCStores
CHECK_DEADLOCK TRUE
INVARIANT ExactlyOnce
