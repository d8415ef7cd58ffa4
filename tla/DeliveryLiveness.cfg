SPECIFICATION LiveSpec
CONSTANTS
  a = a
  b = b
  x = x
  y = y
  m = m
  arsenal = arsenal
  chelsea = chelsea
  Absent = Absent
  None = None
  AllTeams = "*"
  Chats = {a, b}
  Comps = {x, y}
  Teams = {arsenal, chelsea}
  Leads = {"1d"}
  DefaultLeads = {"1d"}
  Windows <- MCQuiet
  DefaultWindow = {1}
  Matches = {m}
  CompOf <- MCCompOf
  Sides <- MCSides
  Kickoff <- MCLateKickoff
  LeadTime <- MCLongLead
  MaxTime = 4
  Lookahead = 2
  Lookback = 1
  Senders = {"telegram"}
  Attempts = 2
  MaxFaults = 1
  Picks = {}
  AlertPrefs <- MCPrefs
  InitialStores <- MCLiveStores
PROPERTIES CyclesEnd OnTime
CHECK_DEADLOCK TRUE
