SPECIFICATION Spec
CONSTANTS
  league = league
  cup = cup
  arsenal = arsenal
  chelsea = chelsea
  Absent = Absent
  NotLoaded = NotLoaded
  NoWizard = NoWizard
  AllTeams = "*"
  Chats = {"a"}
  People = {"p"}
  Comps = {league, cup}
  Teams = {arsenal, chelsea}
  Leads = {"1d"}
  DefaultLeads = {"1d"}
  Windows = {{}}
  DefaultWindow = {}
  Rosters <- MCRosters
  AlertPrefs <- MCPrefs
  MaxIndex = 2
  InitialStores <- MCStores
INVARIANTS PicksBelong OnlyRealTeams
PROPERTY ImplementsBotStore
