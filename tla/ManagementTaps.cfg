SPECIFICATION Spec
CONSTANTS
  league = league
  cup = cup
  arsenal = arsenal
  chelsea = chelsea
  Absent = Absent
  None = None
  AllTeams = "*"
  Chats = {"a"}
  People = {"p"}
  Comps = {league, cup}
  Teams = {arsenal, chelsea}
  Leads = {"1d"}
  DefaultLeads = {"1d"}
  Windows = {{}, {1}, {2}}
  DefaultWindow = {1}
  Rank <- MCRank
  Picks <- MCPicks
  AlertPrefs <- MCPrefs
  InitialStores <- MCStores
PROPERTY TapRemovesWhatItNames
