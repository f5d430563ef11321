CONSTANTS
  Requests = {r1}
  Worker = w
  Unsteady = {}
  Drafts <- Recurring
  MaxCampaigns = 2
  MaxTime = 1
  MaxLaunches = 1
  MaxDeaths = 0
  None = None
SPECIFICATION FairSpec
PROPERTIES OccurrencesLaunch
CHECK_DEADLOCK FALSE
