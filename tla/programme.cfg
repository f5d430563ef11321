CONSTANTS
  Requests = {r1}
  Worker = w
  Unsteady = {"gatewayAllowlist"}
  Drafts <- GoodAndBad
  MaxCampaigns = 2
  MaxTime = 1
  MaxLaunches = 2
  MaxDeaths = 1
  None = None
SPECIFICATION FairSpec
INVARIANTS ProgrammeInv
PROPERTIES LaunchesReady DueLaunches
CHECK_DEADLOCK FALSE
