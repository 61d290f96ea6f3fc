SPECIFICATION FairSpec
CONSTANTS
    Requests <- Waiting
    Attribution = FALSE
    MaxFaults = 1
    MaxSlow = 0
CHECK_DEADLOCK FALSE
PROPERTY CampaignEnds
