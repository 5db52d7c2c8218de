CONSTANTS
    MaxEdits <- MC_MaxEdits
    MaxRequests <- MC_MaxRequests
    MaxHides <- MC_MaxHides
SPECIFICATION Spec
PROPERTY NoCommitAfterCloseBeacon
