CONSTANTS
    MaxChecks <- MC_MaxChecks
SPECIFICATION Spec
INVARIANT TypeOK
INVARIANT OneErrorIffLastFailed
