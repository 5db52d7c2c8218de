CONSTANTS
    MaxLen <- MC_MaxLen
    MaxPills <- MC_MaxPills
SPECIFICATION Spec
INVARIANT LabelValuesConform
