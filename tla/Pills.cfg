CONSTANTS
    k1 = k1
    k2 = k2
    v1 = v1
    none = none
    Keys <- MC_Keys
    Vals <- MC_Vals
    NoValue <- none
    MaxPills <- MC_MaxPills
SPECIFICATION Spec
INVARIANT TypeOK
INVARIANT LabelKeysMatchPills
PROPERTY PillListsRefineKeyedList
