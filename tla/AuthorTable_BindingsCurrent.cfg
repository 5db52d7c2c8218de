CONSTANTS
    a1 = a1
    a2 = a2
    Bad = Bad
    Markup = Markup
    Cut = Cut
    Empty = Empty
    Authors <- MC_Authors
    MaxRows <- MC_MaxRows
    MarkupPasses <- MC_MarkupPasses
SPECIFICATION Spec
INVARIANT BindingsCurrent
