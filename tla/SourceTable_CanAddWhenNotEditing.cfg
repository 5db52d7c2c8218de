CONSTANTS
    s1 = s1
    s2 = s2
    Bad = Bad
    Markup = Markup
    Cut = Cut
    Empty = Empty
    Sources <- MC_Sources
    MaxRows <- MC_MaxRows
SPECIFICATION Spec
INVARIANT CanAddWhenNotEditing
