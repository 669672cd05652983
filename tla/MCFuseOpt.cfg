INIT OptInit
NEXT OptNext
CONSTANTS
    Options <- MCOptions
    Owners <- MCOwners
    Subtype <- MCSubtype
    CommandLines <- MCLines
CHECK_DEADLOCK FALSE
INVARIANT SeparatorRemoved
