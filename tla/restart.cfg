SPECIFICATION Spec
CONSTANTS
    Task = {a}
    MaxAdding = 2
    Nothing = Nothing
    a = a
INVARIANTS
    TypeOK
    Kept
    
    Restored
