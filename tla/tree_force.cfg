SPECIFICATION Spec
CONSTANTS
    Categories = {c1, c2}
    Requests = {r1}
    None = None
    MaxRacing = 2
PROPERTY OnlySubtreeChanges
