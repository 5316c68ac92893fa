SPECIFICATION Spec
CONSTANTS
    Categories = {c1, c2, c3, c4}
    Requests = {r1, r2}
    None = None
    MaxRacing = 2
CONSTRAINT Bounded
SYMMETRY Symmetry
INVARIANT TypeOK
PROPERTIES AloneKeepsTree DeactivationCovers
