SPECIFICATION Spec
CONSTANTS
    Names = {"client", "order", "invoice"}
    Base = {"place", "product", "discount", "brand", "category", "term", "image"}
    Files = {"manifest", "a"}
    MaxVersion = 3
    Shipped <- Packages
    MaxRuns = 3
    None = None
CHECK_DEADLOCK FALSE
INVARIANTS TypeOK TruthfulManifests OldFilesKept
PROPERTIES Implements
