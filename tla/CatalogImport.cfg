SPECIFICATION ImportSpec
CONSTANTS
    r1 = r1
    r2 = r2
    d1 = d1
    d2 = d2
    j1 = j1
    j2 = j2
    Drafts <- Listings
    Registry <- OfRegistry
    ProductOf <- Products4
    FieldOf <- Fields4
    NameOf <- Names4
    MaxSimilar = 1
    Overmerged <- OldMerge
    Importers <- TwoImports
    MaxApps = 3
    MaxEdits = 1
SYMMETRY ImportSymmetry
INVARIANTS
    ImportTypeOK
    OnePrimary
    DuplicatesAreNoticed
PROPERTIES
    ListingsStay
    MergeKeepsFacts
    DecisionsStay
