SPECIFICATION Spec
CONSTANTS
    e1 = e1
    e2 = e2
    u1 = u1
    Enrichers <- OneEnricher
    Importers <- OneImporter
    Proposals <- FewProposals
    MaxEnrichments = 2
    MaxRefreshes = 1
    MaxForms = 1
    MaxReviews = 1
    MaxBatches = 1
PROPERTIES
    EditorTextIsSacred
CHECK_DEADLOCK FALSE
