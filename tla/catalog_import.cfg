\* Three imports one after the other, or two that overlap, of workbooks whose
\* slugs collide.
CONSTANTS
    BaseSlug <- Slugs
    Books <- Workbooks
    BatchSize = 2
    Imports = {i1, i2, i3}
    MaxOverlapRows = 6
    MaxFaults = 1
SPECIFICATION CatalogSpec
SYMMETRY Symmetry
INVARIANTS
    NeverMergedAcrossBatches
    
    CompletedMeansPresent
PROPERTIES
    RerunChangesNothing
CHECK_DEADLOCK FALSE
