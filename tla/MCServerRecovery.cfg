CONSTANTS
    grants = grants
    shop = shop
    wiki = wiki
    Schemas <- ThreeSchemas
    Grants = grants
    SchemasOf <- TwoVersions
    MaxWrites = 1
    MaxPoints = 3
    MaxRuns = 2
SPECIFICATION Spec
INVARIANTS TypeOK OriginalKept RetainedIsReported
PROPERTIES KeepsContract ReportIsTrue
CHECK_DEADLOCK FALSE
