CONSTANTS
    app = app
    template = template
    rundeck = rundeck
    Guests <- AllClasses
    Templates <- AppTemplate
    Runner = rundeck
    Bounds <- TwoWays
SPECIFICATION FairSpec
INVARIANTS TypeOK DoneMeansGone
PROPERTIES TeardownOrder CompletedIsLeftAlone NoOverlappingTasks RetriesFinish StampsKept NeverTouchesForeign
CHECK_DEADLOCK FALSE
