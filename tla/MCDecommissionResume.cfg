CONSTANTS
    app = app
    template = template
    rundeck = rundeck
    Guests <- AllClasses
    Templates <- AppTemplate
    Runner = rundeck
    Bounds <- OneInterrupt
SPECIFICATION FairSpec
PROPERTY ResumesAfterInterruption
CHECK_DEADLOCK FALSE
