SPECIFICATION Spec
CONSTANTS
    web = web
    api = api
    db = db
    vol = vol
    nightly = nightly
    manual = manual
    Deployments <- TwoDeployments
    Parts <- TwoParts
    Database = db
    Jobs <- BothJobs
    Races = FALSE
    MaxWrites = 2
    MaxTroubles = 0
INVARIANT PointsAreWhole
CHECK_DEADLOCK FALSE
