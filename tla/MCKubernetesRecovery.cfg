SPECIFICATION FairSpec
CONSTANTS
    web = web
    api = api
    db = db
    vol = vol
    nightly = nightly
    manual = manual
    Deployments <- TwoDeployments
    Parts <- TwoParts
    Database = db
    Jobs <- Scheduled
    Races = FALSE
    MaxWrites = 1
    MaxTroubles = 2
INVARIANTS TypeOK PointsAreWhole NeverServesPartial
PROPERTY QuiesceEnds
