SPECIFICATION Spec
CONSTANTS
    app = app
    sibling = sibling
    alias = alias
    url = url
    dash = dash
    underscore = underscore
    usb = usb
    lab = lab
    hand = hand
    j1 = j1
    j2 = j2
    Instances <- TheInstances
    Details <- TheDetails
    Token <- TheToken
    Devices <- TheDevices
    Slug <- TheSlug
    Requested <- TheRequest
    OperatorTags <- ByHand
    Jobs <- TwoJobs
    NoRow = NoRow
    Unknown = Unknown
    MaxJobs = 5
INVARIANTS TypeOK RecordsStand PlatformTagsKept
PROPERTY OnlyProvenDetached
SYMMETRY Exchanged
CHECK_DEADLOCK FALSE
