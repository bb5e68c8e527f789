SPECIFICATION Spec
CONSTANTS
    db = db
    tm = tm
    usr = usr
    late = late
    Services <- MCServices
    Feature <- MCFeature
    Attached <- MCAttached
    Scenarios <- MCStartAndStop
    Whatever = Whatever
    NoService = NoService
    Fragile = {db, usr}
    Unstoppable = {db, tm}
    Main = Main
    Stoppers = {stopper, other}
    Impatient = {}
    Attachers = {attacher}
CHECK_DEADLOCK FALSE
INVARIANTS
    InitializeInvariant
    NothingRunsAfterStop
PROPERTIES
    DependenciesFirst
    StartupEnds
    StopEndsStart
