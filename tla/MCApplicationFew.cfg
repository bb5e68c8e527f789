SPECIFICATION Spec
CONSTANTS
    db = db
    tm = tm
    usr = usr
    late = late
    Services <- MCServices
    Feature <- MCFeature
    Attached <- MCAttached
    Scenarios <- MCFew
    Whatever = Whatever
    NoService = NoService
    Fragile = {}
    Unstoppable = {db}
    Main = Main
    Stoppers = {stopper}
    Impatient = {}
    Attachers = {attacher}
CHECK_DEADLOCK FALSE
PROPERTIES
    StartReturns
