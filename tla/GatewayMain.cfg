SPECIFICATION FairSpec
CONSTANTS
    Ids <- MCIds
    Providers <- MCProviders
    RemoteModels <- MCRemoteModels
    NoModel = NoModel
    Default = 2
    Attempts = 3
    Clients = {c1}
    AutoLoader = AutoLoader
    Nobody = Nobody
INVARIANTS
    TypeOK
    NoIdTwice
    EveryModelListed
PROPERTIES
    AutoLoadEnds
    SignalEnds
\* The process ends.
CHECK_DEADLOCK FALSE
