SPECIFICATION TrackerFairSpec
CONSTANTS
    NumUrls = 4
    Http = {2}
    NoHost = {3}
    ConnectTries = 2
    AnnounceTries = 2
    NumTx = 2
INVARIANTS
    AnswersAreOurs
    TrackersAreTried
PROPERTIES
    KeepsAsking
    UdpQueryEnds
CHECK_DEADLOCK FALSE
