SPECIFICATION FairSpec
CONSTANTS
    Requests = {r1}
    Leases = {l1, l2}
    Nobody = nobody
INVARIANTS OperationOwnsState AdmittedMeansInactive RestoreLeavesMarker
PROPERTIES 
    PendingReleaseClears
