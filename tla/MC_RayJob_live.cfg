\* Liveness of the RayJob state machine, without symmetry (unsound for
\* liveness), same bounds as MC_RayJob.cfg.
CONSTANTS
    c1 = c1
    c2 = c2
    c3 = c3
    None = None
    ClusterNames <- MC_ClusterNames
    BackoffLimit = 1
    SubmitterBackoffLimit = 1
    ShutdownAfterJobFinishes = TRUE
    HasActiveDeadline = TRUE
    MaxSuspendEdits = 2
SPECIFICATION Spec
\* A finished RayJob whose children are gone, or a deleted one whose children
\* are collected, has nothing left to reconcile: the controller really stops.
CHECK_DEADLOCK FALSE
PROPERTIES
    SuspendCompletes
    RetryRestarts
    ShutdownReleasesCluster
    DeletionCascades
