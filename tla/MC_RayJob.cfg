\* Backoff limit 1 (two attempts), submitter backoff limit 1, a deadline,
\* shutdown after the job finishes, one suspend and one resume.
CONSTANTS
    c1 = c1
    c2 = c2
    c3 = c3
    None = None
    ClusterNames <- MC_ClusterNames
    BackoffLimit = 1
    SubmitterBackoffLimit = 1
    ShutdownAfterJobFinishes = TRUE
    HasActiveDeadline = TRUE
    MaxSuspendEdits = 2
SPECIFICATION Spec
SYMMETRY MC_Symmetry
\* A finished RayJob whose children are gone, or a deleted one whose children
\* are collected, has nothing left to reconcile: the controller really stops.
CHECK_DEADLOCK FALSE
INVARIANTS
    TypeOK
    AttemptsBounded
    AttemptsInductive
    BackoffRespected
    AtMostOneCluster
    SubmitterOfCurrentAttempt
    SubmissionFailedMeansNotStarted
PROPERTIES
    DeadlineFailsJob
    CountersMonotonic
