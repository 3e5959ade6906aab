------------------------------- MODULE RayJob -------------------------------
(***************************************************************************)
(* The RayJob reconciler: the Job State Machine of spec.md section 4.3,    *)
(* run against the API server's store.                                     *)
(*                                                                         *)
(* The reconciler reads the RayJob from its informer cache, which may lag  *)
(* the store, acts on the owned children (one RayCluster per attempt, one  *)
(* submitter K8s Job named after the RayJob) and then writes the status    *)
(* with optimistic concurrency: the write fails when the copy it read is   *)
(* no longer the stored one.  Around it run the user (suspend, delete),    *)
(* the garbage collector, the RayCluster controller (readiness), the Ray   *)
(* job inside the cluster and the submitter's pods.                        *)
(***************************************************************************)
EXTENDS Naturals, FiniteSets

CONSTANTS
    ClusterNames,            \* generated RayCluster names (name + random suffix)
    None,                    \* an unset name or reason
    BackoffLimit,            \* spec.backoffLimit
    SubmitterBackoffLimit,   \* spec.submitterConfig.backoffLimit
    ShutdownAfterJobFinishes,\* spec.shutdownAfterJobFinishes
    HasActiveDeadline,       \* spec.activeDeadlineSeconds is set
    MaxSuspendEdits          \* bound on the user's edits of spec.suspend

ASSUME ConstantsAssumption ==
    /\ IsFiniteSet(ClusterNames)
    /\ None \notin ClusterNames
    /\ None \notin {"AppFailed", "SubmissionFailed", "DeadlineExceeded"}
    /\ BackoffLimit \in Nat
    /\ SubmitterBackoffLimit \in Nat
    /\ ShutdownAfterJobFinishes \in BOOLEAN
    /\ HasActiveDeadline \in BOOLEAN
    /\ MaxSuspendEdits \in Nat

VARIABLES
    store,          \* the RayJob object held by the API server
    cache,          \* the reconciler's informer copy of it
    cluster,        \* cluster[c]: lifecycle of the RayCluster named c
    remote,         \* remote[c]: the Ray job submitted to cluster c
    submitter,      \* the submitter K8s Job (one name per RayJob)
    deadlinePassed, \* activeDeadlineSeconds have elapsed since status.startTime
    used,           \* cluster names generated so far
    suspendEdits    \* user edits of spec.suspend so far

vars == <<store, cache, cluster, remote, submitter, deadlinePassed, used,
          suspendEdits>>

DeployStatuses == {"New", "Initializing", "Running", "Complete", "Failed",
                   "Suspending", "Suspended", "Retrying"}
Terminal == {"Complete", "Failed"}
RemoteStatuses == {"PENDING", "RUNNING", "SUCCEEDED", "FAILED", "STOPPED"}
RemoteTerminal == {"SUCCEEDED", "FAILED", "STOPPED"}
JobStatuses == {"NEW"} \cup RemoteStatuses
Reasons == {None, "AppFailed", "SubmissionFailed", "DeadlineExceeded"}

Status == [deploy: DeployStatuses, jobStatus: JobStatuses, reason: Reasons,
           failed: Nat, succeeded: Nat, clusterName: ClusterNames \cup {None}]
RayJobObject == [exists: BOOLEAN, suspend: BOOLEAN, status: Status]
ClusterStates == {"absent", "provisioning", "ready", "terminating"}
SubmitterStates == {"absent", "active", "failed", "succeeded", "terminating"}
Submitter == [state: SubmitterStates, cluster: ClusterNames \cup {None},
              podFailures: 0..SubmitterBackoffLimit]

NoSubmitter == [state |-> "absent", cluster |-> None, podFailures |-> 0]

TypeOK ==
    /\ store \in RayJobObject
    /\ cache \in RayJobObject
    /\ cluster \in [ClusterNames -> ClusterStates]
    /\ remote \in [ClusterNames -> RemoteStatuses \cup {"NONE"}]
    /\ submitter \in Submitter
    /\ deadlinePassed \in BOOLEAN
    /\ used \subseteq ClusterNames
    /\ suspendEdits \in 0..MaxSuspendEdits

Init ==
    /\ store = [exists |-> TRUE, suspend |-> FALSE,
                status |-> [deploy |-> "New", jobStatus |-> "NEW",
                            reason |-> None, failed |-> 0, succeeded |-> 0,
                            clusterName |-> None]]
    /\ cache = store
    /\ cluster = [c \in ClusterNames |-> "absent"]
    /\ remote = [c \in ClusterNames |-> "NONE"]
    /\ submitter = NoSubmitter
    /\ deadlinePassed = FALSE
    /\ used = {}
    /\ suspendEdits = 0

-----------------------------------------------------------------------------
(***************************************************************************)
(* Status helpers of the reconciler.                                       *)
(***************************************************************************)

\* Only Initializing and Running may move to Suspending, and only when
\* spec.suspend is set.
updateStatusToSuspendingIfNeeded(s, suspend) ==
    suspend /\ s.deploy \in {"Initializing", "Running"}

\* Past activeDeadlineSeconds the job fails, whatever its backoffLimit.
checkActiveDeadlineAndUpdateStatusIfNeeded(s) ==
    [s EXCEPT !.deploy = "Failed", !.reason = "DeadlineExceeded"]

\* Mutants of the backoff accounting: retry while failed <= backoffLimit + 1,
\* retry while failed < backoffLimit, retry after the deadline too.
checkBackoffLimitRetryOneMore(s) ==
    LET f == IF s.deploy = "Failed" THEN s.failed + 1 ELSE s.failed
        g == IF s.deploy = "Complete" /\ s.jobStatus = "SUCCEEDED"
             THEN s.succeeded + 1 ELSE s.succeeded
        counted == [s EXCEPT !.failed = f, !.succeeded = g]
    IN  IF s.reason # "DeadlineExceeded" /\ s.deploy = "Failed"
           /\ f <= BackoffLimit + 1
        THEN [counted EXCEPT !.deploy = "Retrying", !.reason = None]
        ELSE counted
checkBackoffLimitRetryOneLess(s) ==
    LET f == IF s.deploy = "Failed" THEN s.failed + 1 ELSE s.failed
        g == IF s.deploy = "Complete" /\ s.jobStatus = "SUCCEEDED"
             THEN s.succeeded + 1 ELSE s.succeeded
        counted == [s EXCEPT !.failed = f, !.succeeded = g]
    IN  IF s.reason # "DeadlineExceeded" /\ s.deploy = "Failed"
           /\ f < BackoffLimit
        THEN [counted EXCEPT !.deploy = "Retrying", !.reason = None]
        ELSE counted
checkBackoffLimitRetryPastDeadline(s) ==
    LET f == IF s.deploy = "Failed" THEN s.failed + 1 ELSE s.failed
        g == IF s.deploy = "Complete" /\ s.jobStatus = "SUCCEEDED"
             THEN s.succeeded + 1 ELSE s.succeeded
        counted == [s EXCEPT !.failed = f, !.succeeded = g]
    IN  IF s.deploy = "Failed" /\ f < BackoffLimit + 1
        THEN [counted EXCEPT !.deploy = "Retrying", !.reason = None]
        ELSE counted

\* Count the attempt that just ended, and turn a failure into a retry while
\* attempts remain, unless the deadline caused it.
checkBackoffLimitAndUpdateStatusIfNeeded(s) ==
    LET f == IF s.deploy = "Failed" THEN s.failed + 1 ELSE s.failed
        g == IF s.deploy = "Complete" /\ s.jobStatus = "SUCCEEDED"
             THEN s.succeeded + 1 ELSE s.succeeded
        counted == [s EXCEPT !.failed = f, !.succeeded = g]
    IN  IF s.reason # "DeadlineExceeded" /\ s.deploy = "Failed"
           /\ f < BackoffLimit + 1
        THEN [counted EXCEPT !.deploy = "Retrying", !.reason = None]
        ELSE counted

\* updateRayJobStatus writes only when JobStatus or JobDeploymentStatus
\* changed, and the write succeeds only if the copy read is the stored one.
StatusChanged(new) ==
    new.deploy # cache.status.deploy \/ new.jobStatus # cache.status.jobStatus
Persisted(new) == StatusChanged(new) /\ cache = store

updateRayJobStatus(new) ==
    store' = IF Persisted(new) THEN [store EXCEPT !.status = new] ELSE store

\* Suspending and Retrying clear the run-scoped fields (cluster name, job
\* status, reason) and keep the cumulative counters.  The mutant rebuilds
\* the status from scratch.
ResetRunFieldsAndCounters(s, d) ==
    [s EXCEPT !.clusterName = None, !.jobStatus = "NEW", !.reason = None,
              !.deploy = d, !.failed = 0, !.succeeded = 0]
ResetRunFields(s, d) ==
    [s EXCEPT !.clusterName = None, !.jobStatus = "NEW", !.reason = None,
              !.deploy = d]

\* The end of every handler that does not return early.
Finish(new) == updateRayJobStatus(checkBackoffLimitAndUpdateStatusIfNeeded(new))

-----------------------------------------------------------------------------
(***************************************************************************)
(* The reconciler, one action per case of its switch on                    *)
(* JobDeploymentStatus.  Every one reads the cached RayJob.                *)
(***************************************************************************)

Reconciling == cache.exists
CS == cache.status
CN == cache.status.clusterName

\* New: initRayJobStatusIfNeed names the cluster and records startTime
\* before anything is created.
ReconcileNew ==
    /\ Reconciling
    /\ CS.deploy = "New"
    /\ \E c \in ClusterNames \ used :
         LET name == IF CN = None THEN c ELSE CN
             new == [CS EXCEPT !.deploy = "Initializing", !.jobStatus = "NEW",
                               !.clusterName = name]
             out == checkBackoffLimitAndUpdateStatusIfNeeded(new)
         IN  /\ Finish(new)
             /\ used' = IF Persisted(out) /\ CN = None THEN used \cup {c}
                        ELSE used
             /\ deadlinePassed' = IF Persisted(out) THEN FALSE
                                  ELSE deadlinePassed
    /\ UNCHANGED <<cache, cluster, remote, submitter, suspendEdits>>

\* Suspend and deadline checks that open the Initializing and Running cases.
ReconcileEarlyExit ==
    /\ Reconciling
    /\ CS.deploy \in {"Initializing", "Running"}
    /\ \/ updateStatusToSuspendingIfNeeded(CS, cache.suspend)
       \/ HasActiveDeadline /\ deadlinePassed
    /\ Finish(IF updateStatusToSuspendingIfNeeded(CS, cache.suspend)
              THEN [CS EXCEPT !.deploy = "Suspending"]
              ELSE checkActiveDeadlineAndUpdateStatusIfNeeded(CS))
    /\ UNCHANGED <<cache, cluster, remote, submitter, deadlinePassed, used,
                   suspendEdits>>

NoEarlyExit ==
    /\ ~updateStatusToSuspendingIfNeeded(CS, cache.suspend)
    /\ ~(HasActiveDeadline /\ deadlinePassed)

\* Initializing, cluster missing: getOrCreateRayClusterInstance creates it;
\* the new cluster is not ready, so the reconcile requeues.
ReconcileInitializingCreateCluster ==
    /\ Reconciling
    /\ CS.deploy = "Initializing"
    /\ NoEarlyExit
    /\ cluster[CN] = "absent"
    /\ cluster' = [cluster EXCEPT ![CN] = "provisioning"]
    /\ UNCHANGED <<store, cache, remote, submitter, deadlinePassed, used,
                   suspendEdits>>

\* Initializing, cluster ready: createK8sJobIfNeed creates the submitter or
\* adopts the one that exists, and the job moves to Running.
ReconcileInitializingSubmit ==
    /\ Reconciling
    /\ CS.deploy = "Initializing"
    /\ NoEarlyExit
    /\ cluster[CN] = "ready"
    /\ submitter' = IF submitter.state = "absent"
                    THEN [state |-> "active", cluster |-> CN, podFailures |-> 0]
                    ELSE submitter
    /\ Finish([CS EXCEPT !.deploy = "Running"])
    /\ UNCHANGED <<cache, cluster, remote, deadlinePassed, used, suspendEdits>>

\* The submitter K8s Job reached its backoff limit and no Ray job can be
\* found under the submission id.  The mutant ignores the Ray job.
checkK8sJobFailedIgnoringRayJob == submitter.state = "failed"
checkK8sJobFailed == submitter.state = "failed" /\ remote[CN] = "NONE"

\* Running: a submitter that reached its backoff limit with no Ray job to be
\* found fails the RayJob; otherwise the Ray job's status is copied.
ReconcileRunning ==
    /\ Reconciling
    /\ CS.deploy = "Running"
    /\ NoEarlyExit
    /\ submitter.state # "absent"
    /\ \/ /\ checkK8sJobFailed
          /\ Finish([CS EXCEPT !.deploy = "Failed", !.reason = "SubmissionFailed"])
       \/ /\ cluster[CN] = "ready"
          /\ remote[CN] # "NONE"
          /\ LET rs == remote[CN]
                 d == IF rs = "FAILED" THEN "Failed"
                      ELSE IF rs \in RemoteTerminal THEN "Complete"
                      ELSE "Running"
             IN  Finish([CS EXCEPT !.jobStatus = rs, !.deploy = d,
                                   !.reason = IF rs = "FAILED" THEN "AppFailed"
                                              ELSE None])
    /\ UNCHANGED <<cache, cluster, remote, submitter, deadlinePassed, used,
                   suspendEdits>>

\* deleteClusterResources: true once the cluster is not found; otherwise
\* delete it unless its deletion is already under way.
ClusterDeletedOnceIssued == CN = None \/ cluster[CN] \in {"absent", "terminating"}
ClusterDeleted == CN = None \/ cluster[CN] = "absent"
deleteClusterResourcesNeverIssued == cluster
deleteClusterResources ==
    IF ~ClusterDeleted /\ cluster[CN] # "terminating"
    THEN [cluster EXCEPT ![CN] = "terminating"]
    ELSE cluster

\* deleteSubmitterJob: the same for the submitter.
SubmitterDeletedOnceIssued == submitter.state \in {"absent", "terminating"}
SubmitterDeleted == submitter.state = "absent"
deleteSubmitterJobNeverIssued == submitter
deleteSubmitterJob ==
    IF submitter.state \in {"active", "failed", "succeeded"}
    THEN [submitter EXCEPT !.state = "terminating"]
    ELSE submitter

\* Suspending and Retrying: delete both children; once both are gone, clear
\* the run-scoped fields and move on (Suspended, or New for a new attempt).
\* A failed submitter delete leaves the cluster deletion issued.
ReconcileSuspendingOrRetrying ==
    /\ Reconciling
    /\ CS.deploy \in {"Suspending", "Retrying"}
    /\ cluster' = deleteClusterResources
    /\ \/ /\ submitter' = deleteSubmitterJob
          /\ IF ClusterDeleted /\ SubmitterDeleted
             THEN Finish(ResetRunFields(CS, IF CS.deploy = "Suspending"
                                            THEN "Suspended" ELSE "New"))
             ELSE UNCHANGED store
       \/ /\ ~SubmitterDeleted
          /\ UNCHANGED <<submitter, store>>
    /\ cluster' # cluster \/ submitter' # submitter \/ store' # store
    /\ UNCHANGED <<cache, remote, deadlinePassed, used, suspendEdits>>

\* Suspended: resume when spec.suspend is cleared.
ReconcileSuspended ==
    /\ Reconciling
    /\ CS.deploy = "Suspended"
    /\ ~cache.suspend
    /\ Finish([CS EXCEPT !.deploy = "New"])
    /\ UNCHANGED <<cache, cluster, remote, submitter, deadlinePassed, used,
                   suspendEdits>>

\* Complete and Failed: with shutdownAfterJobFinishes, delete the cluster;
\* the status is never written again.
ReconcileFinishedOnlyComplete ==
    /\ Reconciling
    /\ CS.deploy = "Complete"
    /\ ShutdownAfterJobFinishes
    /\ ~ClusterDeleted
    /\ cluster[CN] # "terminating"
    /\ cluster' = deleteClusterResources
    /\ UNCHANGED <<store, cache, remote, submitter, deadlinePassed, used,
                   suspendEdits>>
ReconcileFinished ==
    /\ Reconciling
    /\ CS.deploy \in Terminal
    /\ ShutdownAfterJobFinishes
    /\ ~ClusterDeleted
    /\ cluster[CN] # "terminating"
    /\ cluster' = deleteClusterResources
    /\ UNCHANGED <<store, cache, remote, submitter, deadlinePassed, used,
                   suspendEdits>>

-----------------------------------------------------------------------------
(***************************************************************************)
(* The environment.                                                        *)
(***************************************************************************)

\* The informer delivers the stored object.
CacheSync ==
    /\ cache # store
    /\ cache' = store
    /\ UNCHANGED <<store, cluster, remote, submitter, deadlinePassed, used,
                   suspendEdits>>

\* The user edits spec.suspend.
UserEditSuspend ==
    /\ store.exists
    /\ suspendEdits < MaxSuspendEdits
    /\ store' = [store EXCEPT !.suspend = ~store.suspend]
    /\ suspendEdits' = suspendEdits + 1
    /\ UNCHANGED <<cache, cluster, remote, submitter, deadlinePassed, used>>

\* The user deletes the RayJob.
UserDelete ==
    /\ store.exists
    /\ store' = [store EXCEPT !.exists = FALSE]
    /\ UNCHANGED <<cache, cluster, remote, submitter, deadlinePassed, used,
                   suspendEdits>>

\* activeDeadlineSeconds elapse for the current attempt.
DeadlineElapses ==
    /\ HasActiveDeadline
    /\ ~deadlinePassed
    /\ store.status.deploy \in {"Initializing", "Running"}
    /\ deadlinePassed' = TRUE
    /\ UNCHANGED <<store, cache, cluster, remote, submitter, used,
                   suspendEdits>>

\* The RayCluster controller brings a new cluster to the ready state.
ClusterBecomesReady(c) ==
    /\ cluster[c] = "provisioning"
    /\ cluster' = [cluster EXCEPT ![c] = "ready"]
    /\ UNCHANGED <<store, cache, remote, submitter, deadlinePassed, used,
                   suspendEdits>>

\* A mutant: the submitter Job carries no owner reference, so only the
\* cluster is collected.
GarbageCollectClustersOnly ==
    /\ ~store.exists
    /\ \E c \in ClusterNames :
          /\ cluster[c] \in {"provisioning", "ready"}
          /\ cluster' = [cluster EXCEPT ![c] = "terminating"]
          /\ UNCHANGED submitter
    /\ UNCHANGED <<store, cache, remote, deadlinePassed, used, suspendEdits>>

\* The garbage collector deletes the children of a deleted RayJob.
GarbageCollect ==
    /\ ~store.exists
    /\ \/ \E c \in ClusterNames :
            /\ cluster[c] \in {"provisioning", "ready"}
            /\ cluster' = [cluster EXCEPT ![c] = "terminating"]
            /\ UNCHANGED submitter
       \/ /\ submitter.state \in {"active", "failed", "succeeded"}
          /\ submitter' = [submitter EXCEPT !.state = "terminating"]
          /\ UNCHANGED cluster
    /\ UNCHANGED <<store, cache, remote, deadlinePassed, used, suspendEdits>>

\* A deletion completes; the Ray jobs of a cluster go with it.
ClusterRemoved(c) ==
    /\ cluster[c] = "terminating"
    /\ cluster' = [cluster EXCEPT ![c] = "absent"]
    /\ remote' = [remote EXCEPT ![c] = "NONE"]
    /\ UNCHANGED <<store, cache, submitter, deadlinePassed, used, suspendEdits>>

SubmitterRemoved ==
    /\ submitter.state = "terminating"
    /\ submitter' = NoSubmitter
    /\ UNCHANGED <<store, cache, cluster, remote, deadlinePassed, used,
                   suspendEdits>>

\* A submitter pod runs the default script: if `ray job status` finds the
\* submission id it tails the logs, else it submits under that id.
SubmitterSubmits ==
    /\ submitter.state = "active"
    /\ cluster[submitter.cluster] = "ready"
    /\ remote[submitter.cluster] = "NONE"
    /\ remote' = [remote EXCEPT ![submitter.cluster] = "PENDING"]
    /\ UNCHANGED <<store, cache, cluster, submitter, deadlinePassed, used,
                   suspendEdits>>

\* A mutant: the Job fails only after one pod failure more than its limit.
SubmitterPodFailsPastLimit ==
    /\ submitter.state = "active"
    /\ submitter' = IF submitter.podFailures = SubmitterBackoffLimit + 1
                    THEN [submitter EXCEPT !.state = "failed"]
                    ELSE [submitter EXCEPT !.podFailures = @ + 1]
    /\ UNCHANGED <<store, cache, cluster, remote, deadlinePassed, used,
                   suspendEdits>>

\* A submitter pod fails; past submitterConfig.backoffLimit the K8s Job fails.
SubmitterPodFails ==
    /\ submitter.state = "active"
    /\ submitter' = IF submitter.podFailures = SubmitterBackoffLimit
                    THEN [submitter EXCEPT !.state = "failed"]
                    ELSE [submitter EXCEPT !.podFailures = @ + 1]
    /\ UNCHANGED <<store, cache, cluster, remote, deadlinePassed, used,
                   suspendEdits>>

\* The script returns once the Ray job it follows has finished.
SubmitterSucceeds ==
    /\ submitter.state = "active"
    /\ remote[submitter.cluster] \in RemoteTerminal
    /\ submitter' = [submitter EXCEPT !.state = "succeeded"]
    /\ UNCHANGED <<store, cache, cluster, remote, deadlinePassed, used,
                   suspendEdits>>

\* The Ray job runs inside a ready cluster and ends.
RayJobProgresses(c) ==
    /\ cluster[c] = "ready"
    /\ \/ remote[c] = "PENDING" /\ remote' = [remote EXCEPT ![c] = "RUNNING"]
       \/ /\ remote[c] \in {"PENDING", "RUNNING"}
          /\ \E r \in RemoteTerminal : remote' = [remote EXCEPT ![c] = r]
    /\ UNCHANGED <<store, cache, cluster, submitter, deadlinePassed, used,
                   suspendEdits>>

-----------------------------------------------------------------------------

Reconcile ==
    \/ ReconcileNew
    \/ ReconcileEarlyExit
    \/ ReconcileInitializingCreateCluster
    \/ ReconcileInitializingSubmit
    \/ ReconcileRunning
    \/ ReconcileSuspendingOrRetrying
    \/ ReconcileSuspended
    \/ ReconcileFinished

Environment ==
    \/ CacheSync
    \/ UserEditSuspend
    \/ UserDelete
    \/ DeadlineElapses
    \/ GarbageCollect
    \/ SubmitterRemoved
    \/ SubmitterSubmits
    \/ SubmitterPodFails
    \/ SubmitterSucceeds
    \/ \E c \in ClusterNames :
          ClusterBecomesReady(c) \/ ClusterRemoved(c) \/ RayJobProgresses(c)

Next == Reconcile \/ Environment

\* The work queue requeues the key until the reconcile succeeds; informers,
\* the garbage collector and the RayCluster controller keep running.
Fairness ==
    /\ WF_vars(ReconcileNew)
    /\ WF_vars(ReconcileEarlyExit)
    /\ WF_vars(ReconcileInitializingCreateCluster)
    /\ WF_vars(ReconcileInitializingSubmit)
    /\ WF_vars(ReconcileRunning)
    /\ WF_vars(ReconcileSuspendingOrRetrying)
    /\ WF_vars(ReconcileSuspended)
    /\ WF_vars(ReconcileFinished)
    /\ WF_vars(CacheSync)
    /\ WF_vars(GarbageCollect)
    /\ WF_vars(SubmitterRemoved)
    /\ \A c \in ClusterNames : WF_vars(ClusterRemoved(c))
    /\ \A c \in ClusterNames : WF_vars(ClusterBecomesReady(c))

Spec == Init /\ [][Next]_vars /\ Fairness

-----------------------------------------------------------------------------
(***************************************************************************)
(* Properties.                                                             *)
(***************************************************************************)

\* spec.md section 3: failed + succeeded attempts never exceed
\* backoffLimit + 1, however reconciles, cache lag and retries interleave
\* (checkBackoffLimitAndUpdateStatusIfNeeded and the Retrying case).
AttemptsBounded ==
    store.status.failed + store.status.succeeded <= BackoffLimit + 1

\* The accounting behind AttemptsBounded, for every stored status: an
\* unfinished RayJob has had at most backoffLimit failed attempts and no
\* succeeded one, a finished one at most backoffLimit + 1 in all.  It holds
\* because only a write from an up-to-date cache of an unfinished RayJob
\* counts an attempt (updateRayJobStatus, checkBackoffLimit).
AttemptsInductive ==
    /\ store.status.deploy \in Terminal
       => store.status.failed + store.status.succeeded <= BackoffLimit + 1
    /\ store.status.deploy \notin Terminal
       => store.status.failed <= BackoffLimit /\ store.status.succeeded = 0

\* rayjob_retry_test: a RayJob that failed for its application or its
\* submission has used up every attempt, failed = backoffLimit + 1
\* (2 retries + 1 initial attempt = 3 failures).
BackoffRespected ==
    store.status.deploy = "Failed"
    /\ store.status.reason \in {"AppFailed", "SubmissionFailed"}
    => store.status.failed = BackoffLimit + 1

\* A RayJob never has two RayClusters at once: the cluster of the previous
\* attempt or of the suspended run is gone before a new one is named
\* (Suspending/Retrying cases, initRayJobStatusIfNeed).
AtMostOneCluster ==
    \A c1, c2 \in ClusterNames :
        cluster[c1] # "absent" /\ cluster[c2] # "absent" => c1 = c2

\* The submitter a Running RayJob follows was created for the RayJob's
\* current cluster: createK8sJobIfNeed never adopts the submitter of an
\* earlier attempt, whose K8s Job bears the same name.
SubmitterOfCurrentAttempt ==
    store.status.deploy = "Running" /\ submitter.state # "absent"
    => submitter.cluster = store.status.clusterName

\* rayjob_retry_test "Failing submitter K8s Job": a RayJob failed with
\* reason SubmissionFailed never saw its Ray job start (JobStatus NEW).
SubmissionFailedMeansNotStarted ==
    store.status.reason = "SubmissionFailed" => store.status.jobStatus = "NEW"

\* rayjob_retry_test "RayJob has passed ActiveDeadlineSeconds": once the
\* deadline has passed, an Initializing or Running RayJob leaves that state
\* only for Failed (or Suspending), never for a retry or Complete.
DeadlineFailsJob ==
    [][ /\ HasActiveDeadline /\ deadlinePassed
        /\ store.status.deploy \in {"Initializing", "Running"}
        /\ store'.status.deploy # store.status.deploy
        => store'.status.deploy \in {"Failed", "Suspending"} ]_store

\* spec.md section 8: suspending, resuming and retrying keep the cumulative
\* failed and succeeded counts; no step of the reconciler lowers them.
CountersMonotonic ==
    [][ /\ store'.status.failed >= store.status.failed
        /\ store'.status.succeeded >= store.status.succeeded ]_store

\* A suspended RayJob eventually has its children deleted and is Suspended.
SuspendCompletes ==
    store.exists /\ store.status.deploy = "Suspending"
    ~> store.status.deploy = "Suspended" \/ ~store.exists

\* A retry eventually cleans up the failed attempt and starts over at New.
RetryRestarts ==
    store.exists /\ store.status.deploy = "Retrying"
    ~> store.status.deploy = "New" \/ ~store.exists

\* With shutdownAfterJobFinishes, a finished RayJob eventually has no cluster.
ShutdownReleasesCluster ==
    ShutdownAfterJobFinishes /\ store.status.deploy \in Terminal
    ~> \A c \in ClusterNames : cluster[c] = "absent"

\* rayjob_retry_test "Deleting a RayJob": once the RayJob is deleted, its
\* RayCluster and its submitter K8s Job are eventually both gone, whatever
\* the reconciler did on its stale cache in between.
DeletionCascades ==
    ~store.exists
    ~> /\ \A c \in ClusterNames : cluster[c] = "absent"
       /\ submitter.state = "absent"

=============================================================================
