---------------------------- MODULE RayJobProofs ----------------------------
(***************************************************************************)
(* Proofs about the RayJob reconciler, for every value of the constants    *)
(* that ConstantsAssumption allows.                                        *)
(*                                                                         *)
(* TypeOK is not inductive by itself: ReconcileRunning reads               *)
(* remote[clusterName], which is a Ray job status only when the cached     *)
(* RayJob names a cluster.  The strengthening TypeInv adds that an         *)
(* Initializing or Running RayJob, stored or cached, always names one.     *)
(***************************************************************************)
EXTENDS RayJob, TLAPS

\* The facts of ConstantsAssumption the proofs use; finiteness of the
\* cluster names is needed only by TLC.
LEMMA ConstantFacts ==
    /\ None \notin ClusterNames
    /\ BackoffLimit \in Nat
    /\ SubmitterBackoffLimit \in Nat
    /\ MaxSuspendEdits \in Nat
BY ConstantsAssumption

USE ConstantFacts

\* initRayJobStatusIfNeed names the cluster before the RayJob leaves New,
\* and only Suspending/Retrying clear the name, on the way to Suspended/New.
NamedIfActive(s) ==
    s.deploy \in {"Initializing", "Running"} => s.clusterName \in ClusterNames

TypeInv ==
    /\ TypeOK
    /\ NamedIfActive(store.status)
    /\ NamedIfActive(cache.status)

-----------------------------------------------------------------------------
(***************************************************************************)
(* The statuses the handlers build are statuses.                           *)
(***************************************************************************)

\* Counting an attempt changes only the counters.
LEMMA CountersKeepType ==
    ASSUME NEW s \in Status, NEW v \in Nat, NEW w \in Nat
    PROVE  LET t == [s EXCEPT !.failed = v, !.succeeded = w]
           IN  t \in Status /\ t.deploy = s.deploy
               /\ t.clusterName = s.clusterName
BY Zenon DEF Status

\* A handler sets the deployment status, the job status and the reason.
LEMMA SetStatusKeepsType ==
    ASSUME NEW s \in Status, NEW d \in DeployStatuses, NEW j \in JobStatuses,
           NEW r \in Reasons
    PROVE  LET t == [s EXCEPT !.deploy = d, !.jobStatus = j, !.reason = r]
           IN  t \in Status /\ t.deploy = d /\ t.clusterName = s.clusterName
BY Zenon DEF Status

\* The other shapes of status the handlers build.
LEMMA DeployKeepsType ==
    ASSUME NEW s \in Status, NEW d \in DeployStatuses
    PROVE  LET t == [s EXCEPT !.deploy = d]
           IN  t \in Status /\ t.deploy = d /\ t.clusterName = s.clusterName
BY Zenon DEF Status

LEMMA DeployReasonKeepsType ==
    ASSUME NEW s \in Status, NEW d \in DeployStatuses, NEW r \in Reasons
    PROVE  LET t == [s EXCEPT !.deploy = d, !.reason = r]
           IN  t \in Status /\ t.deploy = d /\ t.clusterName = s.clusterName
BY Zenon DEF Status

LEMMA NameKeepsType ==
    ASSUME NEW s \in Status, NEW d \in DeployStatuses, NEW j \in JobStatuses,
           NEW n \in ClusterNames
    PROVE  LET t == [s EXCEPT !.deploy = d, !.jobStatus = j, !.clusterName = n]
           IN  t \in Status /\ t.clusterName = n
BY Zenon DEF Status

LEMMA CopyKeepsType ==
    ASSUME NEW s \in Status, NEW d \in DeployStatuses, NEW j \in JobStatuses,
           NEW r \in Reasons
    PROVE  LET t == [s EXCEPT !.jobStatus = j, !.deploy = d, !.reason = r]
           IN  t \in Status /\ t.deploy = d /\ t.clusterName = s.clusterName
BY Zenon DEF Status

LEMMA ResetKeepsType ==
    ASSUME NEW s \in Status, NEW d \in {"Suspended", "New"}
    PROVE  ResetRunFields(s, d) \in Status /\ NamedIfActive(ResetRunFields(s, d))
BY Zenon DEF ResetRunFields, Status, DeployStatuses, JobStatuses, Reasons,
             NamedIfActive

\* checkBackoffLimitAndUpdateStatusIfNeeded turns a status into a status,
\* and moves nothing into Initializing or Running nor renames the cluster.
LEMMA BackoffKeepsType ==
    ASSUME NEW s \in Status
    PROVE  /\ checkBackoffLimitAndUpdateStatusIfNeeded(s) \in Status
           /\ NamedIfActive(s)
              => NamedIfActive(checkBackoffLimitAndUpdateStatusIfNeeded(s))
<1>1. PICK v \in Nat :
        v = IF s.deploy = "Failed" THEN s.failed + 1 ELSE s.failed
  BY DEF Status
<1>2. PICK w \in Nat :
        w = IF s.deploy = "Complete" /\ s.jobStatus = "SUCCEEDED"
            THEN s.succeeded + 1 ELSE s.succeeded
  BY DEF Status
<1>. DEFINE counted == [s EXCEPT !.failed = v, !.succeeded = w]
            retried == [counted EXCEPT !.deploy = "Retrying", !.reason = None]
<1>3. counted \in Status /\ counted.deploy = s.deploy
      /\ counted.clusterName = s.clusterName
  BY Zenon, CountersKeepType DEF counted
<1>4. retried \in Status /\ retried.deploy = "Retrying"
  BY Zenon, <1>3 DEF retried, Status, DeployStatuses, Reasons
<1>5. checkBackoffLimitAndUpdateStatusIfNeeded(s) \in {counted, retried}
  BY <1>1, <1>2 DEF checkBackoffLimitAndUpdateStatusIfNeeded, counted,
                    retried
<1>. QED
  BY Zenon, <1>3, <1>4, <1>5 DEF NamedIfActive

\* The status write at the end of every handler keeps TypeInv's part about
\* the store whenever the status it is given satisfies it.
LEMMA FinishKeepsType ==
    ASSUME NEW s \in RayJobObject, NamedIfActive(s.status),
           NEW new \in Status, NamedIfActive(new),
           store = s, Finish(new)
    PROVE  store' \in RayJobObject /\ NamedIfActive(store'.status)
<1>1. PICK out \in Status :
        /\ out = checkBackoffLimitAndUpdateStatusIfNeeded(new)
        /\ NamedIfActive(out)
  BY BackoffKeepsType
<1>2. [s EXCEPT !.status = out] \in RayJobObject
  BY Zenon, <1>1 DEF RayJobObject
<1>3. [s EXCEPT !.status = out].status = out
  BY Zenon DEF RayJobObject
<1>4. store' \in {s, [s EXCEPT !.status = out]}
  BY <1>1 DEF Finish, updateRayJobStatus
<1>. QED
  BY Zenon, <1>1, <1>2, <1>3, <1>4

-----------------------------------------------------------------------------
(***************************************************************************)
(* TypeInv is inductive.                                                   *)
(***************************************************************************)

\* TypeInv holds after a step of the reconciler once each variable it
\* writes is shown to be in its type; the reconciler never writes the cache.
LEMMA AssembleTypeInv ==
    ASSUME TypeInv,
           store' \in RayJobObject, NamedIfActive(store'.status),
           cache' = cache,
           cluster' \in [ClusterNames -> ClusterStates],
           remote' \in [ClusterNames -> RemoteStatuses \cup {"NONE"}],
           submitter' \in Submitter,
           deadlinePassed' \in BOOLEAN,
           used' \subseteq ClusterNames,
           suspendEdits' \in 0..MaxSuspendEdits
    PROVE  TypeInv'
BY Zenon DEF TypeInv, TypeOK

\* TypeInv holds initially.
LEMMA InitTypeInv == Init => TypeInv
<1>1. Init => store.status \in Status
  BY DEF Init, Status, DeployStatuses, JobStatuses, Reasons
<1>2. Init => store \in RayJobObject /\ cache \in RayJobObject
  BY <1>1 DEF Init, RayJobObject
<1>3. Init => submitter \in Submitter
  BY DEF Init, NoSubmitter, Submitter, SubmitterStates
<1>4. Init => /\ cluster \in [ClusterNames -> ClusterStates]
             /\ remote \in [ClusterNames -> RemoteStatuses \cup {"NONE"}]
  BY DEF Init, ClusterStates
<1>5. Init => deadlinePassed \in BOOLEAN /\ used \subseteq ClusterNames
  BY DEF Init
<1>6. Init => suspendEdits \in 0..MaxSuspendEdits
  BY DEF Init
<1>7. Init => NamedIfActive(store.status) /\ NamedIfActive(cache.status)
  BY DEF Init, NamedIfActive
<1>. QED
  BY <1>2, <1>3, <1>4, <1>5, <1>6, <1>7 DEF TypeInv, TypeOK

\* Every handler of the reconciler keeps TypeInv.
LEMMA ReconcileTypeInv == TypeInv /\ Reconcile => TypeInv'
<1> SUFFICES ASSUME TypeInv, Reconcile PROVE TypeInv'
  OBVIOUS
<1>0. /\ TypeOK /\ NamedIfActive(store.status) /\ NamedIfActive(CS)
      /\ store \in RayJobObject
      /\ CN \in ClusterNames \cup {None}
  BY Zenon DEF TypeInv, TypeOK, RayJobObject, Status, CS, CN
<1>9. CS \in Status
  BY Zenon DEF TypeInv, TypeOK, RayJobObject, CS
<1>1. CASE ReconcileNew
  <2>1. PICK c \in ClusterNames \ used :
          LET name == IF CN = None THEN c ELSE CN
              new == [CS EXCEPT !.deploy = "Initializing", !.jobStatus = "NEW",
                                !.clusterName = name]
              out == checkBackoffLimitAndUpdateStatusIfNeeded(new)
          IN  /\ Finish(new)
              /\ used' = IF Persisted(out) /\ CN = None THEN used \cup {c}
                         ELSE used
              /\ deadlinePassed' = IF Persisted(out) THEN FALSE
                                   ELSE deadlinePassed
    BY <1>1 DEF ReconcileNew
  <2>2. PICK n \in ClusterNames : n = IF CN = None THEN c ELSE CN
    BY <1>0
  <2>. DEFINE new == [CS EXCEPT !.deploy = "Initializing", !.jobStatus = "NEW",
                                !.clusterName = n]
  <2>3. new \in Status /\ NamedIfActive(new)
    <3>1. /\ "Initializing" \in DeployStatuses /\ "NEW" \in JobStatuses
          /\ n \in ClusterNames
      BY <2>2 DEF DeployStatuses, JobStatuses
    <3>2. new \in Status
      BY Zenon, <1>9, <3>1, NameKeepsType DEF new
    <3>3. new.clusterName = n
      BY <1>9 DEF new, Status
    <3>. QED
      BY <3>2, <3>3 DEF NamedIfActive
  <2>4. store' \in RayJobObject /\ NamedIfActive(store'.status)
    BY Zenon, <1>0, <2>1, <2>2, <2>3, FinishKeepsType DEF new
  <2>5. used' \subseteq ClusterNames /\ deadlinePassed' \in BOOLEAN
    BY <1>0, <2>1 DEF TypeOK
  <2>. QED
    BY <1>0, <1>1, <2>4, <2>5, AssembleTypeInv DEF ReconcileNew, TypeOK
<1>2. CASE ReconcileEarlyExit
  <2>1. /\ [CS EXCEPT !.deploy = "Suspending"] \in Status
        /\ NamedIfActive([CS EXCEPT !.deploy = "Suspending"])
    <3>1. "Suspending" \in DeployStatuses
      BY DEF DeployStatuses
    <3>2. /\ [CS EXCEPT !.deploy = "Suspending"] \in Status
          /\ [CS EXCEPT !.deploy = "Suspending"].deploy = "Suspending"
      BY Zenon, <1>9, <3>1, DeployKeepsType
    <3>. QED
      BY <3>2 DEF NamedIfActive
  <2>2. /\ checkActiveDeadlineAndUpdateStatusIfNeeded(CS) \in Status
        /\ NamedIfActive(checkActiveDeadlineAndUpdateStatusIfNeeded(CS))
    <3>1. "Failed" \in DeployStatuses /\ "DeadlineExceeded" \in Reasons
      BY DEF DeployStatuses, Reasons
    <3>2. /\ checkActiveDeadlineAndUpdateStatusIfNeeded(CS) \in Status
          /\ checkActiveDeadlineAndUpdateStatusIfNeeded(CS).deploy = "Failed"
      BY Zenon, <1>9, <3>1, DeployReasonKeepsType
         DEF checkActiveDeadlineAndUpdateStatusIfNeeded
    <3>. QED
      BY <3>2 DEF NamedIfActive
  <2>3. PICK new \in Status :
          /\ NamedIfActive(new)
          /\ Finish(new)
    BY Zenon, <1>2, <2>1, <2>2 DEF ReconcileEarlyExit
  <2>4. store' \in RayJobObject /\ NamedIfActive(store'.status)
    BY Zenon, <1>0, <2>3, FinishKeepsType
  <2>. QED
    BY <1>0, <1>2, <2>4, AssembleTypeInv DEF ReconcileEarlyExit, TypeOK
<1>3. CASE ReconcileInitializingCreateCluster
  <2>1. cluster' \in [ClusterNames -> ClusterStates]
    BY <1>0, <1>3 DEF ReconcileInitializingCreateCluster, TypeOK,
                      ClusterStates
  <2>. QED
    BY <1>0, <1>3, <2>1, AssembleTypeInv
       DEF ReconcileInitializingCreateCluster, TypeOK, TypeInv
<1>4. CASE ReconcileInitializingSubmit
  <2>1. CN \in ClusterNames
    BY <1>0, <1>4 DEF ReconcileInitializingSubmit, NamedIfActive, CN, CS
  <2>2. /\ [CS EXCEPT !.deploy = "Running"] \in Status
        /\ NamedIfActive([CS EXCEPT !.deploy = "Running"])
    <3>1. "Running" \in DeployStatuses
      BY DEF DeployStatuses
    <3>2. /\ [CS EXCEPT !.deploy = "Running"] \in Status
          /\ [CS EXCEPT !.deploy = "Running"].clusterName = CN
      BY Zenon, <1>9, <3>1, DeployKeepsType DEF CN, CS
    <3>. QED
      BY <2>1, <3>2 DEF NamedIfActive
  <2>3. store' \in RayJobObject /\ NamedIfActive(store'.status)
    BY Zenon, <1>0, <1>4, <2>2, FinishKeepsType
       DEF ReconcileInitializingSubmit
  <2>4. submitter' \in Submitter
    BY <1>0, <1>4, <2>1 DEF ReconcileInitializingSubmit, TypeOK, Submitter,
                            SubmitterStates
  <2>. QED
    BY <1>0, <1>4, <2>3, <2>4, AssembleTypeInv
       DEF ReconcileInitializingSubmit, TypeOK
<1>5. CASE ReconcileRunning
  <2>1. CN \in ClusterNames
    BY <1>0, <1>5 DEF ReconcileRunning, NamedIfActive, CN, CS
  <2>2. /\ [CS EXCEPT !.deploy = "Failed", !.reason = "SubmissionFailed"]
             \in Status
        /\ NamedIfActive([CS EXCEPT !.deploy = "Failed",
                                    !.reason = "SubmissionFailed"])
    <3>1. "Failed" \in DeployStatuses /\ "SubmissionFailed" \in Reasons
      BY DEF DeployStatuses, Reasons
    <3>2. /\ [CS EXCEPT !.deploy = "Failed", !.reason = "SubmissionFailed"]
               \in Status
          /\ [CS EXCEPT !.deploy = "Failed",
                        !.reason = "SubmissionFailed"].deploy = "Failed"
      BY Zenon, <1>9, <3>1, DeployReasonKeepsType
    <3>. QED
      BY <3>2 DEF NamedIfActive
  <2>3. ASSUME remote[CN] # "NONE"
        PROVE  LET rs == remote[CN]
                   d == IF rs = "FAILED" THEN "Failed"
                        ELSE IF rs \in RemoteTerminal THEN "Complete"
                        ELSE "Running"
                   t == [CS EXCEPT !.jobStatus = rs, !.deploy = d,
                                   !.reason = IF rs = "FAILED" THEN "AppFailed"
                                              ELSE None]
               IN  t \in Status /\ NamedIfActive(t)
    <3>1. PICK j \in JobStatuses : j = remote[CN]
      BY <1>0, <2>1, <2>3 DEF TypeOK, JobStatuses
    <3>2. PICK d \in {"Failed", "Complete", "Running"} :
            d = IF j = "FAILED" THEN "Failed"
                ELSE IF j \in RemoteTerminal THEN "Complete" ELSE "Running"
      OBVIOUS
    <3>3. PICK r \in Reasons : r = IF j = "FAILED" THEN "AppFailed" ELSE None
      BY DEF Reasons
    <3>4. d \in DeployStatuses
      BY <3>2 DEF DeployStatuses
    <3>5. j \in JobStatuses /\ d \in DeployStatuses /\ r \in Reasons
      BY <3>1, <3>3, <3>4
    <3>6. [CS EXCEPT !.jobStatus = j, !.deploy = d, !.reason = r] \in Status
      BY Zenon, <1>9, <3>5, CopyKeepsType
    <3>7. [CS EXCEPT !.jobStatus = j, !.deploy = d,
                     !.reason = r].clusterName = CN
      BY <1>9 DEF Status, CN, CS
    <3>. QED
      BY <2>1, <3>1, <3>2, <3>3, <3>6, <3>7 DEF NamedIfActive
  <2>4. store' \in RayJobObject /\ NamedIfActive(store'.status)
    <3>1. PICK new \in Status : NamedIfActive(new) /\ Finish(new)
      BY Zenon, <1>5, <2>2, <2>3 DEF ReconcileRunning
    <3>. QED
      BY Zenon, <1>0, <3>1, FinishKeepsType
  <2>. QED
    BY <1>0, <1>5, <2>4, AssembleTypeInv DEF ReconcileRunning, TypeOK
<1>6. CASE ReconcileSuspendingOrRetrying
  <2>1. PICK d \in {"Suspended", "New"} :
          d = IF CS.deploy = "Suspending" THEN "Suspended" ELSE "New"
    OBVIOUS
  <2>2. ResetRunFields(CS, d) \in Status /\ NamedIfActive(ResetRunFields(CS, d))
    BY Zenon, <1>9, ResetKeepsType
  <2>3. store' \in RayJobObject /\ NamedIfActive(store'.status)
    <3>1. CASE store' = store
      BY <1>0, <3>1
    <3>2. CASE Finish(ResetRunFields(CS, d))
      BY Zenon, <1>0, <2>2, <3>2, FinishKeepsType
    <3>. QED
      BY <1>6, <2>1, <3>1, <3>2 DEF ReconcileSuspendingOrRetrying
  <2>4. cluster' \in [ClusterNames -> ClusterStates]
    BY <1>0, <1>6 DEF ReconcileSuspendingOrRetrying, deleteClusterResources,
                      TypeOK, ClusterStates
  <2>5. submitter' \in Submitter
    <3>1. deleteSubmitterJob \in Submitter
      BY Zenon, <1>0 DEF deleteSubmitterJob, TypeOK, Submitter,
                         SubmitterStates
    <3>. QED
      BY <1>0, <1>6, <3>1 DEF ReconcileSuspendingOrRetrying, TypeOK
  <2>. QED
    BY <1>0, <1>6, <2>3, <2>4, <2>5, AssembleTypeInv
       DEF ReconcileSuspendingOrRetrying, TypeOK
<1>7. CASE ReconcileSuspended
  <2>1. /\ [CS EXCEPT !.deploy = "New"] \in Status
        /\ NamedIfActive([CS EXCEPT !.deploy = "New"])
    <3>1. "New" \in DeployStatuses
      BY DEF DeployStatuses
    <3>2. /\ [CS EXCEPT !.deploy = "New"] \in Status
          /\ [CS EXCEPT !.deploy = "New"].deploy = "New"
      BY Zenon, <1>9, <3>1, DeployKeepsType
    <3>. QED
      BY <3>2 DEF NamedIfActive
  <2>2. store' \in RayJobObject /\ NamedIfActive(store'.status)
    BY Zenon, <1>0, <1>7, <2>1, FinishKeepsType DEF ReconcileSuspended
  <2>. QED
    BY <1>0, <1>7, <2>2, AssembleTypeInv DEF ReconcileSuspended, TypeOK
<1>8. CASE ReconcileFinished
  <2>1. cluster' \in [ClusterNames -> ClusterStates]
    BY <1>0, <1>8 DEF ReconcileFinished, deleteClusterResources, TypeOK,
                      ClusterStates
  <2>. QED
    BY <1>0, <1>8, <2>1, AssembleTypeInv DEF ReconcileFinished, TypeOK,
                                             TypeInv
<1>. QED
  BY <1>1, <1>2, <1>3, <1>4, <1>5, <1>6, <1>7, <1>8 DEF Reconcile

\* TypeInv holds after any step once each variable is shown to be in its
\* type and the store and the cache keep their clusters named.
LEMMA AssembleAll ==
    ASSUME store' \in RayJobObject, NamedIfActive(store'.status),
           cache' \in RayJobObject, NamedIfActive(cache'.status),
           cluster' \in [ClusterNames -> ClusterStates],
           remote' \in [ClusterNames -> RemoteStatuses \cup {"NONE"}],
           submitter' \in Submitter,
           deadlinePassed' \in BOOLEAN,
           used' \subseteq ClusterNames,
           suspendEdits' \in 0..MaxSuspendEdits
    PROVE  TypeInv'
BY Zenon DEF TypeInv, TypeOK

\* The user's edits touch spec.suspend and the deletion mark only.
LEMMA EditKeepsType ==
    ASSUME NEW o \in RayJobObject, NEW b \in BOOLEAN
    PROVE  /\ [o EXCEPT !.suspend = b] \in RayJobObject
           /\ [o EXCEPT !.suspend = b].status = o.status
           /\ [o EXCEPT !.exists = b] \in RayJobObject
           /\ [o EXCEPT !.exists = b].status = o.status
BY Zenon DEF RayJobObject

\* Every step of the environment keeps TypeInv.
LEMMA EnvironmentTypeInv == TypeInv /\ Environment => TypeInv'
<1> SUFFICES ASSUME TypeInv, Environment PROVE TypeInv'
  OBVIOUS
<1>0. /\ store \in RayJobObject /\ cache \in RayJobObject
      /\ NamedIfActive(store.status) /\ NamedIfActive(cache.status)
      /\ cluster \in [ClusterNames -> ClusterStates]
      /\ remote \in [ClusterNames -> RemoteStatuses \cup {"NONE"}]
      /\ submitter \in Submitter
      /\ deadlinePassed \in BOOLEAN
      /\ used \subseteq ClusterNames
      /\ suspendEdits \in 0..MaxSuspendEdits
  BY DEF TypeInv, TypeOK
<1>1. CASE CacheSync
  BY <1>0, <1>1, AssembleAll DEF CacheSync
<1>2. CASE UserEditSuspend
  <2>1. store' \in RayJobObject /\ store'.status = store.status
    BY <1>0, <1>2, EditKeepsType DEF UserEditSuspend, RayJobObject
  <2>. QED
    BY <1>0, <1>2, <2>1, AssembleAll DEF UserEditSuspend
<1>3. CASE UserDelete
  <2>1. store' \in RayJobObject /\ store'.status = store.status
    BY <1>0, <1>3, EditKeepsType DEF UserDelete
  <2>. QED
    BY <1>0, <1>3, <2>1, AssembleAll DEF UserDelete
<1>4. CASE DeadlineElapses
  BY <1>0, <1>4, AssembleAll DEF DeadlineElapses
<1>5. CASE GarbageCollect
  <2>1. cluster' \in [ClusterNames -> ClusterStates]
    BY <1>0, <1>5 DEF GarbageCollect, ClusterStates
  <2>2. submitter' \in Submitter
    BY Zenon, <1>0, <1>5 DEF GarbageCollect, Submitter, SubmitterStates
  <2>. QED
    BY <1>0, <1>5, <2>1, <2>2, AssembleAll DEF GarbageCollect
<1>6. CASE SubmitterRemoved
  <2>1. submitter' \in Submitter
    BY <1>6 DEF SubmitterRemoved, NoSubmitter, Submitter, SubmitterStates
  <2>. QED
    BY <1>0, <1>6, <2>1, AssembleAll DEF SubmitterRemoved
<1>7. CASE SubmitterSubmits
  <2>1. remote' \in [ClusterNames -> RemoteStatuses \cup {"NONE"}]
    BY <1>0, <1>7 DEF SubmitterSubmits, RemoteStatuses
  <2>. QED
    BY <1>0, <1>7, <2>1, AssembleAll DEF SubmitterSubmits
<1>8. CASE SubmitterPodFails
  <2>1. submitter.podFailures \in 0..SubmitterBackoffLimit
    BY <1>0 DEF Submitter
  <2>2. submitter' \in Submitter
    <3>1. CASE submitter.podFailures = SubmitterBackoffLimit
      <4>1. submitter' = [submitter EXCEPT !.state = "failed"]
        BY <1>8, <3>1 DEF SubmitterPodFails
      <4>. QED
        BY Zenon, <1>0, <4>1 DEF Submitter, SubmitterStates
    <3>2. CASE submitter.podFailures # SubmitterBackoffLimit
      <4>1. submitter' = [submitter EXCEPT !.podFailures = @ + 1]
        BY <1>8, <3>2 DEF SubmitterPodFails
      <4>2. submitter.podFailures + 1 \in 0..SubmitterBackoffLimit
        BY <2>1, <3>2
      <4>. QED
        BY Zenon, <1>0, <4>1, <4>2 DEF Submitter
    <3>. QED
      BY <3>1, <3>2
  <2>. QED
    BY <1>0, <1>8, <2>2, AssembleAll DEF SubmitterPodFails
<1>9. CASE SubmitterSucceeds
  <2>1. submitter' \in Submitter
    BY Zenon, <1>0, <1>9 DEF SubmitterSucceeds, Submitter, SubmitterStates
  <2>. QED
    BY <1>0, <1>9, <2>1, AssembleAll DEF SubmitterSucceeds
<1>10. ASSUME NEW c \in ClusterNames, ClusterBecomesReady(c) PROVE TypeInv'
  <2>1. cluster' \in [ClusterNames -> ClusterStates]
    BY <1>0, <1>10 DEF ClusterBecomesReady, ClusterStates
  <2>. QED
    BY <1>0, <1>10, <2>1, AssembleAll DEF ClusterBecomesReady
<1>11. ASSUME NEW c \in ClusterNames, ClusterRemoved(c) PROVE TypeInv'
  <2>1. /\ cluster' \in [ClusterNames -> ClusterStates]
        /\ remote' \in [ClusterNames -> RemoteStatuses \cup {"NONE"}]
    BY <1>0, <1>11 DEF ClusterRemoved, ClusterStates
  <2>. QED
    BY <1>0, <1>11, <2>1, AssembleAll DEF ClusterRemoved
<1>12. ASSUME NEW c \in ClusterNames, RayJobProgresses(c) PROVE TypeInv'
  <2>1. remote' \in [ClusterNames -> RemoteStatuses \cup {"NONE"}]
    BY <1>0, <1>12 DEF RayJobProgresses, RemoteStatuses, RemoteTerminal
  <2>. QED
    BY <1>0, <1>12, <2>1, AssembleAll DEF RayJobProgresses
<1>. QED
  BY <1>1, <1>2, <1>3, <1>4, <1>5, <1>6, <1>7, <1>8, <1>9, <1>10, <1>11,
     <1>12 DEF Environment

\* Every variable of the reconciler, of its cache and of the children it
\* owns stays in its type in every reachable state, for all cluster names
\* and limits: in particular ReconcileRunning never copies the status of a
\* Ray job from an unnamed cluster.
THEOREM TypeCorrect == Spec => []TypeOK
<1>1. Init => TypeInv
  BY InitTypeInv
<1>2. TypeInv /\ [Next]_vars => TypeInv'
  <2>1. TypeInv /\ UNCHANGED vars => TypeInv'
    BY DEF TypeInv, TypeOK, vars, NamedIfActive
  <2>. QED
    BY <2>1, ReconcileTypeInv, EnvironmentTypeInv DEF Next
<1>3. TypeInv => TypeOK
  BY DEF TypeInv
<1>. QED
  BY <1>1, <1>2, <1>3, PTL DEF Spec

-----------------------------------------------------------------------------
(***************************************************************************)
(* Retry accounting.  AttemptsInductive, read as a predicate of a status,  *)
(* is kept by every step: a status write either fails or starts from the  *)
(* stored status of an unfinished RayJob, and                              *)
(* checkBackoffLimitAndUpdateStatusIfNeeded counts at most one attempt.    *)
(***************************************************************************)

Accounted(s) ==
    /\ s.deploy \in Terminal => s.failed + s.succeeded <= BackoffLimit + 1
    /\ s.deploy \notin Terminal => s.failed <= BackoffLimit /\ s.succeeded = 0

\* Counting the attempt that ends with a status built from an unfinished
\* one keeps the accounting, whichever way the attempt ended.
LEMMA BackoffKeepsAccount ==
    ASSUME NEW s \in Status, s.failed <= BackoffLimit, s.succeeded = 0
    PROVE  Accounted(checkBackoffLimitAndUpdateStatusIfNeeded(s))
<1>1. PICK v \in Nat :
        v = IF s.deploy = "Failed" THEN s.failed + 1 ELSE s.failed
  BY DEF Status
<1>2. PICK w \in Nat :
        w = IF s.deploy = "Complete" /\ s.jobStatus = "SUCCEEDED"
            THEN s.succeeded + 1 ELSE s.succeeded
  BY DEF Status
<1>. DEFINE counted == [s EXCEPT !.failed = v, !.succeeded = w]
            retried == [counted EXCEPT !.deploy = "Retrying", !.reason = None]
<1>3. /\ counted.deploy = s.deploy /\ counted.failed = v
      /\ counted.succeeded = w
  BY Zenon DEF counted, Status
<1>4. /\ retried.deploy = "Retrying" /\ retried.failed = v
      /\ retried.succeeded = w
  BY Zenon, <1>3 DEF retried, counted, Status
<1>5. CASE s.reason # "DeadlineExceeded" /\ s.deploy = "Failed"
           /\ v < BackoffLimit + 1
  <2>1. checkBackoffLimitAndUpdateStatusIfNeeded(s) = retried
    BY <1>1, <1>2, <1>5 DEF checkBackoffLimitAndUpdateStatusIfNeeded,
                            counted, retried
  <2>. QED
    BY <1>1, <1>2, <1>4, <1>5, <2>1 DEF Accounted, Terminal
<1>6. CASE ~(s.reason # "DeadlineExceeded" /\ s.deploy = "Failed"
             /\ v < BackoffLimit + 1)
  <2>1. checkBackoffLimitAndUpdateStatusIfNeeded(s) = counted
    BY <1>1, <1>2, <1>6 DEF checkBackoffLimitAndUpdateStatusIfNeeded,
                            counted, retried
  <2>2. s.failed \in Nat /\ s.succeeded \in Nat
    BY DEF Status
  <2>3. CASE s.deploy = "Failed"
    BY <1>1, <1>2, <1>3, <2>1, <2>2, <2>3 DEF Accounted, Terminal
  <2>4. CASE s.deploy = "Complete"
    BY <1>1, <1>2, <1>3, <2>1, <2>2, <2>4 DEF Accounted, Terminal
  <2>5. CASE s.deploy \notin {"Failed", "Complete"}
    BY <1>1, <1>2, <1>3, <2>1, <2>2, <2>5 DEF Accounted, Terminal
  <2>. QED
    BY <2>3, <2>4, <2>5
<1>. QED
  BY <1>5, <1>6
\* A status write keeps the accounting when the status it is given carries
\* the counters of an unfinished stored RayJob whenever the cache is up to
\* date; with a stale cache the write fails (the resourceVersion check).
LEMMA FinishKeepsAccount ==
    ASSUME store \in RayJobObject, Accounted(store.status),
           NEW new \in Status, Finish(new),
           cache = store => new.failed <= BackoffLimit /\ new.succeeded = 0
    PROVE  Accounted(store'.status)
<1>. DEFINE out == checkBackoffLimitAndUpdateStatusIfNeeded(new)
<1>1. CASE Persisted(out)
  <2>1. new.failed <= BackoffLimit /\ new.succeeded = 0
    BY <1>1 DEF Persisted
  <2>2. Accounted(out)
    BY <2>1, BackoffKeepsAccount
  <2>3. store' = [store EXCEPT !.status = out]
    BY <1>1 DEF Finish, updateRayJobStatus
  <2>4. store'.status = out
    BY Zenon, <2>3 DEF RayJobObject
  <2>. QED
    BY <2>2, <2>4
<1>2. CASE ~Persisted(out)
  BY <1>2 DEF Finish, updateRayJobStatus
<1>. QED
  BY <1>1, <1>2

\* The cached RayJob, when it is the stored one and unfinished, carries
\* counters within the accounting.
LEMMA CachedCounters ==
    ASSUME Accounted(store.status), CS.deploy \notin Terminal
    PROVE  cache = store => CS.failed <= BackoffLimit /\ CS.succeeded = 0
BY DEF Accounted, CS

\* A handler that writes back the cached status of an unfinished RayJob with
\* its counters untouched keeps the accounting.
LEMMA WriteKeepsAccount ==
    ASSUME TypeInv, Accounted(store.status), CS.deploy \notin Terminal,
           NEW new \in Status, new.failed = CS.failed,
           new.succeeded = CS.succeeded, Finish(new)
    PROVE  Accounted(store'.status)
<1>1. store \in RayJobObject
  BY DEF TypeInv, TypeOK
<1>2. cache = store => new.failed <= BackoffLimit /\ new.succeeded = 0
  BY CachedCounters
<1>. QED
  BY <1>1, <1>2, FinishKeepsAccount

\* A handler of an unfinished RayJob ends with Finish on a status whose
\* counters are the cached ones.
CachedWrite ==
    \E new \in Status : /\ new.failed = CS.failed
                        /\ new.succeeded = CS.succeeded
                        /\ Finish(new)
                        /\ CS.deploy \notin Terminal

\* Every handler of the reconciler either leaves the stored RayJob alone or
\* writes back the cached status of an unfinished RayJob, its counters
\* untouched, through checkBackoffLimitAndUpdateStatusIfNeeded.
LEMMA ReconcileWrites ==
    TypeInv /\ Reconcile => store' = store \/ CachedWrite
<1> SUFFICES ASSUME TypeInv, Reconcile
             PROVE  store' = store \/ CachedWrite
  OBVIOUS
<1>0. CS \in Status
  BY Zenon DEF TypeInv, TypeOK, RayJobObject, CS
<1>T. "New" \notin Terminal /\ "Initializing" \notin Terminal
      /\ "Running" \notin Terminal /\ "Suspending" \notin Terminal
      /\ "Retrying" \notin Terminal /\ "Suspended" \notin Terminal
  BY DEF Terminal
<1>1. CASE ReconcileNew
  <2>1. PICK c \in ClusterNames \ used :
          LET name == IF CN = None THEN c ELSE CN
              new == [CS EXCEPT !.deploy = "Initializing", !.jobStatus = "NEW",
                                !.clusterName = name]
              out == checkBackoffLimitAndUpdateStatusIfNeeded(new)
          IN  /\ Finish(new)
              /\ used' = IF Persisted(out) /\ CN = None THEN used \cup {c}
                         ELSE used
              /\ deadlinePassed' = IF Persisted(out) THEN FALSE
                                   ELSE deadlinePassed
    BY Zenon, <1>1 DEF ReconcileNew
  <2>2. PICK n \in ClusterNames : n = IF CN = None THEN c ELSE CN
    BY <2>1 DEF TypeInv, TypeOK, RayJobObject, Status, CN, CS
  <2>. DEFINE new == [CS EXCEPT !.deploy = "Initializing", !.jobStatus = "NEW",
                                !.clusterName = n]
  <2>3. new \in Status
    <3>1. /\ "Initializing" \in DeployStatuses /\ "NEW" \in JobStatuses
      BY DEF DeployStatuses, JobStatuses
    <3>. QED
      BY Zenon, <1>0, <3>1, NameKeepsType DEF new
  <2>4. new.failed = CS.failed /\ new.succeeded = CS.succeeded
    BY <1>0 DEF new, Status
  <2>5. Finish(new)
    BY Zenon, <2>1, <2>2 DEF new
  <2>6. CS.deploy \notin Terminal
    BY <1>1, <1>T DEF ReconcileNew
  <2>. QED
    BY Zenon, <2>3, <2>4, <2>5, <2>6 DEF CachedWrite
<1>2. CASE ReconcileEarlyExit
  <2>. DEFINE susp == [CS EXCEPT !.deploy = "Suspending"]
              dead == checkActiveDeadlineAndUpdateStatusIfNeeded(CS)
  <2>1. susp \in Status /\ dead \in Status
    <3>1. /\ "Suspending" \in DeployStatuses /\ "Failed" \in DeployStatuses
          /\ "DeadlineExceeded" \in Reasons
      BY DEF DeployStatuses, Reasons
    <3>. QED
      BY Zenon, <1>0, <3>1, DeployKeepsType, DeployReasonKeepsType
         DEF susp, dead, checkActiveDeadlineAndUpdateStatusIfNeeded
  <2>2. /\ susp.failed = CS.failed /\ susp.succeeded = CS.succeeded
        /\ dead.failed = CS.failed /\ dead.succeeded = CS.succeeded
    BY <1>0 DEF susp, dead, checkActiveDeadlineAndUpdateStatusIfNeeded,
                Status
  <2>3. PICK new \in Status : /\ new.failed = CS.failed
                              /\ new.succeeded = CS.succeeded
                              /\ Finish(new)
    BY Zenon, <1>2, <2>1, <2>2 DEF ReconcileEarlyExit, susp, dead
  <2>4. CS.deploy \notin Terminal
    BY <1>2, <1>T DEF ReconcileEarlyExit
  <2>. QED
    BY Zenon, <2>3, <2>4 DEF CachedWrite
<1>3. CASE ReconcileInitializingCreateCluster
  BY <1>3 DEF ReconcileInitializingCreateCluster
<1>4. CASE ReconcileInitializingSubmit
  <2>. DEFINE new == [CS EXCEPT !.deploy = "Running"]
  <2>1. new \in Status
    <3>1. "Running" \in DeployStatuses
      BY DEF DeployStatuses
    <3>. QED
      BY Zenon, <1>0, <3>1, DeployKeepsType DEF new
  <2>2. new.failed = CS.failed /\ new.succeeded = CS.succeeded
    BY <1>0 DEF new, Status
  <2>3. Finish(new)
    BY <1>4 DEF ReconcileInitializingSubmit, new
  <2>4. CS.deploy \notin Terminal
    BY <1>4, <1>T DEF ReconcileInitializingSubmit
  <2>. QED
    BY Zenon, <2>1, <2>2, <2>3, <2>4 DEF CachedWrite
<1>5. CASE ReconcileRunning
  <2>1. CN \in ClusterNames
    BY <1>5 DEF ReconcileRunning, TypeInv, NamedIfActive, CN, CS
  <2>2. CS.deploy \notin Terminal
    BY <1>5, <1>T DEF ReconcileRunning
  <2>3. CASE Finish([CS EXCEPT !.deploy = "Failed", !.reason = "SubmissionFailed"])
    <3>. DEFINE new == [CS EXCEPT !.deploy = "Failed", !.reason = "SubmissionFailed"]
    <3>1. "Failed" \in DeployStatuses /\ "SubmissionFailed" \in Reasons
      BY DEF DeployStatuses, Reasons
    <3>2. new \in Status
      BY Zenon, <1>0, <3>1, DeployReasonKeepsType DEF new
    <3>3. new.failed = CS.failed /\ new.succeeded = CS.succeeded
      BY <1>0 DEF new, Status
    <3>. QED
      BY Zenon, <2>2, <2>3, <3>2, <3>3 DEF new, CachedWrite
  <2>4. CASE /\ remote[CN] # "NONE"
             /\ LET rs == remote[CN]
                    d == IF rs = "FAILED" THEN "Failed"
                         ELSE IF rs \in RemoteTerminal THEN "Complete"
                         ELSE "Running"
                IN  Finish([CS EXCEPT !.jobStatus = rs, !.deploy = d,
                                      !.reason = IF rs = "FAILED" THEN "AppFailed"
                                                 ELSE None])
    <3>1. PICK j \in JobStatuses : j = remote[CN]
      BY <2>1, <2>4 DEF TypeInv, TypeOK, JobStatuses
    <3>2. PICK d \in {"Failed", "Complete", "Running"} :
            d = IF j = "FAILED" THEN "Failed"
                ELSE IF j \in RemoteTerminal THEN "Complete" ELSE "Running"
      OBVIOUS
    <3>3. PICK r \in Reasons : r = IF j = "FAILED" THEN "AppFailed" ELSE None
      BY DEF Reasons
    <3>4. d \in DeployStatuses
      BY <3>2 DEF DeployStatuses
    <3>. DEFINE new == [CS EXCEPT !.jobStatus = j, !.deploy = d, !.reason = r]
    <3>5. new \in Status
      BY Zenon, <1>0, <3>1, <3>3, <3>4, CopyKeepsType DEF new
    <3>6. new.failed = CS.failed /\ new.succeeded = CS.succeeded
      BY <1>0 DEF new, Status
    <3>7. Finish(new)
      BY Zenon, <2>4, <3>1, <3>2, <3>3 DEF new
    <3>. QED
      BY Zenon, <2>2, <3>5, <3>6, <3>7 DEF CachedWrite
  <2>. QED
    BY Zenon, <1>5, <2>3, <2>4 DEF ReconcileRunning
<1>6. CASE ReconcileSuspendingOrRetrying
  <2>1. PICK d \in {"Suspended", "New"} :
          d = IF CS.deploy = "Suspending" THEN "Suspended" ELSE "New"
    OBVIOUS
  <2>. DEFINE new == ResetRunFields(CS, d)
  <2>2. new \in Status
    BY Zenon, <1>0, ResetKeepsType DEF new
  <2>3. new.failed = CS.failed /\ new.succeeded = CS.succeeded
    BY <1>0 DEF new, ResetRunFields, Status
  <2>4. CS.deploy \notin Terminal
    BY <1>6, <1>T DEF ReconcileSuspendingOrRetrying
  <2>5. CASE Finish(new)
    BY Zenon, <2>2, <2>3, <2>4, <2>5 DEF CachedWrite
  <2>6. CASE store' = store
    BY <2>6
  <2>. QED
    BY Zenon, <1>6, <2>1, <2>5, <2>6 DEF ReconcileSuspendingOrRetrying, new
<1>7. CASE ReconcileSuspended
  <2>. DEFINE new == [CS EXCEPT !.deploy = "New"]
  <2>1. new \in Status
    <3>1. "New" \in DeployStatuses
      BY DEF DeployStatuses
    <3>. QED
      BY Zenon, <1>0, <3>1, DeployKeepsType DEF new
  <2>2. new.failed = CS.failed /\ new.succeeded = CS.succeeded
    BY <1>0 DEF new, Status
  <2>3. Finish(new)
    BY <1>7 DEF ReconcileSuspended, new
  <2>4. CS.deploy \notin Terminal
    BY <1>7, <1>T DEF ReconcileSuspended
  <2>. QED
    BY Zenon, <2>1, <2>2, <2>3, <2>4 DEF CachedWrite
<1>8. CASE ReconcileFinished
  BY <1>8 DEF ReconcileFinished
<1>. QED
  BY <1>1, <1>2, <1>3, <1>4, <1>5, <1>6, <1>7, <1>8 DEF Reconcile

\* Every handler of the reconciler keeps the accounting.
LEMMA ReconcileKeepsAccount ==
    TypeInv /\ Accounted(store.status) /\ Reconcile => Accounted(store'.status)
<1> SUFFICES ASSUME TypeInv, Accounted(store.status), Reconcile
             PROVE  Accounted(store'.status)
  OBVIOUS
<1>1. CASE store' = store
  BY <1>1
<1>2. CASE CachedWrite
  <2>1. PICK new \in Status : /\ new.failed = CS.failed
                              /\ new.succeeded = CS.succeeded
                              /\ Finish(new)
                              /\ CS.deploy \notin Terminal
    BY <1>2 DEF CachedWrite
  <2>. QED
    BY <2>1, WriteKeepsAccount
<1>. QED
  BY <1>1, <1>2, ReconcileWrites

\* The environment never writes the stored status: the informer only reads
\* it and the user's edits touch spec.suspend and the deletion mark.
LEMMA EnvironmentKeepsStatus ==
    TypeInv /\ Environment => store'.status = store.status
<1> SUFFICES ASSUME TypeInv, Environment
             PROVE  store'.status = store.status
  OBVIOUS
<1>0. store \in RayJobObject
  BY DEF TypeInv, TypeOK
<1>1. CASE UserEditSuspend
  <2>1. store'.status = store.status
    BY Zenon, <1>0, <1>1, EditKeepsType DEF UserEditSuspend, RayJobObject
  <2>. QED
    BY <2>1
<1>2. CASE UserDelete
  <2>1. store'.status = store.status
    BY Zenon, <1>0, <1>2, EditKeepsType DEF UserDelete
  <2>. QED
    BY <2>1
<1>3. CASE ~UserEditSuspend /\ ~UserDelete
  <2>1. store' = store
    BY <1>3 DEF Environment, CacheSync, DeadlineElapses, GarbageCollect,
                SubmitterRemoved, SubmitterSubmits, SubmitterPodFails,
                SubmitterSucceeds, ClusterBecomesReady, ClusterRemoved,
                RayJobProgresses
  <2>. QED
    BY <2>1
<1>. QED
  BY <1>1, <1>2, <1>3

\* Every step of the system keeps the typing and the accounting.
LEMMA AccountStep ==
    TypeInv /\ Accounted(store.status) /\ [Next]_vars
    => TypeInv' /\ Accounted(store'.status)
<1> SUFFICES ASSUME TypeInv, Accounted(store.status), [Next]_vars
             PROVE  TypeInv' /\ Accounted(store'.status)
  OBVIOUS
<1>1. TypeInv'
  <2>1. CASE UNCHANGED vars
    BY <2>1 DEF TypeInv, TypeOK, vars, NamedIfActive
  <2>. QED
    BY <2>1, ReconcileTypeInv, EnvironmentTypeInv DEF Next
<1>2. Accounted(store'.status)
  <2>1. CASE UNCHANGED vars
    BY <2>1 DEF vars
  <2>2. CASE Environment
    BY <2>2, EnvironmentKeepsStatus
  <2>. QED
    BY <2>1, <2>2, ReconcileKeepsAccount DEF Next
<1>. QED
  BY <1>1, <1>2

\* The retry accounting of checkBackoffLimitAndUpdateStatusIfNeeded and the
\* Retrying case, for every backoffLimit and every set of cluster names: an
\* unfinished RayJob has had at most backoffLimit failed attempts and no
\* succeeded one, a finished one at most backoffLimit + 1 attempts, even
\* when a reconcile runs on a stale informer cache.  AttemptsInductive is
\* inductive together with the typing.
THEOREM AttemptsInductiveHolds == Spec => []AttemptsInductive
<1>. DEFINE IInv == TypeInv /\ Accounted(store.status)
<1>1. Init => IInv
  <2>1. Init => TypeInv
    BY InitTypeInv
  <2>2. Init => Accounted(store.status)
    BY DEF Init, Accounted, Terminal
  <2>. QED
    BY <2>1, <2>2
<1>2. IInv /\ [Next]_vars => IInv'
  BY AccountStep
<1>3. IInv => AttemptsInductive
  BY DEF Accounted, AttemptsInductive
<1>. QED
  BY <1>1, <1>2, <1>3, PTL DEF Spec

\* The reconciler never counts an attempt it has already counted, and never
\* retries past backoffLimit, so the stored failed + succeeded stays within
\* backoffLimit + 1 (spec.md section 3), even when a reconcile runs on a
\* stale informer cache.
THEOREM AttemptsBoundedHolds == Spec => []AttemptsBounded
<1>. DEFINE IInv == TypeInv /\ Accounted(store.status)
<1>1. Init => IInv
  <2>1. Init => TypeInv
    BY InitTypeInv
  <2>2. Init => Accounted(store.status)
    BY DEF Init, Accounted, Terminal
  <2>. QED
    BY <2>1, <2>2
<1>2. IInv /\ [Next]_vars => IInv'
  BY AccountStep
<1>3. IInv => AttemptsBounded
  <2>. SUFFICES ASSUME IInv PROVE AttemptsBounded
    OBVIOUS
  <2>1. store.status.failed \in Nat /\ store.status.succeeded \in Nat
    BY Zenon DEF TypeInv, TypeOK, RayJobObject, Status
  <2>. QED
    BY <2>1 DEF Accounted, AttemptsBounded
<1>. QED
  BY <1>1, <1>2, <1>3, PTL DEF Spec

-----------------------------------------------------------------------------
(***************************************************************************)
(* Counters never go down.  A status write that persists was built from   *)
(* the stored status (the cache is up to date), keeps its counters, and    *)
(* checkBackoffLimitAndUpdateStatusIfNeeded only adds to them.             *)
(***************************************************************************)

\* checkBackoffLimitAndUpdateStatusIfNeeded never lowers a counter.
LEMMA BackoffCountsUp ==
    ASSUME NEW s \in Status
    PROVE  LET out == checkBackoffLimitAndUpdateStatusIfNeeded(s)
           IN  out.failed >= s.failed /\ out.succeeded >= s.succeeded
<1>1. PICK v \in Nat :
        v = IF s.deploy = "Failed" THEN s.failed + 1 ELSE s.failed
  BY DEF Status
<1>2. PICK w \in Nat :
        w = IF s.deploy = "Complete" /\ s.jobStatus = "SUCCEEDED"
            THEN s.succeeded + 1 ELSE s.succeeded
  BY DEF Status
<1>. DEFINE counted == [s EXCEPT !.failed = v, !.succeeded = w]
            retried == [counted EXCEPT !.deploy = "Retrying", !.reason = None]
<1>3. counted.failed = v /\ counted.succeeded = w
  BY Zenon DEF counted, Status
<1>4. retried.failed = v /\ retried.succeeded = w
  BY Zenon, <1>3 DEF retried, counted, Status
<1>5. checkBackoffLimitAndUpdateStatusIfNeeded(s) \in {counted, retried}
  BY <1>1, <1>2 DEF checkBackoffLimitAndUpdateStatusIfNeeded, counted,
                    retried
<1>6. v >= s.failed /\ w >= s.succeeded
  BY <1>1, <1>2 DEF Status
<1>7. \A o \in {counted, retried} : o.failed >= s.failed /\ o.succeeded >= s.succeeded
  <2> SUFFICES ASSUME NEW o \in {counted, retried}
               PROVE  o.failed >= s.failed /\ o.succeeded >= s.succeeded
    BY Zenon
  <2>1. o.failed = v /\ o.succeeded = w
    BY <1>3, <1>4, Zenon
  <2>. QED
    BY <1>6, <2>1
<1>. QED
  BY <1>5, <1>7, Zenon

\* A status write from the cached counters keeps or raises the stored
\* counters: it persists only from an up-to-date cache.
LEMMA WriteCountsUp ==
    ASSUME TypeInv, CachedWrite
    PROVE  /\ store'.status.failed >= store.status.failed
           /\ store'.status.succeeded >= store.status.succeeded
<1>1. PICK new \in Status : /\ new.failed = CS.failed
                            /\ new.succeeded = CS.succeeded
                            /\ Finish(new)
  BY DEF CachedWrite
<1>. DEFINE out == checkBackoffLimitAndUpdateStatusIfNeeded(new)
<1>2. store \in RayJobObject
  BY DEF TypeInv, TypeOK
<1>3. store.status.failed \in Nat /\ store.status.succeeded \in Nat
  BY <1>2 DEF RayJobObject, Status
<1>4. CASE Persisted(out)
  <2>1. new.failed = store.status.failed
        /\ new.succeeded = store.status.succeeded
    BY <1>1, <1>4 DEF Persisted, CS
  <2>2. out.failed >= new.failed /\ out.succeeded >= new.succeeded
    BY BackoffCountsUp
  <2>3. store'.status = out
    <3>1. store' = [store EXCEPT !.status = out]
      BY <1>1, <1>4 DEF Finish, updateRayJobStatus
    <3>. QED
      BY Zenon, <1>2, <3>1 DEF RayJobObject
  <2>. QED
    BY <2>1, <2>2, <2>3
<1>5. CASE ~Persisted(out)
  <2>1. store' = store
    BY <1>1, <1>5 DEF Finish, updateRayJobStatus
  <2>. QED
    BY <1>3, <2>1
<1>. QED
  BY <1>4, <1>5

\* No step lowers the stored counters.
LEMMA CountersStep ==
    TypeInv /\ [Next]_vars
    => /\ store'.status.failed >= store.status.failed
       /\ store'.status.succeeded >= store.status.succeeded
<1> SUFFICES ASSUME TypeInv, [Next]_vars
             PROVE  /\ store'.status.failed >= store.status.failed
                    /\ store'.status.succeeded >= store.status.succeeded
  OBVIOUS
<1>1. store.status.failed \in Nat /\ store.status.succeeded \in Nat
  BY Zenon DEF TypeInv, TypeOK, RayJobObject, Status
<1>2. CASE CachedWrite
  BY <1>2, WriteCountsUp
<1>3. CASE store'.status = store.status
  BY <1>1, <1>3
<1>. QED
  <2>1. CASE Reconcile
    BY <1>2, <1>3, <2>1, ReconcileWrites
  <2>2. CASE Environment
    BY <1>3, <2>2, EnvironmentKeepsStatus
  <2>3. CASE UNCHANGED vars
    BY <1>3, <2>3 DEF vars
  <2>. QED
    BY <2>1, <2>2, <2>3 DEF Next

\* spec.md section 8: suspending, resuming and retrying keep the cumulative
\* failed and succeeded counts, and no reconcile (on a stale cache or not)
\* or event of the environment lowers them, for every backoffLimit.
THEOREM CountersMonotonicHolds == Spec => CountersMonotonic
<1>. DEFINE IInv == TypeInv /\ Accounted(store.status)
<1>1. Init => IInv
  <2>1. Init => TypeInv
    BY InitTypeInv
  <2>2. Init => Accounted(store.status)
    BY DEF Init, Accounted, Terminal
  <2>. QED
    BY <2>1, <2>2
<1>2. IInv /\ [Next]_vars => IInv'
  BY AccountStep
<1>3. IInv /\ [Next]_vars
      => [ /\ store'.status.failed >= store.status.failed
           /\ store'.status.succeeded >= store.status.succeeded ]_store
  BY CountersStep
<1>. QED
  BY <1>1, <1>2, <1>3, PTL DEF Spec, CountersMonotonic

-----------------------------------------------------------------------------
(***************************************************************************)
(* A RayJob that failed for its application or its submission has used    *)
(* every attempt.  checkBackoffLimitAndUpdateStatusIfNeeded turns such a   *)
(* failure into a retry while failed + 1 < backoffLimit + 1, and the       *)
(* accounting says an unfinished RayJob has failed at most backoffLimit    *)
(* times, so a failure that is kept is the (backoffLimit + 1)-th.          *)
(***************************************************************************)

Exhausted(s) ==
    s.deploy = "Failed" /\ s.reason \in {"AppFailed", "SubmissionFailed"}
    => s.failed = BackoffLimit + 1

\* Counting the attempt of a RayJob that has failed at most backoffLimit
\* times leaves a kept application or submission failure exhausted.
LEMMA BackoffExhausts ==
    ASSUME NEW s \in Status, s.failed <= BackoffLimit
    PROVE  Exhausted(checkBackoffLimitAndUpdateStatusIfNeeded(s))
<1>1. PICK v \in Nat :
        v = IF s.deploy = "Failed" THEN s.failed + 1 ELSE s.failed
  BY DEF Status
<1>2. PICK w \in Nat :
        w = IF s.deploy = "Complete" /\ s.jobStatus = "SUCCEEDED"
            THEN s.succeeded + 1 ELSE s.succeeded
  BY DEF Status
<1>. DEFINE counted == [s EXCEPT !.failed = v, !.succeeded = w]
            retried == [counted EXCEPT !.deploy = "Retrying", !.reason = None]
<1>3. /\ counted.deploy = s.deploy /\ counted.reason = s.reason
      /\ counted.failed = v
  BY Zenon DEF counted, Status
<1>4. retried.deploy = "Retrying"
  BY Zenon DEF retried, counted, Status
<1>5. CASE s.reason # "DeadlineExceeded" /\ s.deploy = "Failed"
           /\ v < BackoffLimit + 1
  <2>1. checkBackoffLimitAndUpdateStatusIfNeeded(s) = retried
    BY <1>1, <1>2, <1>5 DEF checkBackoffLimitAndUpdateStatusIfNeeded,
                            counted, retried
  <2>. QED
    BY <1>4, <2>1 DEF Exhausted
<1>6. CASE ~(s.reason # "DeadlineExceeded" /\ s.deploy = "Failed"
             /\ v < BackoffLimit + 1)
  <2>1. checkBackoffLimitAndUpdateStatusIfNeeded(s) = counted
    BY <1>1, <1>2, <1>6 DEF checkBackoffLimitAndUpdateStatusIfNeeded,
                            counted, retried
  <2>2. s.failed \in Nat
    BY DEF Status
  <2>. QED
    BY <1>1, <1>3, <1>6, <2>1, <2>2 DEF Exhausted
<1>. QED
  BY <1>5, <1>6

\* A status write from the cached counters keeps the stored status
\* exhausted: it persists only from an up-to-date cache of an unfinished
\* RayJob, which has failed at most backoffLimit times.
LEMMA WriteExhausts ==
    ASSUME TypeInv, Accounted(store.status), Exhausted(store.status),
           CachedWrite
    PROVE  Exhausted(store'.status)
<1>1. PICK new \in Status : /\ new.failed = CS.failed
                            /\ new.succeeded = CS.succeeded
                            /\ Finish(new)
                            /\ CS.deploy \notin Terminal
  BY DEF CachedWrite
<1>. DEFINE out == checkBackoffLimitAndUpdateStatusIfNeeded(new)
<1>2. store \in RayJobObject
  BY DEF TypeInv, TypeOK
<1>3. CASE Persisted(out)
  <2>1. new.failed <= BackoffLimit
    BY <1>1, <1>3 DEF Persisted, CS, Accounted
  <2>2. Exhausted(out)
    BY <2>1, BackoffExhausts
  <2>3. store'.status = out
    <3>1. store' = [store EXCEPT !.status = out]
      BY <1>1, <1>3 DEF Finish, updateRayJobStatus
    <3>. QED
      BY Zenon, <1>2, <3>1 DEF RayJobObject
  <2>. QED
    BY <2>2, <2>3
<1>4. CASE ~Persisted(out)
  BY <1>1, <1>4 DEF Finish, updateRayJobStatus
<1>. QED
  BY <1>3, <1>4

\* rayjob_retry_test, for every backoffLimit: a RayJob that failed for its
\* application or its submission has failed exactly backoffLimit + 1
\* times; a reconcile on a stale cache cannot keep a failure early, because
\* its write fails, and it cannot count one twice.
THEOREM BackoffRespectedHolds == Spec => []BackoffRespected
<1>. DEFINE IInv == TypeInv /\ Accounted(store.status) /\ Exhausted(store.status)
<1>1. Init => IInv
  <2>1. Init => TypeInv
    BY InitTypeInv
  <2>2. Init => Accounted(store.status) /\ Exhausted(store.status)
    BY DEF Init, Accounted, Exhausted, Terminal
  <2>. QED
    BY <2>1, <2>2
<1>2. IInv /\ [Next]_vars => IInv'
  <2> SUFFICES ASSUME IInv, [Next]_vars PROVE IInv'
    OBVIOUS
  <2>1. TypeInv' /\ Accounted(store'.status)
    BY AccountStep
  <2>2. Exhausted(store'.status)
    <3>1. CASE CachedWrite
      BY <3>1, WriteExhausts
    <3>2. CASE store'.status = store.status
      BY <3>2
    <3>3. CASE Reconcile
      BY <3>1, <3>2, <3>3, ReconcileWrites
    <3>4. CASE Environment
      BY <3>2, <3>4, EnvironmentKeepsStatus
    <3>5. CASE UNCHANGED vars
      BY <3>2, <3>5 DEF vars
    <3>. QED
      BY <3>3, <3>4, <3>5 DEF Next
  <2>. QED
    BY <2>1, <2>2
<1>3. IInv => BackoffRespected
  BY DEF Exhausted, BackoffRespected
<1>. QED
  BY <1>1, <1>2, <1>3, PTL DEF Spec

-----------------------------------------------------------------------------
(***************************************************************************)
(* The deadline.  Once activeDeadlineSeconds have passed, the handlers     *)
(* that move an Initializing or Running RayJob on (the submit and the      *)
(* Running cases) are cut off by the early exit, and a write from a stale  *)
(* cache fails, so the stored status can only go to Suspending or to the   *)
(* Failed of checkActiveDeadlineAndUpdateStatusIfNeeded.                   *)
(***************************************************************************)

\* A write that changes the stored status came from an up-to-date cache
\* and stores the counted status.
LEMMA ChangedWriteIsCurrent ==
    ASSUME store \in RayJobObject, NEW new, Finish(new),
           store'.status # store.status
    PROVE  /\ cache = store
           /\ store'.status = checkBackoffLimitAndUpdateStatusIfNeeded(new)
<1>. DEFINE out == checkBackoffLimitAndUpdateStatusIfNeeded(new)
<1>1. Persisted(out)
  BY DEF Finish, updateRayJobStatus
<1>2. store' = [store EXCEPT !.status = out]
  BY <1>1 DEF Finish, updateRayJobStatus
<1>3. store'.status = out
  BY Zenon, <1>2 DEF RayJobObject
<1>. QED
  BY <1>1, <1>3 DEF Persisted

\* checkBackoffLimitAndUpdateStatusIfNeeded keeps the JobDeploymentStatus
\* of a status that is not a failure it may retry.
LEMMA BackoffKeepsDeploy ==
    ASSUME NEW s \in Status,
           s.deploy # "Failed" \/ s.reason = "DeadlineExceeded"
    PROVE  checkBackoffLimitAndUpdateStatusIfNeeded(s).deploy = s.deploy
<1>1. PICK v \in Nat :
        v = IF s.deploy = "Failed" THEN s.failed + 1 ELSE s.failed
  BY DEF Status
<1>2. PICK w \in Nat :
        w = IF s.deploy = "Complete" /\ s.jobStatus = "SUCCEEDED"
            THEN s.succeeded + 1 ELSE s.succeeded
  BY DEF Status
<1>. DEFINE counted == [s EXCEPT !.failed = v, !.succeeded = w]
<1>3. counted.deploy = s.deploy
  BY Zenon DEF counted, Status
<1>4. checkBackoffLimitAndUpdateStatusIfNeeded(s) = counted
  BY <1>1, <1>2 DEF checkBackoffLimitAndUpdateStatusIfNeeded, counted
<1>. QED
  BY <1>3, <1>4

\* The early exit sends a RayJob past its deadline to Suspending or Failed.
LEMMA EarlyExitDeploy ==
    ASSUME TypeInv, ReconcileEarlyExit, store'.status # store.status
    PROVE  store'.status.deploy \in {"Failed", "Suspending"}
<1>0. CS \in Status /\ store \in RayJobObject
  BY Zenon DEF TypeInv, TypeOK, RayJobObject, CS
<1>. DEFINE susp == [CS EXCEPT !.deploy = "Suspending"]
            dead == checkActiveDeadlineAndUpdateStatusIfNeeded(CS)
<1>1. susp \in Status /\ dead \in Status
  <2>1. /\ "Suspending" \in DeployStatuses /\ "Failed" \in DeployStatuses
        /\ "DeadlineExceeded" \in Reasons
    BY DEF DeployStatuses, Reasons
  <2>. QED
    BY Zenon, <1>0, <2>1, DeployKeepsType, DeployReasonKeepsType
       DEF susp, dead, checkActiveDeadlineAndUpdateStatusIfNeeded
<1>2. /\ susp.deploy = "Suspending"
      /\ dead.deploy = "Failed" /\ dead.reason = "DeadlineExceeded"
  BY <1>0 DEF susp, dead, checkActiveDeadlineAndUpdateStatusIfNeeded, Status
<1>3. PICK new \in {susp, dead} : Finish(new)
  BY Zenon DEF ReconcileEarlyExit, susp, dead
<1>4. store'.status = checkBackoffLimitAndUpdateStatusIfNeeded(new)
  BY <1>0, <1>3, ChangedWriteIsCurrent
<1>5. /\ new \in Status
      /\ new.deploy # "Failed" \/ new.reason = "DeadlineExceeded"
      /\ new.deploy \in {"Failed", "Suspending"}
  BY <1>1, <1>2, <1>3, Zenon
<1>6. checkBackoffLimitAndUpdateStatusIfNeeded(new).deploy = new.deploy
  BY <1>5, BackoffKeepsDeploy
<1>. QED
  BY <1>4, <1>5, <1>6

\* No step moves a RayJob past its deadline out of Initializing or Running
\* to anything but Failed or Suspending.
LEMMA DeadlineStep ==
    ASSUME TypeInv, [Next]_vars, HasActiveDeadline, deadlinePassed,
           store.status.deploy \in {"Initializing", "Running"},
           store'.status.deploy # store.status.deploy
    PROVE  store'.status.deploy \in {"Failed", "Suspending"}
<1>0. store \in RayJobObject
  BY DEF TypeInv, TypeOK
<1>1. store'.status # store.status
  OBVIOUS
<1>2. ~UNCHANGED vars /\ ~Environment
  <2>1. ~UNCHANGED vars
    <3>1. UNCHANGED vars => store' = store
      BY DEF vars
    <3>. QED
      BY <1>1, <3>1
  <2>2. ~Environment
    BY <1>1, EnvironmentKeepsStatus
  <2>. QED
    BY <2>1, <2>2
<1>3. Reconcile
  BY <1>2 DEF Next
<1>4. CS.deploy \in {"Initializing", "Running"}
  <2>1. PICK new \in Status : Finish(new)
    BY <1>1, <1>3, ReconcileWrites DEF CachedWrite
  <2>2. cache = store
    BY <1>0, <1>1, <2>1, ChangedWriteIsCurrent
  <2>. QED
    BY <2>2 DEF CS
<1>5. ~NoEarlyExit
  BY DEF NoEarlyExit
<1>. QED
  <2>1. CASE ReconcileEarlyExit
    BY <1>1, <2>1, EarlyExitDeploy
  <2>2. ~ReconcileNew /\ ~ReconcileSuspendingOrRetrying /\ ~ReconcileSuspended
        /\ ~ReconcileFinished
    <3>1. CS.deploy \notin {"New", "Suspending", "Retrying", "Suspended"}
          /\ CS.deploy \notin Terminal
      BY <1>4 DEF Terminal
    <3>2. ~ReconcileNew
      BY <3>1, Zenon DEF ReconcileNew
    <3>3. ~ReconcileSuspendingOrRetrying
      BY <3>1, Zenon DEF ReconcileSuspendingOrRetrying
    <3>4. ~ReconcileSuspended
      BY <3>1, Zenon DEF ReconcileSuspended
    <3>5. ~ReconcileFinished
      BY <3>1, Zenon DEF ReconcileFinished
    <3>. QED
      BY <3>2, <3>3, <3>4, <3>5
  <2>3. ~ReconcileInitializingCreateCluster /\ ~ReconcileInitializingSubmit
        /\ ~ReconcileRunning
    <3>1. ~ReconcileInitializingCreateCluster
      BY <1>5, Zenon DEF ReconcileInitializingCreateCluster
    <3>2. ~ReconcileInitializingSubmit
      BY <1>5, Zenon DEF ReconcileInitializingSubmit
    <3>3. ~ReconcileRunning
      BY <1>5, Zenon DEF ReconcileRunning
    <3>. QED
      BY <3>1, <3>2, <3>3
  <2>. QED
    BY <1>3, <2>1, <2>2, <2>3 DEF Reconcile

\* rayjob_retry_test "RayJob has passed ActiveDeadlineSeconds", for every
\* backoffLimit: once the deadline has passed, an Initializing or Running
\* RayJob leaves that state only for Failed or Suspending, never for a
\* retry or Complete, even when a reconcile runs on a stale cache.
THEOREM DeadlineFailsJobHolds == Spec => DeadlineFailsJob
<1>. DEFINE IInv == TypeInv /\ Accounted(store.status)
            A == /\ HasActiveDeadline /\ deadlinePassed
                 /\ store.status.deploy \in {"Initializing", "Running"}
                 /\ store'.status.deploy # store.status.deploy
                 => store'.status.deploy \in {"Failed", "Suspending"}
<1>1. Init => IInv
  <2>1. Init => TypeInv
    BY InitTypeInv
  <2>2. Init => Accounted(store.status)
    BY DEF Init, Accounted, Terminal
  <2>. QED
    BY <2>1, <2>2
<1>2. IInv /\ [Next]_vars => IInv'
  BY AccountStep
<1>3. IInv /\ [Next]_vars => [A]_store
  BY DeadlineStep
<1>. QED
  BY <1>1, <1>2, <1>3, PTL DEF Spec, DeadlineFailsJob

=============================================================================
