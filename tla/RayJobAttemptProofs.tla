------------------------- MODULE RayJobAttemptProofs -------------------------
(***************************************************************************)
(* Proofs that a RayJob's children belong to its current attempt.          *)
(*                                                                         *)
(* A status write persists only from an up-to-date informer cache, so the  *)
(* cache is either the stored RayJob or the version one write before it.   *)
(* AttemptInv states what that means for the current state: the cluster   *)
(* name of a stale cache differs from the stored one only after a write    *)
(* from New, Suspending or Retrying, every cluster and submitter that      *)
(* exists belongs to the stored cluster name, and the cluster and the Ray  *)
(* job of an Initializing or Running RayJob are not taken away under it.   *)
(***************************************************************************)
EXTENDS RayJobProofs

SCN == store.status.clusterName

\* A stale cache names another cluster only after initRayJobStatusIfNeed
\* named one (New) or the Suspending/Retrying case cleared the name.
CacheNameLag ==
    CS.clusterName # SCN => CS.deploy \in {"New", "Suspending", "Retrying"}

\* initRayJobStatusIfNeed resets JobStatus before the RayJob leaves New.
InitNotStarted ==
    store.status.deploy = "Initializing" => store.status.jobStatus = "NEW"

\* Only New, Initializing and Running are written to Initializing or Running.
CacheActive ==
    store.status.deploy \in {"Initializing", "Running"}
    => CS.deploy \in {"New", "Initializing", "Running"}

\* A RayJob that has not started an attempt names no cluster.
UnnamedBeforeStart ==
    store.status.deploy \in {"New", "Suspended"} => SCN = None

\* Every cluster that exists is the stored RayJob's.
LiveClustersNamed ==
    \A c \in ClusterNames : cluster[c] # "absent" => c = SCN

\* The submitter, while it exists, was created for the stored cluster name.
SubmitterNamed ==
    submitter.state # "absent"
    => submitter.cluster \in ClusterNames /\ submitter.cluster = SCN

\* The cluster of an Initializing or Running RayJob is not being deleted.
ClusterKept ==
    store.exists /\ store.status.deploy \in {"Initializing", "Running"}
    => cluster[SCN] # "terminating"

\* A Running RayJob that has seen its Ray job still finds it.
RemoteKept ==
    store.exists /\ store.status.deploy = "Running"
    /\ store.status.jobStatus # "NEW"
    => remote[SCN] # "NONE"

\* The facts about the stored and the cached status alone.
StatusFacts ==
    /\ CacheNameLag /\ InitNotStarted /\ CacheActive /\ UnnamedBeforeStart
    /\ SubmissionFailedMeansNotStarted

\* The inductive invariant, with TypeInv, of the attempt theorems.
AttemptInv ==
    /\ StatusFacts
    /\ LiveClustersNamed /\ SubmitterNamed /\ ClusterKept /\ RemoteKept

-----------------------------------------------------------------------------

\* checkBackoffLimitAndUpdateStatusIfNeeded changes only the counters, and
\* a failure it retries becomes Retrying with no reason.
LEMMA BackoffShape ==
    ASSUME NEW s \in Status
    PROVE  LET out == checkBackoffLimitAndUpdateStatusIfNeeded(s)
           IN  /\ out.clusterName = s.clusterName
               /\ out.jobStatus = s.jobStatus
               /\ \/ out.deploy = s.deploy /\ out.reason = s.reason
                  \/ out.deploy = "Retrying" /\ out.reason = None
<1>1. PICK v \in Nat :
        v = IF s.deploy = "Failed" THEN s.failed + 1 ELSE s.failed
  BY DEF Status
<1>2. PICK w \in Nat :
        w = IF s.deploy = "Complete" /\ s.jobStatus = "SUCCEEDED"
            THEN s.succeeded + 1 ELSE s.succeeded
  BY DEF Status
<1>. DEFINE counted == [s EXCEPT !.failed = v, !.succeeded = w]
            retried == [counted EXCEPT !.deploy = "Retrying", !.reason = None]
<1>3. /\ counted.deploy = s.deploy /\ counted.reason = s.reason
      /\ counted.clusterName = s.clusterName /\ counted.jobStatus = s.jobStatus
  BY Zenon DEF counted, Status
<1>4. /\ retried.deploy = "Retrying" /\ retried.reason = None
      /\ retried.clusterName = s.clusterName /\ retried.jobStatus = s.jobStatus
  BY Zenon, <1>3 DEF retried, counted, Status
<1>5. checkBackoffLimitAndUpdateStatusIfNeeded(s) \in {counted, retried}
  BY <1>1, <1>2 DEF checkBackoffLimitAndUpdateStatusIfNeeded, counted,
                    retried
<1>. QED
  BY <1>3, <1>4, <1>5, Zenon

\* The fields a handler's status keeps from the cached one.
LEMMA DeployShape ==
    ASSUME NEW s \in Status, NEW d
    PROVE  LET t == [s EXCEPT !.deploy = d]
           IN  /\ t.deploy = d /\ t.reason = s.reason
               /\ t.jobStatus = s.jobStatus /\ t.clusterName = s.clusterName
BY Zenon DEF Status

\* A status write either fails and leaves the stored RayJob alone, or came
\* from an up-to-date cache and stores the written status, its cluster name
\* and job status untouched by the backoff check, its deployment status and
\* reason either kept or turned into a retry.
LEMMA WriteResult ==
    ASSUME store \in RayJobObject, NEW new \in Status, Finish(new)
    PROVE  \/ store' = store
           \/ /\ cache = store
              /\ store'.exists = store.exists
              /\ store'.status.clusterName = new.clusterName
              /\ store'.status.jobStatus = new.jobStatus
              /\ \/ /\ store'.status.deploy = new.deploy
                    /\ store'.status.reason = new.reason
                 \/ /\ store'.status.deploy = "Retrying"
                    /\ store'.status.reason = None
<1>. DEFINE out == checkBackoffLimitAndUpdateStatusIfNeeded(new)
<1>1. CASE Persisted(out)
  <2>1. store' = [store EXCEPT !.status = out]
    BY <1>1 DEF Finish, updateRayJobStatus
  <2>2. store'.status = out /\ store'.exists = store.exists
    BY Zenon, <2>1 DEF RayJobObject
  <2>3. cache = store
    BY <1>1 DEF Persisted
  <2>. QED
    BY <2>2, <2>3, BackoffShape
<1>2. CASE ~Persisted(out)
  BY <1>2 DEF Finish, updateRayJobStatus
<1>. QED
  BY <1>1, <1>2

\* What a handler must ensure of the status it writes from an up-to-date
\* cache for the status facts to survive the write.
GoodWrite(new) ==
    /\ new.clusterName # CS.clusterName
       => CS.deploy \in {"New", "Suspending", "Retrying"}
    /\ new.deploy = "Initializing" => new.jobStatus = "NEW"
    /\ new.deploy \in {"Initializing", "Running"}
       => CS.deploy \in {"New", "Initializing", "Running"}
    /\ new.deploy \in {"New", "Suspended"} => new.clusterName = None
    /\ new.reason = "SubmissionFailed" => new.jobStatus = "NEW"

LEMMA NoneIsNoReason == None # "SubmissionFailed"
BY ConstantsAssumption

\* A handler's write keeps the status facts when what it writes from an
\* up-to-date cache is a GoodWrite.
LEMMA StatusWriteKeeps ==
    ASSUME store \in RayJobObject, StatusFacts, cache' = cache,
           NEW new \in Status, Finish(new), cache = store => GoodWrite(new)
    PROVE  StatusFacts'
<1>1. CASE store' = store
  BY <1>1 DEF StatusFacts, CacheNameLag, InitNotStarted, CacheActive,
              UnnamedBeforeStart, SubmissionFailedMeansNotStarted, SCN, CS
<1>2. CASE /\ cache = store
           /\ store'.status.clusterName = new.clusterName
           /\ store'.status.jobStatus = new.jobStatus
           /\ store'.status.deploy = new.deploy
           /\ store'.status.reason = new.reason
  <2>1. GoodWrite(new)
    BY <1>2
  <2>. QED
    BY <1>2, <2>1 DEF GoodWrite, StatusFacts, CacheNameLag, InitNotStarted,
                      CacheActive, UnnamedBeforeStart,
                      SubmissionFailedMeansNotStarted, SCN, CS
<1>3. CASE /\ cache = store
           /\ store'.status.clusterName = new.clusterName
           /\ store'.status.deploy = "Retrying"
           /\ store'.status.reason = None
  <2>1. GoodWrite(new)
    BY <1>3
  <2>. QED
    BY <1>3, <2>1, NoneIsNoReason
       DEF GoodWrite, StatusFacts, CacheNameLag, InitNotStarted,
           CacheActive, UnnamedBeforeStart,
           SubmissionFailedMeansNotStarted, SCN, CS
<1>. QED
  BY <1>1, <1>2, <1>3, WriteResult

-----------------------------------------------------------------------------
(***************************************************************************)
(* The environment.                                                        *)
(***************************************************************************)

\* The initial RayJob is New, names no cluster and has no children.
LEMMA InitAttemptInv == Init => AttemptInv
<1>1. None \notin ClusterNames
  BY ConstantsAssumption
<1>. QED
  BY <1>1 DEF Init, AttemptInv, StatusFacts, CacheNameLag, InitNotStarted,
              CacheActive, UnnamedBeforeStart,
              SubmissionFailedMeansNotStarted, LiveClustersNamed,
              SubmitterNamed, ClusterKept, RemoteKept, SCN, CS, NoSubmitter

\* The informer, the user, the garbage collector, the RayCluster controller,
\* the Ray job and the submitter's pods keep AttemptInv: none of them writes
\* the status, and the children they create or remove are the current ones.
LEMMA EnvironmentAttemptInv ==
    TypeInv /\ AttemptInv /\ Environment => AttemptInv'
<1> SUFFICES ASSUME TypeInv, AttemptInv, Environment PROVE AttemptInv'
  OBVIOUS
<1>0. /\ store \in RayJobObject
      /\ cluster \in [ClusterNames -> ClusterStates]
      /\ remote \in [ClusterNames -> RemoteStatuses \cup {"NONE"}]
      /\ submitter \in Submitter
      /\ NamedIfActive(store.status)
  BY DEF TypeInv, TypeOK
<1>1. store'.status = store.status
  BY EnvironmentKeepsStatus
<1>2. CASE CacheSync
  BY <1>1, <1>2 DEF CacheSync, AttemptInv, StatusFacts, CacheNameLag,
                    InitNotStarted, CacheActive, UnnamedBeforeStart,
                    SubmissionFailedMeansNotStarted, LiveClustersNamed,
                    SubmitterNamed, ClusterKept, RemoteKept, SCN, CS
<1>3. CASE UserEditSuspend
  <2>1. store'.exists = store.exists
    BY Zenon, <1>0, <1>3 DEF UserEditSuspend, RayJobObject
  <2>. QED
    BY <1>1, <1>3, <2>1
       DEF UserEditSuspend, AttemptInv, StatusFacts, CacheNameLag,
           InitNotStarted, CacheActive, UnnamedBeforeStart,
           SubmissionFailedMeansNotStarted, LiveClustersNamed,
           SubmitterNamed, ClusterKept, RemoteKept, SCN, CS
<1>4. CASE UserDelete
  <2>1. ~store'.exists
    BY Zenon, <1>0, <1>4 DEF UserDelete, RayJobObject
  <2>. QED
    BY <1>1, <1>4, <2>1
       DEF UserDelete, AttemptInv, StatusFacts, CacheNameLag,
           InitNotStarted, CacheActive, UnnamedBeforeStart,
           SubmissionFailedMeansNotStarted, LiveClustersNamed,
           SubmitterNamed, ClusterKept, RemoteKept, SCN, CS
<1>5. CASE DeadlineElapses \/ SubmitterRemoved
  BY <1>5 DEF DeadlineElapses, SubmitterRemoved, NoSubmitter, AttemptInv,
              StatusFacts, CacheNameLag, InitNotStarted, CacheActive,
              UnnamedBeforeStart, SubmissionFailedMeansNotStarted,
              LiveClustersNamed, SubmitterNamed, ClusterKept, RemoteKept,
              SCN, CS
<1>6. CASE GarbageCollect
  <2>1. /\ \A c \in ClusterNames : cluster'[c] # "absent" => cluster[c] # "absent"
        /\ submitter'.state # "absent" => submitter.state # "absent"
        /\ submitter'.cluster = submitter.cluster
    BY Zenon, <1>0, <1>6 DEF GarbageCollect, Submitter
  <2>. QED
    BY <1>6, <2>1 DEF GarbageCollect, AttemptInv, StatusFacts, CacheNameLag,
                      InitNotStarted, CacheActive, UnnamedBeforeStart,
                      SubmissionFailedMeansNotStarted, LiveClustersNamed,
                      SubmitterNamed, ClusterKept, RemoteKept, SCN, CS
<1>7. CASE SubmitterSubmits
  <2>1. \A c \in ClusterNames : remote[c] # "NONE" => remote'[c] # "NONE"
    BY <1>0, <1>7 DEF SubmitterSubmits
  <2>. QED
    BY <1>7, <2>1 DEF SubmitterSubmits, AttemptInv, StatusFacts,
                      CacheNameLag, InitNotStarted, CacheActive,
                      UnnamedBeforeStart, SubmissionFailedMeansNotStarted,
                      LiveClustersNamed, SubmitterNamed, ClusterKept,
                      RemoteKept, SCN, CS, NamedIfActive
<1>8. CASE SubmitterPodFails \/ SubmitterSucceeds
  <2>1. /\ submitter.state # "absent"
        /\ submitter'.cluster = submitter.cluster
    BY Zenon, <1>0, <1>8 DEF SubmitterPodFails, SubmitterSucceeds, Submitter
  <2>. QED
    BY <1>8, <2>1 DEF SubmitterPodFails, SubmitterSucceeds, AttemptInv,
                      StatusFacts, CacheNameLag, InitNotStarted,
                      CacheActive, UnnamedBeforeStart,
                      SubmissionFailedMeansNotStarted, LiveClustersNamed,
                      SubmitterNamed, ClusterKept, RemoteKept, SCN, CS
<1>9. ASSUME NEW c \in ClusterNames, ClusterBecomesReady(c)
      PROVE  AttemptInv'
  BY <1>0, <1>9 DEF ClusterBecomesReady, AttemptInv, StatusFacts,
                    CacheNameLag, InitNotStarted, CacheActive,
                    UnnamedBeforeStart, SubmissionFailedMeansNotStarted,
                    LiveClustersNamed, SubmitterNamed, ClusterKept,
                    RemoteKept, SCN, CS, NamedIfActive
<1>10. ASSUME NEW c \in ClusterNames, ClusterRemoved(c)
       PROVE  AttemptInv'
  <2>1. RemoteKept'
    BY <1>0, <1>10 DEF ClusterRemoved, AttemptInv, ClusterKept, RemoteKept,
                       SCN, NamedIfActive
  <2>. QED
    BY <1>0, <1>10, <2>1
       DEF ClusterRemoved, AttemptInv, StatusFacts, CacheNameLag,
           InitNotStarted, CacheActive, UnnamedBeforeStart,
           SubmissionFailedMeansNotStarted, LiveClustersNamed,
           SubmitterNamed, ClusterKept, SCN, CS, NamedIfActive
<1>11. ASSUME NEW c \in ClusterNames, RayJobProgresses(c)
       PROVE  AttemptInv'
  <2>1. \A x \in ClusterNames : remote[x] # "NONE" => remote'[x] # "NONE"
    BY <1>0, <1>11 DEF RayJobProgresses, RemoteTerminal
  <2>. QED
    BY <1>11, <2>1 DEF RayJobProgresses, AttemptInv, StatusFacts,
                       CacheNameLag, InitNotStarted, CacheActive,
                       UnnamedBeforeStart, SubmissionFailedMeansNotStarted,
                       LiveClustersNamed, SubmitterNamed, ClusterKept,
                       RemoteKept, SCN, CS, NamedIfActive
<1>. QED
  BY <1>2, <1>3, <1>4, <1>5, <1>6, <1>7, <1>8, <1>9, <1>10, <1>11
     DEF Environment

-----------------------------------------------------------------------------
(***************************************************************************)
(* The reconciler, one lemma per case of its switch.                       *)
(***************************************************************************)

\* The facts of TypeInv and of the constants the handler lemmas start from.
LEMMA HandlerFacts ==
    ASSUME TypeInv
    PROVE  /\ store \in RayJobObject
           /\ CS \in Status
           /\ CN \in ClusterNames \cup {None}
           /\ cluster \in [ClusterNames -> ClusterStates]
           /\ remote \in [ClusterNames -> RemoteStatuses \cup {"NONE"}]
           /\ submitter \in Submitter
           /\ NamedIfActive(store.status)
           /\ NamedIfActive(CS)
           /\ None \notin ClusterNames
BY Zenon, ConstantFacts
   DEF TypeInv, TypeOK, RayJobObject, Status, CS, CN

\* A write from an up-to-date cache of a New RayJob finds no children: the
\* stored RayJob names no cluster, and every child belongs to that name.
LEMMA NewHasNoChildren ==
    ASSUME TypeInv, AttemptInv, store.status.deploy = "New"
    PROVE  /\ \A c \in ClusterNames : cluster[c] = "absent"
           /\ submitter.state = "absent"
<1>1. SCN = None /\ None \notin ClusterNames
  BY ConstantFacts DEF AttemptInv, StatusFacts, UnnamedBeforeStart
<1>. QED
  BY <1>1 DEF AttemptInv, LiveClustersNamed, SubmitterNamed

\* New: initRayJobStatusIfNeed names the cluster of the attempt.  Its write
\* persists only from an up-to-date cache, when the stored RayJob is New
\* and has no children yet, so the new name owns them all.
LEMMA NewAttemptInv ==
    ASSUME TypeInv, AttemptInv, ReconcileNew PROVE AttemptInv'
<1>0. /\ store \in RayJobObject /\ CS \in Status
      /\ CN \in ClusterNames \cup {None}
  BY HandlerFacts
<1>1. PICK c \in ClusterNames \ used :
        Finish([CS EXCEPT !.deploy = "Initializing", !.jobStatus = "NEW",
                          !.clusterName = IF CN = None THEN c ELSE CN])
  BY Zenon DEF ReconcileNew
<1>2. PICK n \in ClusterNames : n = IF CN = None THEN c ELSE CN
  BY <1>0
<1>. DEFINE new == [CS EXCEPT !.deploy = "Initializing", !.jobStatus = "NEW",
                              !.clusterName = n]
<1>3. new \in Status
  <2>1. /\ "Initializing" \in DeployStatuses /\ "NEW" \in JobStatuses
    BY DEF DeployStatuses, JobStatuses
  <2>. QED
    BY Zenon, <1>0, <1>2, <2>1, NameKeepsType DEF new
<1>4. /\ new.deploy = "Initializing" /\ new.jobStatus = "NEW"
      /\ new.clusterName = n /\ new.reason = CS.reason
  BY <1>0 DEF new, Status
<1>5. Finish(new)
  BY Zenon, <1>1, <1>2 DEF new
<1>6. /\ cache' = cache /\ cluster' = cluster /\ remote' = remote
      /\ submitter' = submitter
  BY DEF ReconcileNew
<1>7. StatusFacts'
  <2>1. cache = store => GoodWrite(new)
    <3>1. CS.deploy = "New"
      BY DEF ReconcileNew
    <3>. QED
      BY <1>4, <3>1 DEF GoodWrite
  <2>. QED
    BY <1>0, <1>3, <1>5, <1>6, <2>1, StatusWriteKeeps DEF AttemptInv
<1>8. CASE store' = store
  BY <1>6, <1>7, <1>8 DEF AttemptInv, LiveClustersNamed, SubmitterNamed,
                          ClusterKept, RemoteKept, SCN
<1>9. CASE /\ cache = store
           /\ store'.status.clusterName = new.clusterName
           /\ store'.status.deploy \in {new.deploy, "Retrying"}
  <2>1. store.status.deploy = "New"
    BY <1>9 DEF ReconcileNew, CS
  <2>2. /\ \A x \in ClusterNames : cluster[x] = "absent"
        /\ submitter.state = "absent"
    BY <2>1, NewHasNoChildren
  <2>3. SCN' = n /\ store'.status.deploy \in {"Initializing", "Retrying"}
    BY <1>4, <1>9 DEF SCN
  <2>. QED
    BY <1>2, <1>6, <1>7, <2>2, <2>3
       DEF AttemptInv, LiveClustersNamed, SubmitterNamed, ClusterKept,
           RemoteKept
<1>. QED
  <2>1. \/ store' = store
        \/ /\ cache = store
           /\ store'.status.clusterName = new.clusterName
           /\ \/ store'.status.deploy = new.deploy
              \/ store'.status.deploy = "Retrying"
    BY Zenon, <1>0, <1>3, <1>5, WriteResult
  <2>. QED
    BY <1>8, <1>9, <2>1

\* A write that keeps the cached cluster name keeps the stored one.
LEMMA SameNameWrite ==
    ASSUME store \in RayJobObject, NEW new \in Status, Finish(new),
           new.clusterName = CN
    PROVE  \/ store' = store
           \/ /\ cache = store
              /\ SCN' = SCN
              /\ store'.exists = store.exists
              /\ store'.status.jobStatus = new.jobStatus
              /\ store'.status.deploy \in {new.deploy, "Retrying"}
<1>1. \/ store' = store
      \/ /\ cache = store
         /\ store'.exists = store.exists
         /\ store'.status.clusterName = new.clusterName
         /\ store'.status.jobStatus = new.jobStatus
         /\ \/ store'.status.deploy = new.deploy
            \/ store'.status.deploy = "Retrying"
  BY Zenon, WriteResult
<1>. QED
  BY <1>1 DEF SCN, CN, CS

\* An Initializing or Running cache names the stored cluster.
LEMMA CurrentName ==
    ASSUME AttemptInv, CS.deploy \in {"Initializing", "Running"}
    PROVE  CN = SCN
<1>1. CS.clusterName = SCN
  BY DEF AttemptInv, StatusFacts, CacheNameLag
<1>. QED
  BY <1>1 DEF CN, CS

\* The suspend and deadline checks write Suspending or Failed under the
\* same cluster name and touch no child.
LEMMA EarlyExitAttemptInv ==
    ASSUME TypeInv, AttemptInv, ReconcileEarlyExit PROVE AttemptInv'
<1>0. /\ store \in RayJobObject /\ CS \in Status
  BY HandlerFacts
<1>. DEFINE susp == [CS EXCEPT !.deploy = "Suspending"]
            dead == checkActiveDeadlineAndUpdateStatusIfNeeded(CS)
<1>1. susp \in Status /\ dead \in Status
  <2>1. /\ "Suspending" \in DeployStatuses /\ "Failed" \in DeployStatuses
        /\ "DeadlineExceeded" \in Reasons
    BY DEF DeployStatuses, Reasons
  <2>. QED
    BY Zenon, <1>0, <2>1, DeployKeepsType, DeployReasonKeepsType
       DEF susp, dead, checkActiveDeadlineAndUpdateStatusIfNeeded
<1>2. /\ susp.deploy = "Suspending" /\ susp.reason = CS.reason
      /\ susp.jobStatus = CS.jobStatus /\ susp.clusterName = CN
      /\ dead.deploy = "Failed" /\ dead.reason = "DeadlineExceeded"
      /\ dead.clusterName = CN
  <2>1. /\ susp.deploy = "Suspending" /\ susp.reason = CS.reason
        /\ susp.jobStatus = CS.jobStatus /\ susp.clusterName = CN
    BY Zenon, <1>0, DeployShape DEF susp, CN, CS
  <2>2. /\ dead.deploy = "Failed" /\ dead.reason = "DeadlineExceeded"
        /\ dead.clusterName = CN
    <3>1. dead.deploy = "Failed" /\ dead.reason = "DeadlineExceeded"
      BY <1>0 DEF dead, checkActiveDeadlineAndUpdateStatusIfNeeded, Status
    <3>2. dead.clusterName = CN
      BY <1>0 DEF dead, checkActiveDeadlineAndUpdateStatusIfNeeded, Status,
                  CN, CS
    <3>. QED
      BY <3>1, <3>2
  <2>. QED
    BY <2>1, <2>2
<1>3. PICK new \in {susp, dead} : Finish(new)
  BY Zenon DEF ReconcileEarlyExit, susp, dead
<1>8. /\ new \in Status /\ new.clusterName = CN
      /\ new.deploy \in {"Suspending", "Failed"}
  <2>1. CASE new = susp
    BY <1>1, <1>2, <2>1
  <2>2. CASE new = dead
    BY <1>1, <1>2, <2>2
  <2>. QED
    BY <1>3, <2>1, <2>2
<1>4. /\ cache' = cache /\ cluster' = cluster /\ remote' = remote
      /\ submitter' = submitter
  BY DEF ReconcileEarlyExit
<1>5. StatusFacts'
  <2>1. cache = store => GoodWrite(new)
    <3>1. CASE new = susp
      <4>1. cache = store /\ new.reason = "SubmissionFailed"
            => new.jobStatus = "NEW"
        BY <1>2, <3>1 DEF AttemptInv, StatusFacts,
                          SubmissionFailedMeansNotStarted, CS
      <4>. QED
        BY <1>2, <3>1, <4>1 DEF GoodWrite
    <3>2. CASE new = dead
      BY <1>2, <3>2 DEF GoodWrite
    <3>. QED
      BY <1>3, <3>1, <3>2
  <2>. QED
    <3>1. StatusFacts
      BY DEF AttemptInv
    <3>. QED
      BY Zenon, <1>0, <1>3, <1>4, <1>8, <2>1, <3>1, StatusWriteKeeps
<1>6. CASE store' = store
  BY <1>4, <1>5, <1>6 DEF AttemptInv, LiveClustersNamed, SubmitterNamed,
                          ClusterKept, RemoteKept, SCN
<1>7. CASE /\ SCN' = SCN
           /\ store'.status.deploy \in {new.deploy, "Retrying"}
  <2>1. store'.status.deploy \in {"Suspending", "Failed", "Retrying"}
    BY <1>7, <1>8
  <2>. QED
    BY <1>4, <1>5, <1>7, <2>1
       DEF AttemptInv, LiveClustersNamed, SubmitterNamed, ClusterKept,
           RemoteKept
<1>. QED
  <2>1. \/ store' = store
        \/ /\ SCN' = SCN
           /\ store'.status.deploy \in {new.deploy, "Retrying"}
    BY Zenon, <1>0, <1>3, <1>8, SameNameWrite
  <2>. QED
    BY <1>6, <1>7, <2>1

\* Initializing with no cluster: getOrCreateRayClusterInstance creates the
\* cluster the stored RayJob names.
LEMMA CreateClusterAttemptInv ==
    ASSUME TypeInv, AttemptInv, ReconcileInitializingCreateCluster
    PROVE  AttemptInv'
<1>0. /\ cluster \in [ClusterNames -> ClusterStates]
      /\ NamedIfActive(CS)
  BY HandlerFacts
<1>1. CN = SCN /\ CN \in ClusterNames
  <2>1. CS.deploy = "Initializing"
    BY DEF ReconcileInitializingCreateCluster
  <2>2. CN = SCN
    BY <2>1, CurrentName
  <2>. QED
    BY <1>0, <2>1, <2>2 DEF NamedIfActive, CN, CS
<1>. QED
  BY <1>0, <1>1 DEF ReconcileInitializingCreateCluster, AttemptInv,
                    StatusFacts, CacheNameLag, InitNotStarted, CacheActive,
                    UnnamedBeforeStart, SubmissionFailedMeansNotStarted,
                    LiveClustersNamed, SubmitterNamed, ClusterKept,
                    RemoteKept, SCN, CS

\* Initializing with a ready cluster: createK8sJobIfNeed creates the
\* submitter for the stored cluster name, and the RayJob, whose Ray job has
\* not started, moves to Running.
LEMMA SubmitAttemptInv ==
    ASSUME TypeInv, AttemptInv, ReconcileInitializingSubmit
    PROVE  AttemptInv'
<1>0. /\ store \in RayJobObject /\ CS \in Status
      /\ cluster \in [ClusterNames -> ClusterStates]
      /\ NamedIfActive(CS)
  BY HandlerFacts
<1>1. CN = SCN /\ CN \in ClusterNames /\ cluster[CN] = "ready"
  <2>1. CS.deploy = "Initializing" /\ cluster[CN] = "ready"
    BY DEF ReconcileInitializingSubmit
  <2>2. CN = SCN
    BY <2>1, CurrentName
  <2>. QED
    BY <1>0, <2>1, <2>2 DEF NamedIfActive, CN, CS
<1>. DEFINE new == [CS EXCEPT !.deploy = "Running"]
<1>2. new \in Status
  <2>1. "Running" \in DeployStatuses
    BY DEF DeployStatuses
  <2>. QED
    BY Zenon, <1>0, <2>1, DeployKeepsType DEF new
<1>3. /\ new.deploy = "Running" /\ new.reason = CS.reason
      /\ new.jobStatus = CS.jobStatus /\ new.clusterName = CN
  BY Zenon, <1>0, DeployShape DEF new, CN, CS
<1>4. Finish(new)
  BY DEF ReconcileInitializingSubmit, new
<1>5. /\ cache' = cache /\ cluster' = cluster /\ remote' = remote
      /\ submitter'.state # "absent" => submitter'.cluster = CN
                                        \/ submitter' = submitter
  BY DEF ReconcileInitializingSubmit
<1>6. StatusFacts'
  <2>1. cache = store => GoodWrite(new)
    BY <1>3 DEF ReconcileInitializingSubmit, GoodWrite, AttemptInv,
                StatusFacts, SubmissionFailedMeansNotStarted, CS
  <2>. QED
    <3>1. StatusFacts
      BY DEF AttemptInv
    <3>. QED
      BY Zenon, <1>0, <1>2, <1>4, <1>5, <2>1, <3>1, StatusWriteKeeps
<1>7. SubmitterNamed'
  <2>1. CASE store' = store
    BY <1>1, <1>5, <2>1 DEF AttemptInv, SubmitterNamed, SCN
  <2>2. CASE SCN' = SCN
    BY <1>1, <1>5, <2>2 DEF AttemptInv, SubmitterNamed
  <2>3. store' = store \/ SCN' = SCN
    BY Zenon, <1>0, <1>2, <1>3, <1>4, SameNameWrite
  <2>. QED
    BY <2>1, <2>2, <2>3
<1>8. CASE store' = store
  BY <1>5, <1>6, <1>7, <1>8 DEF AttemptInv, LiveClustersNamed, ClusterKept,
                                RemoteKept, SCN
<1>9. CASE /\ cache = store
           /\ SCN' = SCN
           /\ store'.exists = store.exists
           /\ store'.status.jobStatus = new.jobStatus
           /\ store'.status.deploy \in {new.deploy, "Retrying"}
  <2>1. store'.status.jobStatus = "NEW"
    BY <1>3, <1>9 DEF ReconcileInitializingSubmit, AttemptInv, StatusFacts,
                      InitNotStarted, CS
  <2>. QED
    BY <1>1, <1>5, <1>6, <1>7, <1>9, <2>1
       DEF AttemptInv, LiveClustersNamed, ClusterKept, RemoteKept
<1>. QED
  <2>1. \/ store' = store
        \/ /\ cache = store
           /\ SCN' = SCN
           /\ store'.exists = store.exists
           /\ store'.status.jobStatus = new.jobStatus
           /\ store'.status.deploy \in {new.deploy, "Retrying"}
    BY Zenon, <1>0, <1>2, <1>3, <1>4, SameNameWrite
  <2>. QED
    BY <1>8, <1>9, <2>1

\* Running: a submitter that failed with no Ray job to be found fails the
\* RayJob, whose Ray job therefore never started; otherwise the status of
\* the Ray job of the stored cluster, which is ready, is copied.
LEMMA RunningAttemptInv ==
    ASSUME TypeInv, AttemptInv, ReconcileRunning PROVE AttemptInv'
<1>0. /\ store \in RayJobObject /\ CS \in Status
      /\ remote \in [ClusterNames -> RemoteStatuses \cup {"NONE"}]
      /\ NamedIfActive(CS)
  BY HandlerFacts
<1>1. CN = SCN /\ CN \in ClusterNames
  <2>1. CS.deploy = "Running"
    BY DEF ReconcileRunning
  <2>2. CN = SCN
    BY <2>1, CurrentName
  <2>. QED
    BY <1>0, <2>1, <2>2 DEF NamedIfActive, CN, CS
<1>2. /\ cache' = cache /\ cluster' = cluster /\ remote' = remote
      /\ submitter' = submitter
  BY DEF ReconcileRunning
<1>S. StatusFacts
  BY DEF AttemptInv
<1>3. ASSUME checkK8sJobFailed,
             Finish([CS EXCEPT !.deploy = "Failed", !.reason = "SubmissionFailed"])
      PROVE  AttemptInv'
  <2>. DEFINE fail == [CS EXCEPT !.deploy = "Failed",
                                 !.reason = "SubmissionFailed"]
  <2>1. fail \in Status
    <3>1. "Failed" \in DeployStatuses /\ "SubmissionFailed" \in Reasons
      BY DEF DeployStatuses, Reasons
    <3>. QED
      BY Zenon, <1>0, <3>1, DeployReasonKeepsType DEF fail
  <2>2. /\ fail.deploy = "Failed" /\ fail.reason = "SubmissionFailed"
        /\ fail.jobStatus = CS.jobStatus /\ fail.clusterName = CN
    BY <1>0 DEF fail, Status, CN, CS
  <2>3. cache = store => GoodWrite(fail)
    <3> SUFFICES ASSUME cache = store PROVE GoodWrite(fail)
      OBVIOUS
    <3>1. /\ store.exists /\ store.status.deploy = "Running"
          /\ remote[SCN] = "NONE"
      BY <1>1, <1>3 DEF ReconcileRunning, Reconciling, checkK8sJobFailed, CS
    <3>2. store.status.jobStatus = "NEW"
      BY <3>1 DEF AttemptInv, RemoteKept
    <3>. QED
      BY <2>2, <3>2 DEF GoodWrite, CS
  <2>4. StatusFacts'
    BY Zenon, <1>0, <1>2, <1>3, <1>S, <2>1, <2>3, StatusWriteKeeps
  <2>5. \/ store' = store
        \/ SCN' = SCN /\ store'.status.deploy \in {fail.deploy, "Retrying"}
    BY Zenon, <1>0, <1>3, <2>1, <2>2, SameNameWrite
  <2>. QED
    BY <1>2, <2>2, <2>4, <2>5
       DEF AttemptInv, LiveClustersNamed, SubmitterNamed, ClusterKept,
           RemoteKept, SCN
<1>4. ASSUME cluster[CN] = "ready", remote[CN] # "NONE",
             LET rs == remote[CN]
                 d == IF rs = "FAILED" THEN "Failed"
                      ELSE IF rs \in RemoteTerminal THEN "Complete"
                      ELSE "Running"
             IN  Finish([CS EXCEPT !.jobStatus = rs, !.deploy = d,
                                   !.reason = IF rs = "FAILED" THEN "AppFailed"
                                              ELSE None])
      PROVE  AttemptInv'
  <2>1. PICK j \in JobStatuses : j = remote[CN]
    BY <1>0, <1>1, <1>4 DEF JobStatuses
  <2>2. PICK d \in {"Failed", "Complete", "Running"} :
          d = IF j = "FAILED" THEN "Failed"
              ELSE IF j \in RemoteTerminal THEN "Complete" ELSE "Running"
    OBVIOUS
  <2>3. PICK r \in {"AppFailed", None} :
          r = IF j = "FAILED" THEN "AppFailed" ELSE None
    OBVIOUS
  <2>. DEFINE copy == [CS EXCEPT !.jobStatus = j, !.deploy = d, !.reason = r]
  <2>4. Finish(copy)
    BY Zenon, <1>4, <2>1, <2>2, <2>3 DEF copy
  <2>5. copy \in Status
    <3>1. d \in DeployStatuses /\ r \in Reasons
      BY <2>2, <2>3 DEF DeployStatuses, Reasons
    <3>. QED
      BY Zenon, <1>0, <2>1, <3>1, CopyKeepsType DEF copy
  <2>6. /\ copy.deploy = d /\ copy.reason = r /\ copy.clusterName = CN
    BY <1>0 DEF copy, Status, CN, CS
  <2>7. StatusFacts'
    <3>1. GoodWrite(copy)
      <4>1. d = "Running" => CS.deploy = "Running"
        BY DEF ReconcileRunning
      <4>2. r # "SubmissionFailed"
        BY <2>3, NoneIsNoReason
      <4>. QED
        BY <2>2, <2>6, <4>1, <4>2 DEF GoodWrite, CN
    <3>. QED
      BY Zenon, <1>0, <1>2, <1>S, <2>4, <2>5, <3>1, StatusWriteKeeps
  <2>8. store' = store \/ SCN' = SCN
    BY Zenon, <1>0, <2>4, <2>5, <2>6, SameNameWrite
  <2>. QED
    BY <1>1, <1>2, <1>4, <2>7, <2>8
       DEF AttemptInv, LiveClustersNamed, SubmitterNamed, ClusterKept,
           RemoteKept, SCN
<1>. QED
  BY Zenon, <1>3, <1>4 DEF ReconcileRunning

\* deleteClusterResources and deleteSubmitterJob only mark existing
\* children for deletion.
LEMMA DeletionKeepsOwners ==
    ASSUME TypeInv,
           \/ submitter' = deleteSubmitterJob
           \/ submitter' = submitter,
           cluster' = deleteClusterResources
    PROVE  /\ \A c \in ClusterNames :
                 cluster'[c] # "absent" => cluster[c] # "absent"
           /\ submitter'.state # "absent" => submitter.state # "absent"
           /\ submitter'.cluster = submitter.cluster
<1>0. /\ cluster \in [ClusterNames -> ClusterStates]
      /\ submitter \in Submitter
  BY HandlerFacts
<1>1. \A c \in ClusterNames : cluster'[c] # "absent" => cluster[c] # "absent"
  BY <1>0 DEF deleteClusterResources, ClusterDeleted
<1>2. /\ deleteSubmitterJob.state # "absent" => submitter.state # "absent"
      /\ deleteSubmitterJob.cluster = submitter.cluster
  BY Zenon, <1>0 DEF deleteSubmitterJob, Submitter
<1>. QED
  BY <1>1, <1>2

\* Suspending and Retrying: the children are deleted before the cluster
\* name is cleared, so the cleared name owns no child; and a cache in
\* these states means the stored RayJob is no longer Initializing or
\* Running, so deleting its cluster takes nothing from a live attempt.
LEMMA SuspendingOrRetryingAttemptInv ==
    ASSUME TypeInv, AttemptInv, ReconcileSuspendingOrRetrying
    PROVE  AttemptInv'
<1>0. /\ store \in RayJobObject /\ CS \in Status
      /\ cluster \in [ClusterNames -> ClusterStates]
      /\ None \notin ClusterNames
  BY HandlerFacts
<1>1. /\ CS.deploy \in {"Suspending", "Retrying"}
      /\ cache' = cache /\ remote' = remote
      /\ cluster' = deleteClusterResources
  BY DEF ReconcileSuspendingOrRetrying
<1>2. store.status.deploy \notin {"Initializing", "Running"}
  BY <1>1 DEF AttemptInv, StatusFacts, CacheActive
<1>3. /\ \A c \in ClusterNames :
           cluster'[c] # "absent" => cluster[c] # "absent"
      /\ submitter'.state # "absent" => submitter.state # "absent"
      /\ submitter'.cluster = submitter.cluster
  <2>1. \/ submitter' = deleteSubmitterJob
        \/ submitter' = submitter
    BY DEF ReconcileSuspendingOrRetrying
  <2>. QED
    BY <1>1, <2>1, DeletionKeepsOwners
<1>4. CASE store' = store
  BY <1>1, <1>2, <1>3, <1>4
     DEF AttemptInv, StatusFacts, CacheNameLag, InitNotStarted, CacheActive,
         UnnamedBeforeStart, SubmissionFailedMeansNotStarted,
         LiveClustersNamed, SubmitterNamed, ClusterKept, RemoteKept, SCN, CS
<1>5. ASSUME NEW d \in {"Suspended", "New"},
             submitter' = deleteSubmitterJob, ClusterDeleted,
             SubmitterDeleted, Finish(ResetRunFields(CS, d))
      PROVE  AttemptInv'
  <2>. DEFINE reset == ResetRunFields(CS, d)
  <2>1. reset \in Status
    BY Zenon, <1>0, ResetKeepsType DEF reset
  <2>2. /\ reset.clusterName = None /\ reset.jobStatus = "NEW"
        /\ reset.reason = None /\ reset.deploy = d
    BY <1>0 DEF reset, ResetRunFields, Status
  <2>3. StatusFacts'
    <3>1. GoodWrite(reset)
      BY <1>1, <2>2, NoneIsNoReason DEF GoodWrite
    <3>2. StatusFacts
      BY DEF AttemptInv
    <3>. QED
      BY Zenon, <1>0, <1>1, <1>5, <2>1, <3>1, <3>2, StatusWriteKeeps
  <2>4. CASE /\ cache = store
             /\ store'.status.deploy \in {d, "Retrying"}
    <3>1. \A c \in ClusterNames : cluster[c] = "absent"
      <4>1. CN = SCN
        BY <2>4 DEF CN, SCN, CS
      <4>. QED
        BY <1>0, <1>5, <4>1 DEF ClusterDeleted, AttemptInv,
                                LiveClustersNamed
    <3>2. cluster' = cluster
      BY <1>1, <1>5 DEF deleteClusterResources
    <3>3. submitter'.state = "absent"
      BY <1>5 DEF deleteSubmitterJob, SubmitterDeleted
    <3>4. store'.status.deploy \notin {"Initializing", "Running"}
      BY <2>4
    <3>. QED
      BY <2>3, <3>1, <3>2, <3>3, <3>4
         DEF AttemptInv, LiveClustersNamed, SubmitterNamed, ClusterKept,
             RemoteKept
  <2>5. CASE store' = store
    BY <1>4, <2>5
  <2>6. \/ store' = store
        \/ /\ cache = store
           /\ \/ store'.status.deploy = reset.deploy
              \/ store'.status.deploy = "Retrying"
    BY Zenon, <1>0, <1>5, <2>1, WriteResult
  <2>. QED
    BY <2>2, <2>4, <2>5, <2>6
<1>. QED
  <2>1. PICK d \in {"Suspended", "New"} :
          d = IF CS.deploy = "Suspending" THEN "Suspended" ELSE "New"
    OBVIOUS
  <2>2. \/ store' = store
        \/ /\ submitter' = deleteSubmitterJob /\ ClusterDeleted
           /\ SubmitterDeleted /\ Finish(ResetRunFields(CS, d))
    BY Zenon, <2>1 DEF ReconcileSuspendingOrRetrying
  <2>. QED
    BY <1>4, <1>5, <2>2

\* Suspended: a resumed RayJob goes back to New, still naming no cluster.
LEMMA SuspendedAttemptInv ==
    ASSUME TypeInv, AttemptInv, ReconcileSuspended PROVE AttemptInv'
<1>0. /\ store \in RayJobObject /\ CS \in Status
  BY HandlerFacts
<1>. DEFINE new == [CS EXCEPT !.deploy = "New"]
<1>1. new \in Status
  <2>1. "New" \in DeployStatuses
    BY DEF DeployStatuses
  <2>. QED
    BY Zenon, <1>0, <2>1, DeployKeepsType DEF new
<1>2. /\ new.deploy = "New" /\ new.reason = CS.reason
      /\ new.jobStatus = CS.jobStatus /\ new.clusterName = CN
  BY Zenon, <1>0, DeployShape DEF new, CN, CS
<1>3. /\ cache' = cache /\ cluster' = cluster /\ remote' = remote
      /\ submitter' = submitter /\ Finish(new) /\ CS.deploy = "Suspended"
  BY DEF ReconcileSuspended, new
<1>4. StatusFacts'
  <2>1. cache = store => GoodWrite(new)
    BY <1>2, <1>3 DEF GoodWrite, AttemptInv, StatusFacts,
                      UnnamedBeforeStart, SubmissionFailedMeansNotStarted,
                      SCN, CS, CN
  <2>2. StatusFacts
    BY DEF AttemptInv
  <2>. QED
    BY Zenon, <1>0, <1>1, <1>3, <2>1, <2>2, StatusWriteKeeps
<1>5. \/ store' = store
      \/ SCN' = SCN /\ store'.status.deploy \in {new.deploy, "Retrying"}
  BY Zenon, <1>0, <1>1, <1>2, <1>3, SameNameWrite
<1>. QED
  BY <1>2, <1>3, <1>4, <1>5
     DEF AttemptInv, LiveClustersNamed, SubmitterNamed, ClusterKept,
         RemoteKept, SCN

\* Complete and Failed: the cluster is deleted only after the stored
\* RayJob has finished its attempt.
LEMMA FinishedAttemptInv ==
    ASSUME TypeInv, AttemptInv, ReconcileFinished PROVE AttemptInv'
<1>1. /\ CS.deploy \in Terminal
      /\ cluster' = deleteClusterResources
      /\ UNCHANGED <<store, cache, remote, submitter>>
  BY DEF ReconcileFinished
<1>2. store.status.deploy \notin {"Initializing", "Running"}
  BY <1>1 DEF AttemptInv, StatusFacts, CacheActive, Terminal
<1>3. \A c \in ClusterNames : cluster'[c] # "absent" => cluster[c] # "absent"
  BY <1>1, DeletionKeepsOwners
<1>. QED
  BY <1>1, <1>2, <1>3
     DEF AttemptInv, StatusFacts, CacheNameLag, InitNotStarted, CacheActive,
         UnnamedBeforeStart, SubmissionFailedMeansNotStarted,
         LiveClustersNamed, SubmitterNamed, ClusterKept, RemoteKept, SCN, CS

-----------------------------------------------------------------------------
(***************************************************************************)
(* The theorems.                                                           *)
(***************************************************************************)

\* Every handler of the reconciler keeps AttemptInv.
LEMMA ReconcileAttemptInv ==
    TypeInv /\ AttemptInv /\ Reconcile => AttemptInv'
BY NewAttemptInv, EarlyExitAttemptInv, CreateClusterAttemptInv,
   SubmitAttemptInv, RunningAttemptInv, SuspendingOrRetryingAttemptInv,
   SuspendedAttemptInv, FinishedAttemptInv DEF Reconcile

\* Every step of the system keeps the typing and AttemptInv.
LEMMA AttemptStep ==
    TypeInv /\ AttemptInv /\ [Next]_vars => TypeInv' /\ AttemptInv'
<1> SUFFICES ASSUME TypeInv, AttemptInv, [Next]_vars
             PROVE  TypeInv' /\ AttemptInv'
  OBVIOUS
<1>1. TypeInv'
  <2>1. CASE UNCHANGED vars
    BY <2>1 DEF TypeInv, TypeOK, vars, NamedIfActive
  <2>. QED
    BY <2>1, ReconcileTypeInv, EnvironmentTypeInv DEF Next
<1>2. AttemptInv'
  <2>1. CASE UNCHANGED vars
    BY <2>1 DEF vars, AttemptInv, StatusFacts, CacheNameLag, InitNotStarted,
                CacheActive, UnnamedBeforeStart,
                SubmissionFailedMeansNotStarted, LiveClustersNamed,
                SubmitterNamed, ClusterKept, RemoteKept, SCN, CS
  <2>. QED
    BY <2>1, ReconcileAttemptInv, EnvironmentAttemptInv DEF Next
<1>. QED
  BY <1>1, <1>2

\* A RayJob never has two RayClusters at once, for every set of cluster
\* names and every backoffLimit, however reconciles on a stale cache,
\* suspensions, retries and deletions interleave: the Suspending and
\* Retrying cases delete the previous cluster before the name is cleared,
\* and initRayJobStatusIfNeed names a new one only from an up-to-date cache.
THEOREM AtMostOneClusterHolds == Spec => []AtMostOneCluster
<1>. DEFINE IInv == TypeInv /\ AttemptInv
<1>1. Init => IInv
  BY InitTypeInv, InitAttemptInv
<1>2. IInv /\ [Next]_vars => IInv'
  BY AttemptStep
<1>3. IInv => AtMostOneCluster
  BY DEF AttemptInv, LiveClustersNamed, AtMostOneCluster
<1>. QED
  BY <1>1, <1>2, <1>3, PTL DEF Spec

\* createK8sJobIfNeed never makes a Running RayJob follow the submitter of
\* an earlier attempt: the submitter, while it exists, was created for the
\* stored cluster name, for every value of the constants.
THEOREM SubmitterOfCurrentAttemptHolds == Spec => []SubmitterOfCurrentAttempt
<1>. DEFINE IInv == TypeInv /\ AttemptInv
<1>1. Init => IInv
  BY InitTypeInv, InitAttemptInv
<1>2. IInv /\ [Next]_vars => IInv'
  BY AttemptStep
<1>3. IInv => SubmitterOfCurrentAttempt
  BY DEF AttemptInv, SubmitterNamed, SCN, SubmitterOfCurrentAttempt
<1>. QED
  BY <1>1, <1>2, <1>3, PTL DEF Spec

\* rayjob_retry_test "Failing submitter K8s Job", for every value of the
\* constants: checkK8sJobFailed fails a RayJob with reason SubmissionFailed
\* only when its Ray job never started, because the Ray job of a Running
\* RayJob that has seen it cannot vanish while the cluster is kept.
THEOREM SubmissionFailedMeansNotStartedHolds ==
    Spec => []SubmissionFailedMeansNotStarted
<1>. DEFINE IInv == TypeInv /\ AttemptInv
<1>1. Init => IInv
  BY InitTypeInv, InitAttemptInv
<1>2. IInv /\ [Next]_vars => IInv'
  BY AttemptStep
<1>3. IInv => SubmissionFailedMeansNotStarted
  BY DEF AttemptInv, StatusFacts
<1>. QED
  BY <1>1, <1>2, <1>3, PTL DEF Spec

=============================================================================
