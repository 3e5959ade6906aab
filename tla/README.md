# Formal models of KubeRay

This directory holds TLA+ models of parts of KubeRay, the TLC configurations
that model-check them and TLAPS proofs about them. The models cover four
things:

- the operator's RayJob state machine (spec.md §4.3);
- the desired-replica calculator (spec.md §4.1);
- the `kubectl ray create workergroup` command, and the atomic append it is
  proved to implement;
- the generated RayCluster informer (`pkg/client/informers/.../raycluster.go`)
  with the client-go reflector that drives it.

`PROJECT.json` lists the same material in machine-readable form: components,
runs, mutants, the map from definitions to source lines, findings, hazards
and theorems.

## The system and how its parts interact

- **The RayJob reconciler.**
  - It reads a RayJob from an informer cache. That cache can lag the API
    server.
  - It creates one RayCluster per attempt, and one submitter Kubernetes Job
    named after the RayJob.
  - It writes the RayJob status with optimistic concurrency: a write made
    from a stale copy is rejected.
  - The RayJob moves between these deployment statuses: New, Initializing,
    Running, Suspending, Suspended, Retrying, Complete and Failed.
  - It counts failed and succeeded attempts against `spec.backoffLimit`.
  - It also handles `spec.suspend`, `activeDeadlineSeconds` and
    `shutdownAfterJobFinishes`.
  - Three choices of the model where spec.md is loose, none of which a
    property depends on:
    - A resumed RayJob goes from Suspended to New, not straight to
      Initializing. The New handler then names a fresh cluster before
      Initializing, as `initRayJobStatusIfNeed` does.
    - The backoff check clears `reason` when it moves to Retrying. The
      Retrying reset clears it too.
    - The Running handler can finish the RayJob from the Ray job's status
      before the submitter Job completes. spec.md does not order the two.
- **The environment around the reconciler.**
  - The user edits `suspend` and deletes the RayJob.
  - The garbage collector deletes owned children.
  - The RayCluster controller makes clusters ready.
  - The Ray job runs inside the cluster.
  - The submitter's pods fail, up to `submitterConfig.backoffLimit`.
- **The desired-replica calculator.**
  - It clamps each worker group's `replicas` to `[minReplicas, maxReplicas]`.
  - It sums the clamped values over the groups, and also sums the minima and
    the maxima. A suspended group contributes 0.
- **`kubectl ray create workergroup`.**
  - It parses flags (Complete), validates them, Gets the RayCluster and
    appends a new group to a deep copy.
  - It Updates the object, with no retry on conflict.
  - Other invocations and the operator's status writes can run concurrently
    with it.
- **The RayCluster informer.**
  - The generated code builds a `ListWatch`: `ListFunc`, `WatchFunc` and their
    context variants apply `tweakListOptions` (a label selector) and call List
    or Watch in the informer's namespace.
  - The client-go reflector lists, replaces the indexer with the result, and
    watches from the list's resourceVersion. A closed watch is reopened from
    the last delivered event. An expired one (410 Gone) forces a new list.
  - The Lister reads the indexer through its namespace index. The RayJob
    model's `cache` is this informer seen from the reconciler.

The reconciler, the calculator and the RayCluster reconciler are not under
`src/`. For them, `src/` holds only their unit and e2e tests
(`rayjob_controller_unit_test.go`, `rayjob_retry_test.go`, `util_test.go`).

- RayJob and DesiredReplicas are therefore modelled from spec.md, and are
  marked `spec_modelled` in the map.
- Each of their definitions is checked against the behaviour those tests fix,
  and the map cites the test lines that pin each one down.
- `create_workergroup.go` and the informer's `raycluster.go` are under
  `src/` and are translated line by line. The API server and the client-go
  reflector around the informer are not code of this repository; their
  actions are marked `spec_modelled`.

## Modules

| Module | Models | State | Actions |
|---|---|---|---|
| `RayJob` | RayJob reconciler and its environment | `store`, `cache` (RayJob object: exists, suspend, status with deploy, jobStatus, reason, failed, succeeded, clusterName); `cluster[c]`, `remote[c]`, `submitter`, `deadlinePassed`, `used`, `suspendEdits` | one action per deployment-status handler (`ReconcileNew` … `ReconcileFinished`), each ending in `Finish` = `checkBackoffLimitAndUpdateStatusIfNeeded` then `updateRayJobStatus`; environment: `CacheSync`, `UserEditSuspend`, `UserDelete`, `DeadlineElapses`, `GarbageCollect`, `ClusterBecomesReady`, `ClusterRemoved`, `SubmitterSubmits`, `SubmitterPodFails`, `SubmitterSucceeds`, `SubmitterRemoved`, `RayJobProgresses` |
| `DesiredReplicas` | `GetWorkerGroupDesiredReplicas`, `CalculateDesiredReplicas`, `CalculateMinReplicas`, `CalculateMaxReplicas` | pure operators over a sequence of group records | — |
| `CreateWorkerGroup` | `create_workergroup.go` Complete / Validate / Run | `cluster` (resourceVersion, groups), per invocation `pc`, `options`, `copy`; `statusWrites` | `Complete(p)`, `Validate(p)`, `Get(p)`, `NewWorkerGroup(p)`, `Update(p)`, `OperatorWritesStatus` |
| `WorkerGroupAppend` | what `create workergroup` promises | `groups`, per invocation `request`, `result` | `Request(p)`, `Commit(p)` (append in one step), `Abort(p)` |
| `RayClusterInformer` | `raycluster.go` ListWatch, informer and Lister; the reflector; the API server | `store`; `log` (every write with its old value and the snapshot after it, i.e. the etcd revisions); reflector `phase`, `pos` (last synced resourceVersion), `watchFilter`; `cache` (the indexer); `watchErrors` | `ServerWrite` (create, relabel, delete), `List` (via `ListFunc`/`ListWithContextFunc`, then Replace), `Watch` (via `WatchFunc`/`WatchFuncWithContext`), `Deliver` (the server's watch filter turns a write into ADDED/MODIFIED/DELETED or nothing), `WatchClosed`, `WatchExpired` |
| `RayJobProofs` | TLAPS proofs about `RayJob` (typing, retry accounting, counters, deadline) | — | — |
| `RayJobAttemptProofs` | TLAPS proofs that a RayJob's children belong to its current attempt | — | — |
| `RayClusterInformerProofs` | TLAPS proof that the Lister reads the synced state | — | — |
| `CreateWorkerGroupProofs` | TLAPS proofs that `CreateWorkerGroup` implements `WorkerGroupAppend`, is well typed and loses no worker group | — | — |
| `DesiredReplicasProofs` | TLAPS proof that the per-group calculator picks the nearest count in the bounds | — | — |
| `MC_*` | TLC instances | model values and symmetry | — |

Notes on the RayJob model:

- A status write succeeds only when the status changed and `cache = store`.
  That is the resourceVersion check.
- `CacheSync` lets the informer catch up at any moment.
- The backoff accounting runs inside every handler's write, as the code
  does:
  - A Failed status counts a failure. It becomes Retrying when the failure
    was not a deadline and the new count is still below `backoffLimit + 1`.
  - A Complete status with a SUCCEEDED job counts a success.
- Cluster names are drawn from the finite set `ClusterNames`, and `used` keeps
  a name from being generated twice.

## Runs

| Run | Checks | Shows |
|---|---|---|
| `rayjob_safety` (`MC_RayJob.cfg`) | `TypeOK`, `AttemptsBounded`, `AttemptsInductive`, `BackoffRespected`, `AtMostOneCluster`, `SubmitterOfCurrentAttempt`, `SubmissionFailedMeansNotStarted`, action properties `DeadlineFailsJob`, `CountersMonotonic` | retry accounting, one cluster at a time, no adoption of an earlier attempt's submitter, and the deadline, under a lagging cache, conflicting writes, suspend/resume, submitter pod failures and deletion |
| `rayjob_attempt_inductive` (`MC_RayJobAttempt.cfg`) | `AttemptInductive` | the same instance as `rayjob_safety` keeps `TypeInv /\ AttemptInv`, the inductive invariant of the attempt theorems below, so it was model-checked before it was proved |
| `rayjob_liveness` (`MC_RayJob_live.cfg`) | `SuspendCompletes`, `RetryRestarts`, `ShutdownReleasesCluster`, `DeletionCascades` | suspend and retry finish their teardown; a finished job releases its cluster; after the RayJob is deleted, its cluster and submitter are eventually gone, including children the reconciler created from its stale cache after the delete |
| `desired_replicas_reference` | `TypeOK`, `DesiredMatchesReference`, `AggregateWithinBounds` | the clamp equals a nearest-value-in-range reference on every group with counts 0..3 (inverted bounds give max, as `util_test.go` expects); min ≤ desired ≤ max in aggregate when each group is well formed |
| `create_workergroup_no_lost_update` | `TypeOK`, `NoLostWorkerGroup`, `WorkerGroupAppendSpec` | two concurrent invocations and an operator status write never lose a group that an invocation reported as created; under the refinement mapping (groups ← `cluster.groups`, request ← the group built from the parsed options, result ← `updated`/`failed`/pending) every step is a step of `WorkerGroupAppend` or a stutter |
| `informer_lister_synced` (`MC_RayClusterInformer.cfg`) | `ListerReadsSyncedState`, `CacheConverges` | with a `tweakListOptions` selector, two namespaces and two labels, the Lister returns exactly the selected object at the last synced resourceVersion across lists, relists after 410 Gone and reopened watches; once writes stop the cache equals the selected part of the server's state |
| `create_workergroup_unique_names` (violation) | `UniqueGroupNames` | the CLI stores a second group with a name already in use |
| `create_workergroup_bounds` (violation) | `BoundsOrdered` | the CLI stores `minReplicas > maxReplicas` |

### Findings

The two violation runs are findings.

- **Duplicate group names.** `create_workergroup.go:168` appends the new group
  without comparing its name with the existing ones. spec.md §3 states that
  group names are unique.
- **Unordered bounds.** `create_workergroup.go:162` stores the min/max flags
  unchecked. spec.md §3 says the ordering is "enforced upstream", and this
  CLI is an upstream writer that does not enforce it.

### Bounds, and why they are enough

- **`MC_RayJob` bounds:**
  - `BackoffLimit = 1`, so there are two attempts. One retry exercises the
    Retrying path, the counter reset of each run and the final Failed.
    `BackoffRespected` compares against `BackoffLimit + 1`, so an off-by-one
    in either direction shows.
  - `SubmitterBackoffLimit = 1` lets a submitter fail once and then fail the
    Job.
  - `MaxSuspendEdits = 2` allows one suspend and one resume.
  - There are three cluster names, enough for the first attempt, a retry and
    a resume.
  - The safety run uses symmetry over the cluster names. The liveness run
    does not, because symmetry is unsound for liveness.
  - `deadlinePassed` is one Boolean.
- **`MC_DesiredReplicas` bounds:**
  - It enumerates every sequence of up to two groups, with counts in 0..3,
    `Unset` replicas and both values of suspend.
  - Every ordering of replicas, min and max occurs, equal values included.
- **`MC_CreateWorkerGroup` bounds:**
  - There are two invocations and one operator status write.
  - Two flag vectors give one well-ordered group and one inverted group, and
    two names (one already in use) are offered.
  - That is enough for the lost update, since a second writer is needed and a
    third adds nothing.
  - The CLI runs stop once both invocations finish. That is why
    `CHECK_DEADLOCK` is FALSE.
- **`MC_RayClusterInformer` bounds:**
  - Two RayClusters in two namespaces, the informer watching one of them, two
    labels with a selector accepting one: every write can be in or out of
    scope, and can move an object into or out of scope.
  - Four writes (create, relabel out of the selector, relabel back, delete)
    and two watch errors, enough for a closed watch and an expiry to fall
    between any two writes.
  - The run stops when the write and error bounds are spent and the cache has
    caught up, so `CHECK_DEADLOCK` is FALSE.

### Mutants

Every property of every passing run has a mutant in `PROJECT.json`. A mutant
is a plausible bug in the modelled code, and TLC must find the property
violated when the mutant replaces the code. The mutants are:

- retry one attempt more or one attempt less;
- ignore the deadline on retry;
- treat a cluster deletion as done once it is issued;
- adopt a submitter whose deletion is only issued;
- fail the submission while a Ray job exists;
- reset the counters on suspend;
- count suspended groups in the minimum;
- clamp before the Unset default;
- update ignoring the resourceVersion;
- the garbage collector removing only the cluster, not the submitter Job;
- a `WatchFunc` that forgets `tweakListOptions`;
- a watch that holds back the newest event.

## Fairness

`Spec` assumes weak fairness of:

- every reconcile handler;
- `CacheSync`;
- `GarbageCollect`;
- `SubmitterRemoved`;
- `ClusterRemoved(c)` and `ClusterBecomesReady(c)`.

These assumptions match how the code is scheduled:

- The controller-runtime work queue requeues a key after every error or
  requeue result. A handler that stays enabled is therefore eventually run.
- Informers keep watching, so the cache eventually catches up.
- Kubernetes finishes deletions and the RayCluster controller makes clusters
  ready.

Some actions get no fairness:

- User actions (`UserEditSuspend`, `UserDelete`).
- The Ray job's progress.
- The submitter pods' failures.

The liveness properties hold even if none of these ever happen again.

The informer's `Spec` assumes weak fairness of `List`, `Watch` and
`Deliver`: the reflector's ListAndWatch loop runs for the informer's lifetime
and the API server keeps streaming events on an open watch. Server writes and
watch errors get no fairness.

## What is proved

`RayJobProofs.tla` proves six theorems with TLAPS. All hold for every finite
set of cluster names and every natural `BackoffLimit`, `SubmitterBackoffLimit`
and `MaxSuspendEdits`; these are the assumptions of `ConstantsAssumption`,
which also says that `None` is neither a cluster name nor one of the reason
strings (it is the Go empty string).

- **`TypeCorrect`: `Spec => []TypeOK`.**
  - `TypeOK` alone is not inductive. The submitter and the `remote[CN]` read
    are typed only when the cached RayJob's cluster name is a real name.
  - The inductive invariant is `TypeInv == TypeOK /\ NamedIfActive(store.status)
    /\ NamedIfActive(cache.status)`. Here `NamedIfActive` says that an
    Initializing or Running RayJob names a cluster.
  - The proof has one lemma per shape of status update, for example
    `DeployKeepsType`, `FinishKeepsType` and `ResetKeepsType`.
  - It has one case per handler in `ReconcileTypeInv`, and one per
    environment action in `EnvironmentTypeInv`.
- **`AttemptsBoundedHolds`: `Spec => []AttemptsBounded`.** The stored
  `failed + succeeded` never exceeds `backoffLimit + 1`.
  - `AttemptsBounded` is not inductive either. A non-terminal status with
    `failed = backoffLimit + 1` satisfies it, yet the next failure would
    break it.
  - The invariant used is `TypeInv /\ Accounted(store.status)`, where
    `Accounted` is `AttemptsInductive`: an unfinished RayJob has
    `failed <= backoffLimit` and `succeeded = 0`, and a finished one stays
    within `backoffLimit + 1`.
  - `BackoffKeepsAccount`: `checkBackoffLimitAndUpdateStatusIfNeeded` counts
    at most one attempt and retries only while the limit allows.
  - `FinishKeepsAccount`: a status write either fails, because the cache is
    stale, or starts from the stored status itself.
  - `CachedCounters` and `WriteKeepsAccount`: every handler writes back the
    cached status of an unfinished RayJob with its counters untouched.
  - `ReconcileWrites`: every handler either leaves the stored RayJob alone
    or ends in `Finish(new)`, where `new` carries the cached counters of an
    unfinished RayJob (`CachedWrite`). `ReconcileKeepsAccount` and the later
    theorems are built on this one case analysis.
  - `EnvironmentKeepsStatus`: the environment never writes the status.
  - `AccountStep`: every step keeps `TypeInv /\ Accounted(store.status)`.
- **`AttemptsInductiveHolds`: `Spec => []AttemptsInductive`.** With the typing,
  the retry accounting is inductive as it stands. TLC checks it in
  `rayjob_safety`, so the strengthening was model-checked before it was
  proved.
- **`CountersMonotonicHolds`: `Spec => CountersMonotonic`.** This is an action
  property: no step lowers `failed` or `succeeded`.
  - `WriteCountsUp`: a write that persists starts from the stored counters,
    because the cache is up to date.
  - `BackoffCountsUp`: `checkBackoffLimitAndUpdateStatusIfNeeded` only adds.
  - The suspend and retry resets (`ResetRunFields`) keep the counters.
- **`BackoffRespectedHolds`: `Spec => []BackoffRespected`.** A RayJob that is
  Failed for `AppFailed` or `SubmissionFailed` has `failed = backoffLimit + 1`.
  - The inductive invariant is `TypeInv /\ Accounted /\ Exhausted`.
    `Exhausted` is `BackoffRespected` read as a predicate of a status.
  - `BackoffExhausts`: such a failure is kept only when `failed + 1` has
    reached `backoffLimit + 1`. It cannot pass it, because the status it
    counts from is unfinished, so `Accounted` bounds its `failed` by
    `backoffLimit`.
- **`DeadlineFailsJobHolds`: `Spec => DeadlineFailsJob`.** This is an action
  property: past the deadline, an Initializing or Running RayJob leaves that
  state only for Failed or Suspending.
  - `ChangedWriteIsCurrent`: a write that changes the status came from an
    up-to-date cache. So the handler that wrote it saw the stored
    JobDeploymentStatus.
  - The early exit (`NoEarlyExit`) disables the submit and Running handlers.
  - `EarlyExitDeploy`: `checkBackoffLimitAndUpdateStatusIfNeeded` keeps
    Suspending and a `DeadlineExceeded` failure as they are
    (`BackoffKeepsDeploy`).

`RayJobAttemptProofs.tla` proves the three remaining RayJob invariants of
`rayjob_safety`, under the same assumptions:

- **`AtMostOneClusterHolds`: `Spec => []AtMostOneCluster`.**
- **`SubmitterOfCurrentAttemptHolds`: `Spec => []SubmitterOfCurrentAttempt`.**
- **`SubmissionFailedMeansNotStartedHolds`:
  `Spec => []SubmissionFailedMeansNotStarted`.**

None of them is inductive: a reconcile runs on a cache that may lag the
store, and may create, delete or judge children by an old cluster name. The
three share the inductive invariant `TypeInv /\ AttemptInv`, which
`rayjob_attempt_inductive` checks. Its conjuncts say that the cache is at
most one write behind the store, and what that means for the children:

- `CacheNameLag`: a cache whose cluster name differs from the stored one is
  New, Suspending or Retrying. Only those handlers change the name, and a
  write persists only from an up-to-date cache. So the handlers that create
  a cluster or a submitter (Initializing) always use the stored name
  (`CurrentName`).
- `CacheActive`: a stored Initializing or Running RayJob has a cache in New,
  Initializing or Running. So the handlers that delete the cluster
  (Suspending, Retrying, Complete, Failed) never act on a live attempt.
- `InitNotStarted` and `UnnamedBeforeStart`: an Initializing RayJob has
  JobStatus NEW, and a New or Suspended one names no cluster.
- `LiveClustersNamed` and `SubmitterNamed`: every cluster and submitter that
  exists belongs to the stored cluster name. Suspending and Retrying clear
  the name only once both children are gone, and a New RayJob has no
  children when `initRayJobStatusIfNeed` names its cluster
  (`NewHasNoChildren`). This gives `AtMostOneCluster` and
  `SubmitterOfCurrentAttempt`.
- `ClusterKept` and `RemoteKept`: the cluster of an Initializing or Running
  RayJob is not being deleted, and a Running RayJob that has seen its Ray job
  still finds it. So `checkK8sJobFailed` (no Ray job found) persists
  SubmissionFailed only for a job whose status is still NEW.
  `SubmissionFailedMeansNotStarted` is itself a conjunct.

The proof has one lemma per handler (`NewAttemptInv` … `FinishedAttemptInv`)
and one for the environment. They share three lemmas:

- `WriteResult`: a write either fails or came from an up-to-date cache. The
  backoff check (`BackoffShape`) keeps the cluster name and job status and
  may turn a failure into Retrying with no reason.
- `StatusWriteKeeps`: a write keeps the status facts when what it writes is
  a `GoodWrite`.
- `SameNameWrite`: a write that keeps the cached name keeps the stored one.

The assumption that `None` is not `"SubmissionFailed"` is needed. Without
it, a retried failure would store reason `None` with a started job.

`RayClusterInformerProofs.tla` proves **`ListerCorrect`:
`Spec => []ListerReadsSyncedState`** for every finite set of names, every
set of namespaces and labels, and any `tweakListOptions`
(`InformerAssumption`).

- The inductive invariant `InformerInv` says:
  - `LogOK`: each log entry records the value it overwrote and the snapshot
    it produced, so `StateAt(k)` is the server's state at revision `k`;
  - the store is the last snapshot;
  - the cache is the selected part of the snapshot at `pos`;
  - an open watch filters by the selection.
- `ListWatchIsSelection`: all four ListWatch functions list or watch exactly
  the selection.
- `ApplyIsView`: delivering the next write through that filter moves the cache
  from the view of one snapshot to the view of the next.
- The other lemmas are `WriteInv`, `ListInv`, `WatchInv`, `DeliverInv`,
  `WatchErrorInv` and `NextInv`.
- TLC checked `InformerInv` as an invariant of the run before it was proved.

`CreateWorkerGroupProofs.tla` proves **`ImplementsWorkerGroupAppend`:
`Spec => WorkerGroupAppendSpec`** (`WG!Spec`), where `WG` is `WorkerGroupAppend` under the refinement
mapping. It holds for any set of invocations, names, counts and flag vectors.

- The invariant `RInv` is `TypeOK` plus two facts:
  - `CopyOK`: a fetched copy is never newer than the cluster, and a copy as
    new as the cluster holds its groups. Every write bumps the
    resourceVersion, so this is what makes a successful Update append to the
    current groups.
  - `OptionsOK`: parsed options exist from Complete on.
- There is one step lemma per action:
  - `CompleteStep`: a Request or an Abort;
  - `ValidateStep` and `GetStep`: a stutter or an Abort;
  - `UpdateStep`: a Commit or an Abort;
  - `OperatorStep`: a stutter.
- The theorem combines `Init => WG!Init` with `RefinementStep`:
  `RInv /\ [Next]_vars => RInv' /\ [WG!Next]_WG!avars`.
- **`CreateWorkerGroupTypeCorrect`: `Spec => []TypeOK`** follows from the same
  step lemma.
- **`NoLostWorkerGroupHolds`: `Spec => []NoLostWorkerGroup`.** It holds for
  any number of concurrent invocations. TLC checked the inductive invariant
  `RInv /\ NoLostWorkerGroup` before it was proved.
  - `NoLostCommit`: a successful Update appends the invocation's group to the
    current groups, by `CopyOK`.
    - The invocation was not yet in `Updated`, so `Cardinality(Updated)`
      grows by one (`FS_AddElement`).
    - `Append` keeps the groups of the earlier successful invocations at
      their indices.
  - `NoLostOther`: any other step of an invocation leaves the groups, the
    set `Updated` and the options of every successful invocation alone.
    Options change only in Complete, at `start`.

`DesiredReplicasProofs.tla` proves two theorems about the Desired-Replica
Calculator, for every group with natural counts.

- **`DesiredIsNearest`.** `GetWorkerGroupDesiredReplicas(g) = RefDesired(g)`:
  - a suspended group wants 0;
  - inverted bounds give `maxReplicas`;
  - otherwise the result is the count of `[minReplicas, maxReplicas]` nearest
    to `replicas`, or to `minReplicas` when unset.
- The proof rests on two lemmas:
  - `ClampIsNearest`: the clamped count lies in the bounds and is strictly
    nearer than every other count there.
  - `ChooseNearest`: the reference's `CHOOSE` therefore picks it.
- **`DesiredMatchesReferenceHolds`.** This is the run's invariant
  `DesiredMatchesReference`, for every set `Counts` of naturals
  (`CountsAssumption`).

## What is only model-checked

- **Liveness.** `SuspendCompletes`, `RetryRestarts`,
  `ShutdownReleasesCluster`, `DeletionCascades` and `CacheConverges` rest on
  fairness and ENABLED, which TLAPS cannot handle here.
- **The aggregate sums.** `GroupSum`, behind `AggregateWithinBounds`, is a
  recursive function over a sequence with an operator parameter.
  - Proving what it computes for every input needs induction over data.
  - It also needs the recursive function to be shown well defined. Both go
    through library theorems that take an operator parameter, which the
    installed provers cannot instantiate.
  - The per-group calculator is proved (see above).

## Not modelled, and next steps

- **The RayCluster Pod/Service reconciler.** It is not under `src/`. Its
  helpers in `util_test.go` (`CheckAllPodsRunning`,
  `CalculateAvailableReplicas`) are the next module.
- **The `kubectl ray session` port-forward reconnect** after the head pod is
  replaced. Only the e2e test is in the repository. The command's source is
  not, and spec.md does not describe it, so there is nothing to translate.
- **Name generation and YAML generation.** These are string formatting with
  no control-relevant state.
- **Informer resync and the shared-informer factory.** The resync period
  re-delivers the indexer's own objects and changes nothing a Lister returns.
- **RayJob events and the HTTP submission mode.**
