-------------------------- MODULE CreateWorkerGroup --------------------------
(***************************************************************************)
(* `kubectl ray create workergroup NAME --ray-cluster C` (kubectl-plugin   *)
(* create_workergroup.go), run by several users at once against one        *)
(* RayCluster while the operator keeps writing the cluster's status.       *)
(*                                                                         *)
(* An invocation goes Complete -> Validate -> Run.  Run is split at its two *)
(* API calls: Get copies the stored object, Update sends the copy with the *)
(* new group appended.  The API server accepts the Update only if the      *)
(* copy's resourceVersion is still current; the CLI does not retry.        *)
(***************************************************************************)
EXTENDS DesiredReplicas, FiniteSets

CONSTANTS
    Invocations,     \* concurrent CLI invocations
    GroupNames,      \* worker-group names a user may pass as [WORKERGROUP]
    Counts,          \* replica counts
    Flags,           \* values of --worker-replicas/-min-replicas/-max-replicas
    InitialGroups,   \* the cluster's worker groups before any invocation
    MaxStatusWrites  \* bound on the operator's status writes

WorkerGroupSpecs ==
    [name: GroupNames, replicas: Counts \cup {Unset}, minReplicas: Counts,
     maxReplicas: Counts, suspend: BOOLEAN]

ASSUME CreateWorkerGroupAssumption ==
    /\ IsFiniteSet(Invocations)
    /\ Flags \subseteq [replicas: Counts, minReplicas: Counts,
                        maxReplicas: Counts]
    /\ InitialGroups \in Seq(WorkerGroupSpecs)
    /\ MaxStatusWrites \in Nat

VARIABLES
    cluster,        \* the RayCluster in the API server: resourceVersion, spec
    pc,             \* where each invocation is
    options,        \* CreateWorkerGroupOptions after Complete
    copy,           \* the object an invocation got (and deep-copied)
    statusWrites    \* status writes the operator has made

vars == <<cluster, pc, options, copy, statusWrites>>

RayClusters == [rv: Nat, groups: Seq(WorkerGroupSpecs)]
NoOptions == [groupName |-> Unset]
NoCopy == [rv |-> 0, groups |-> <<>>]
Options == [groupName: GroupNames, replicas: Counts, minReplicas: Counts,
            maxReplicas: Counts]

TypeOK ==
    /\ cluster \in RayClusters
    /\ pc \in [Invocations -> {"start", "completed", "validated", "fetched",
                               "updated", "failed"}]
    /\ options \in [Invocations -> Options \cup {NoOptions}]
    /\ copy \in [Invocations -> RayClusters]
    /\ statusWrites \in 0..MaxStatusWrites

Init ==
    /\ cluster = [rv |-> 1, groups |-> InitialGroups]
    /\ pc = [p \in Invocations |-> "start"]
    /\ options = [p \in Invocations |-> NoOptions]
    /\ copy = [p \in Invocations |-> NoCopy]
    /\ statusWrites = 0

\* A mutant: Complete without the len(args) check; with no argument the
\* group name stays empty.
CompleteWithoutArgCheck(p) ==
    /\ pc[p] = "start"
    /\ \E n \in GroupNames \cup {Unset}, f \in Flags :
           /\ options' = [options EXCEPT ![p] =
                             [groupName |-> n, replicas |-> f.replicas,
                              minReplicas |-> f.minReplicas,
                              maxReplicas |-> f.maxReplicas]]
           /\ pc' = [pc EXCEPT ![p] = "completed"]
    /\ UNCHANGED <<cluster, copy, statusWrites>>

\* Complete: exactly one argument, the group name; the replica flags keep
\* the values given (defaults 1/1/10), none is checked against another.
Complete(p) ==
    /\ pc[p] = "start"
    /\ \/ \E n \in GroupNames, f \in Flags :
            /\ options' = [options EXCEPT ![p] =
                              [groupName |-> n, replicas |-> f.replicas,
                               minReplicas |-> f.minReplicas,
                               maxReplicas |-> f.maxReplicas]]
            /\ pc' = [pc EXCEPT ![p] = "completed"]
       \/ /\ pc' = [pc EXCEPT ![p] = "failed"]    \* len(args) != 1
          /\ UNCHANGED options
    /\ UNCHANGED <<cluster, copy, statusWrites>>

\* Validate: the kubeconfig must load and name a current context.
Validate(p) ==
    /\ pc[p] = "completed"
    /\ \E ok \in BOOLEAN :
           pc' = [pc EXCEPT ![p] = IF ok THEN "validated" ELSE "failed"]
    /\ UNCHANGED <<cluster, options, copy, statusWrites>>

\* Run, up to the Get: the client is built and the RayCluster fetched and
\* deep-copied; a client or Get error ends the invocation.
Get(p) ==
    /\ pc[p] = "validated"
    /\ \/ /\ copy' = [copy EXCEPT ![p] = cluster]
          /\ pc' = [pc EXCEPT ![p] = "fetched"]
       \/ /\ pc' = [pc EXCEPT ![p] = "failed"]
          /\ UNCHANGED copy
    /\ UNCHANGED <<cluster, options, statusWrites>>

\* The WorkerGroupSpec Run builds from the options: replicas, minReplicas
\* and maxReplicas point at the flag values, suspend is nil.
NewWorkerGroup(p) ==
    [name |-> options[p].groupName, replicas |-> options[p].replicas,
     minReplicas |-> options[p].minReplicas,
     maxReplicas |-> options[p].maxReplicas, suspend |-> FALSE]

\* A mutant: an Update that overwrites the object whatever its version.
UpdateIgnoringResourceVersion(p) ==
    /\ pc[p] = "fetched"
    /\ cluster' = [rv |-> cluster.rv + 1,
                   groups |-> Append(copy[p].groups, NewWorkerGroup(p))]
    /\ pc' = [pc EXCEPT ![p] = "updated"]
    /\ UNCHANGED <<options, copy, statusWrites>>

\* Run, from the append on: the copy's groups plus the new one are sent;
\* a stale resourceVersion is a Conflict, returned as an error.
Update(p) ==
    /\ pc[p] = "fetched"
    /\ IF copy[p].rv = cluster.rv
          THEN /\ cluster' = [rv |-> cluster.rv + 1,
                              groups |-> Append(copy[p].groups,
                                                NewWorkerGroup(p))]
               /\ pc' = [pc EXCEPT ![p] = "updated"]
          ELSE /\ pc' = [pc EXCEPT ![p] = "failed"]
               /\ UNCHANGED cluster
    /\ UNCHANGED <<options, copy, statusWrites>>

\* The operator's status update bumps the resourceVersion, not the spec.
OperatorWritesStatus ==
    /\ statusWrites < MaxStatusWrites
    /\ cluster' = [cluster EXCEPT !.rv = @ + 1]
    /\ statusWrites' = statusWrites + 1
    /\ UNCHANGED <<pc, options, copy>>

Next ==
    \/ \E p \in Invocations :
           Complete(p) \/ Validate(p) \/ Get(p) \/ Update(p)
    \/ OperatorWritesStatus

Spec == Init /\ [][Next]_vars

Updated == {p \in Invocations : pc[p] = "updated"}

\* No lost update: every invocation that reported success added its group,
\* and the spec holds exactly the initial groups plus one per success, so
\* no concurrent invocation's Update overwrote another's.
NoLostWorkerGroup ==
    /\ Len(cluster.groups) = Len(InitialGroups) + Cardinality(Updated)
    /\ \A p \in Updated :
           \E i \in 1..Len(cluster.groups) :
               cluster.groups[i] = NewWorkerGroup(p)

\* spec.md section 3: worker-group names are unique within a cluster.  The
\* CLI appends the new group without looking at the existing names.
UniqueGroupNames ==
    \A i, j \in 1..Len(cluster.groups) :
        i # j => cluster.groups[i].name # cluster.groups[j].name

\* spec.md section 3: minReplicas <= maxReplicas is enforced upstream of
\* the reconciler.  The CLI writes the flag values unchecked.
BoundsOrdered ==
    \A i \in 1..Len(cluster.groups) :
        cluster.groups[i].minReplicas <= cluster.groups[i].maxReplicas

-----------------------------------------------------------------------------
(***************************************************************************)
(* Refinement: the two-call Run implements an atomic append.               *)
(***************************************************************************)

\* The group an invocation asks for, once Complete has parsed it.
Requests ==
    {[name |-> o.groupName, replicas |-> o.replicas,
      minReplicas |-> o.minReplicas, maxReplicas |-> o.maxReplicas,
      suspend |-> FALSE] : o \in Options}

RequestOf(p) == IF options[p] = NoOptions THEN Unset ELSE NewWorkerGroup(p)

ResultOf(p) ==
    CASE pc[p] = "updated" -> "created"
      [] pc[p] = "failed"  -> "failed"
      [] OTHER             -> "pending"

WG == INSTANCE WorkerGroupAppend
        WITH groups <- cluster.groups,
             request <- [p \in Invocations |-> RequestOf(p)],
             result <- [p \in Invocations |-> ResultOf(p)],
             Requests <- Requests,
             NoRequest <- Unset

\* Linearizability of Run: every step of the CLI invocations and the
\* operator is, on the RayCluster's groups, either no change or one
\* invocation appending exactly the group it parsed to the groups as they
\* are at that moment; the Get-then-Update gap never lets an Update write
\* back groups that another writer has changed since.
WorkerGroupAppendSpec == WG!Spec

=============================================================================
