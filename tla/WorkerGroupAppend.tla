-------------------------- MODULE WorkerGroupAppend --------------------------
(***************************************************************************)
(* What `kubectl ray create workergroup` promises, as an atomic operation: *)
(* an invocation takes its request from the command line, then either     *)
(* appends exactly that worker group to the RayCluster's groups in one     *)
(* step, or fails and leaves the groups alone.  No other writer changes    *)
(* the groups.  CreateWorkerGroup, where Run is a Get and a later Update   *)
(* racing other invocations and the operator, implements this.             *)
(***************************************************************************)
EXTENDS Sequences

CONSTANTS
    Invocations,    \* concurrent CLI invocations
    Requests,       \* the worker groups an invocation may ask for
    NoRequest,      \* no request parsed yet
    InitialGroups   \* the cluster's worker groups before any invocation

VARIABLES
    groups,   \* the RayCluster's worker groups
    request,  \* the group each invocation asks for
    result    \* "pending", "created" or "failed"

avars == <<groups, request, result>>

Init ==
    /\ groups = InitialGroups
    /\ request = [p \in Invocations |-> NoRequest]
    /\ result = [p \in Invocations |-> "pending"]

\* The command line is parsed into a request.
Request(p) ==
    /\ result[p] = "pending"
    /\ request[p] = NoRequest
    /\ \E r \in Requests : request' = [request EXCEPT ![p] = r]
    /\ UNCHANGED <<groups, result>>

\* The request's group is appended, atomically.
Commit(p) ==
    /\ result[p] = "pending"
    /\ request[p] \in Requests
    /\ groups' = Append(groups, request[p])
    /\ result' = [result EXCEPT ![p] = "created"]
    /\ UNCHANGED request

\* The invocation fails at any point before it commits.
Abort(p) ==
    /\ result[p] = "pending"
    /\ result' = [result EXCEPT ![p] = "failed"]
    /\ UNCHANGED <<groups, request>>

Next == \E p \in Invocations : Request(p) \/ Commit(p) \/ Abort(p)

Spec == Init /\ [][Next]_avars

=============================================================================
