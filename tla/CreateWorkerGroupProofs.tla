----------------------- MODULE CreateWorkerGroupProofs -----------------------
(***************************************************************************)
(* Proof that `kubectl ray create workergroup`, run by any number of       *)
(* concurrent invocations against a RayCluster whose status the operator   *)
(* keeps writing, implements the atomic append of WorkerGroupAppend.        *)
(*                                                                         *)
(* The argument: an Update succeeds only when the invocation's copy has    *)
(* the cluster's current resourceVersion, and every write bumps the        *)
(* resourceVersion, so a copy with the current resourceVersion has the     *)
(* current groups (CopyOK).  The successful Update therefore appends to    *)
(* the groups as they are, which is a Commit of the abstract spec; every   *)
(* other step is a Request, an Abort, or leaves the abstract state alone.  *)
(***************************************************************************)
EXTENDS CreateWorkerGroup, FiniteSetTheorems, TLAPS

\* A fetched copy is never newer than the cluster, and a copy as new as the
\* cluster holds the cluster's groups.
CopyOK ==
    \A p \in Invocations :
        pc[p] = "fetched" =>
            /\ copy[p].rv <= cluster.rv
            /\ copy[p].rv = cluster.rv => copy[p].groups = cluster.groups

\* Complete has parsed the options of every invocation past it.
OptionsOK ==
    \A p \in Invocations :
        /\ pc[p] = "start" => options[p] = NoOptions
        /\ pc[p] \in {"completed", "validated", "fetched", "updated"}
              => options[p] \in Options

RInv == TypeOK /\ CopyOK /\ OptionsOK

-----------------------------------------------------------------------------

\* Parsed options are never NoOptions.
LEMMA ParsedOptions ==
    ASSUME NEW o \in Options
    PROVE  o # NoOptions
<1>1. "replicas" \in DOMAIN o
  BY DEF Options
<1>2. "replicas" \notin DOMAIN NoOptions
  BY DEF NoOptions
<1>. QED
  BY <1>1, <1>2

\* The group Run builds from parsed options is a worker group and a request.
LEMMA NewWorkerGroupType ==
    ASSUME NEW p \in Invocations, options[p] \in Options
    PROVE  /\ NewWorkerGroup(p) \in WorkerGroupSpecs
           /\ NewWorkerGroup(p) \in Requests
           /\ RequestOf(p) = NewWorkerGroup(p)
<1>1. options[p] # NoOptions
  BY ParsedOptions
<1>2. NewWorkerGroup(p) \in WorkerGroupSpecs
  BY DEF NewWorkerGroup, WorkerGroupSpecs, Options
<1>3. NewWorkerGroup(p) \in Requests
  BY Zenon DEF NewWorkerGroup, Requests
<1>4. RequestOf(p) = NewWorkerGroup(p)
  BY <1>1 DEF RequestOf
<1>. QED
  BY <1>2, <1>3, <1>4

LEMMA InitRInv == Init => RInv
<1> SUFFICES ASSUME Init PROVE RInv
  OBVIOUS
<1>1. TypeOK
  BY CreateWorkerGroupAssumption
  DEF Init, TypeOK, RayClusters, NoOptions, NoCopy, Options
<1>2. CopyOK /\ OptionsOK
  BY DEF Init, CopyOK, OptionsOK
<1>. QED
  BY <1>1, <1>2 DEF RInv

\* The abstract state under the refinement mapping.
Req == [q \in Invocations |-> RequestOf(q)]
Res == [q \in Invocations |-> ResultOf(q)]

\* An invocation that has not reached an end is pending.
LEMMA PendingResult ==
    ASSUME NEW q \in Invocations,
           pc[q] \in {"start", "completed", "validated", "fetched"}
    PROVE  ResultOf(q) = "pending"
BY DEF ResultOf

\* A step that changes only the pc of p, and not to an end, leaves the
\* abstract state alone.
LEMMA InnerStep ==
    ASSUME TypeOK, NEW p \in Invocations,
           pc[p] \in {"start", "completed", "validated", "fetched"},
           NEW s \in {"start", "completed", "validated", "fetched"},
           pc' = [pc EXCEPT ![p] = s],
           UNCHANGED <<cluster, options>>
    PROVE  UNCHANGED WG!avars
<1>1. Res' = Res
  BY DEF Res, ResultOf, TypeOK
<1>2. Req' = Req
  BY DEF Req, RequestOf, NewWorkerGroup
<1>. QED
  BY <1>1, <1>2 DEF WG!avars, Req, Res

\* A step that ends p in failure and changes nothing else the abstract spec
\* sees is an Abort.
LEMMA AbortStep ==
    ASSUME TypeOK, NEW p \in Invocations,
           pc[p] \in {"start", "completed", "validated", "fetched"},
           pc' = [pc EXCEPT ![p] = "failed"],
           UNCHANGED <<cluster, options>>
    PROVE  WG!Abort(p)
<1>1. Res[p] = "pending"
  BY PendingResult DEF Res
<1>2. Res' = [Res EXCEPT ![p] = "failed"]
  <2>1. ResultOf(p)' = "failed"
    BY DEF ResultOf, TypeOK
  <2>2. ASSUME NEW q \in Invocations \ {p} PROVE ResultOf(q)' = ResultOf(q)
    <3>1. pc'[q] = pc[q]
      BY DEF TypeOK
    <3>. QED
      BY <3>1, Zenon DEF ResultOf
  <2>. QED
    BY <2>1, <2>2, Zenon DEF Res
<1>3. Req' = Req
  BY DEF Req, RequestOf, NewWorkerGroup
<1>. QED
  BY <1>1, <1>2, <1>3, Zenon DEF WG!Abort, Req, Res

\* The group built from parsed options is a request.
LEMMA GroupIsRequest ==
    ASSUME NEW o \in Options
    PROVE  [name |-> o.groupName, replicas |-> o.replicas,
            minReplicas |-> o.minReplicas, maxReplicas |-> o.maxReplicas,
            suspend |-> FALSE] \in Requests
BY Zenon DEF Requests

\* Complete parses the command line (a Request) or rejects it (an Abort).
LEMMA CompleteStep ==
    ASSUME RInv, NEW p \in Invocations, Complete(p)
    PROVE  RInv' /\ [WG!Next]_WG!avars
<1>1. pc[p] = "start" /\ options[p] = NoOptions
  BY DEF Complete, RInv, OptionsOK
<1>2. UNCHANGED <<cluster, copy, statusWrites>>
  BY DEF Complete
<1>3. CASE \E n \in GroupNames, f \in Flags :
              /\ options' = [options EXCEPT ![p] =
                                [groupName |-> n, replicas |-> f.replicas,
                                 minReplicas |-> f.minReplicas,
                                 maxReplicas |-> f.maxReplicas]]
              /\ pc' = [pc EXCEPT ![p] = "completed"]
  <2>1. PICK n \in GroupNames, f \in Flags :
              /\ options' = [options EXCEPT ![p] =
                                [groupName |-> n, replicas |-> f.replicas,
                                 minReplicas |-> f.minReplicas,
                                 maxReplicas |-> f.maxReplicas]]
              /\ pc' = [pc EXCEPT ![p] = "completed"]
    BY <1>3, Zenon
  <2>. DEFINE o == [groupName |-> n, replicas |-> f.replicas,
                    minReplicas |-> f.minReplicas, maxReplicas |-> f.maxReplicas]
              r == [name |-> o.groupName, replicas |-> o.replicas,
                    minReplicas |-> o.minReplicas, maxReplicas |-> o.maxReplicas,
                    suspend |-> FALSE]
  <2>2. o \in Options
    BY CreateWorkerGroupAssumption DEF Options
  <2>3. TypeOK'
    BY <1>2, <2>1, <2>2 DEF RInv, TypeOK
  <2>4. CopyOK'
    BY <1>2, <2>1 DEF RInv, TypeOK, CopyOK
  <2>5. OptionsOK'
    BY <2>1, <2>2 DEF RInv, TypeOK, OptionsOK
  <2>6. Res[p] = "pending" /\ Res' = Res
    BY <1>1, <2>1 DEF Res, ResultOf, RInv, TypeOK
  <2>7. Req[p] = Unset
    BY <1>1 DEF Req, RequestOf
  <2>8. Req' = [Req EXCEPT ![p] = r]
    <3>1. RequestOf(p)' = r
      <4>1. options'[p] = o
        BY <2>1 DEF RInv, TypeOK
      <4>2. o # NoOptions
        BY <2>2, ParsedOptions
      <4>. QED
        BY <4>1, <4>2 DEF RequestOf, NewWorkerGroup
    <3>2. ASSUME NEW q \in Invocations \ {p}
          PROVE  RequestOf(q)' = RequestOf(q)
      BY <2>1 DEF RequestOf, NewWorkerGroup, RInv, TypeOK
    <3>. QED
      BY <3>1, <3>2, Zenon DEF Req
  <2>9. r \in Requests
    BY <2>2, GroupIsRequest
  <2>10. WG!Request(p)
    BY <1>2, <2>6, <2>7, <2>8, <2>9, Zenon DEF WG!Request, Req, Res
  <2>. QED
    BY <2>3, <2>4, <2>5, <2>10 DEF RInv, WG!Next
<1>4. CASE pc' = [pc EXCEPT ![p] = "failed"] /\ UNCHANGED options
  <2>1. RInv'
    BY <1>2, <1>4 DEF RInv, TypeOK, CopyOK, OptionsOK
  <2>2. WG!Abort(p)
    <3>1. UNCHANGED <<cluster, options>> /\ TypeOK
      BY <1>2, <1>4 DEF RInv
    <3>2. pc[p] \in {"start", "completed", "validated", "fetched"}
      BY <1>1
    <3>. QED
      BY <1>4, <3>1, <3>2, AbortStep, Zenon
  <2>. QED
    BY <2>1, <2>2 DEF WG!Next
<1>. QED
  BY <1>3, <1>4 DEF Complete

\* Validate passes (no change the abstract spec sees) or fails (an Abort).
LEMMA ValidateStep ==
    ASSUME RInv, NEW p \in Invocations, Validate(p)
    PROVE  RInv' /\ [WG!Next]_WG!avars
<1>1. /\ pc[p] = "completed"
      /\ UNCHANGED <<cluster, options, copy, statusWrites>>
  BY DEF Validate
<1>2. PICK ok \in BOOLEAN :
        pc' = [pc EXCEPT ![p] = IF ok THEN "validated" ELSE "failed"]
  BY Zenon DEF Validate
<1>3. CASE ok
  <2>1. pc' = [pc EXCEPT ![p] = "validated"]
    BY <1>2, <1>3
  <2>2. RInv'
    BY <1>1, <2>1 DEF RInv, TypeOK, CopyOK, OptionsOK
  <2>3. UNCHANGED WG!avars
    <3>1. TypeOK /\ UNCHANGED <<cluster, options>>
      BY <1>1 DEF RInv
    <3>. QED
      BY <1>1, <2>1, <3>1, InnerStep, Zenon
  <2>. QED
    BY <2>2, <2>3
<1>4. CASE ~ok
  <2>1. pc' = [pc EXCEPT ![p] = "failed"]
    BY <1>2, <1>4
  <2>2. RInv'
    BY <1>1, <2>1 DEF RInv, TypeOK, CopyOK, OptionsOK
  <2>3. WG!Abort(p)
    <3>1. TypeOK /\ UNCHANGED <<cluster, options>>
      BY <1>1 DEF RInv
    <3>. QED
      BY <1>1, <2>1, <3>1, AbortStep, Zenon
  <2>. QED
    BY <2>2, <2>3 DEF WG!Next
<1>. QED
  BY <1>3, <1>4

\* Get copies the cluster (no change the abstract spec sees) or fails.
LEMMA GetStep ==
    ASSUME RInv, NEW p \in Invocations, Get(p)
    PROVE  RInv' /\ [WG!Next]_WG!avars
<1>1. /\ pc[p] = "validated"
      /\ UNCHANGED <<cluster, options, statusWrites>>
  BY DEF Get
<1>2. CASE /\ copy' = [copy EXCEPT ![p] = cluster]
           /\ pc' = [pc EXCEPT ![p] = "fetched"]
  <2>1. TypeOK'
    BY <1>1, <1>2 DEF RInv, TypeOK
  <2>2. CopyOK'
    <3> SUFFICES ASSUME NEW q \in Invocations, pc'[q] = "fetched"
                 PROVE  /\ copy'[q].rv <= cluster'.rv
                        /\ copy'[q].rv = cluster'.rv =>
                               copy'[q].groups = cluster'.groups
      BY DEF CopyOK
    <3>1. CASE q = p
      <4>1. copy'[q] = cluster
        BY <1>2, <3>1 DEF RInv, TypeOK
      <4>. QED
        BY <1>1, <4>1 DEF RInv, TypeOK, RayClusters
    <3>2. CASE q # p
      <4>1. copy'[q] = copy[q] /\ pc[q] = "fetched"
        BY <1>2, <3>2 DEF RInv, TypeOK
      <4>. QED
        BY <1>1, <4>1 DEF RInv, CopyOK
    <3>. QED
      BY <3>1, <3>2
  <2>3. OptionsOK'
    BY <1>1, <1>2 DEF RInv, TypeOK, OptionsOK
  <2>4. UNCHANGED WG!avars
    <3>1. TypeOK /\ UNCHANGED <<cluster, options>>
      BY <1>1 DEF RInv
    <3>. QED
      BY <1>1, <1>2, <3>1, InnerStep, Zenon
  <2>. QED
    BY <2>1, <2>2, <2>3, <2>4 DEF RInv
<1>3. CASE pc' = [pc EXCEPT ![p] = "failed"] /\ UNCHANGED copy
  <2>1. RInv'
    BY <1>1, <1>3 DEF RInv, TypeOK, CopyOK, OptionsOK
  <2>2. WG!Abort(p)
    <3>1. TypeOK /\ UNCHANGED <<cluster, options>>
      BY <1>1 DEF RInv
    <3>. QED
      BY <1>1, <1>3, <3>1, AbortStep, Zenon
  <2>. QED
    BY <2>1, <2>2 DEF WG!Next
<1>. QED
  BY <1>2, <1>3 DEF Get

\* The operator's status write bumps the resourceVersion and leaves the
\* groups: every copy taken before it is now stale.
LEMMA OperatorStep ==
    ASSUME RInv, OperatorWritesStatus
    PROVE  RInv' /\ UNCHANGED WG!avars
<1>1. /\ cluster' = [cluster EXCEPT !.rv = @ + 1]
      /\ statusWrites' = statusWrites + 1
      /\ statusWrites < MaxStatusWrites
      /\ UNCHANGED <<pc, options, copy>>
  BY DEF OperatorWritesStatus
<1>2. cluster'.rv = cluster.rv + 1 /\ cluster'.groups = cluster.groups
  BY <1>1 DEF RInv, TypeOK, RayClusters
<1>3. TypeOK'
  BY <1>1, <1>2, CreateWorkerGroupAssumption DEF RInv, TypeOK, RayClusters
<1>4. CopyOK'
  BY <1>1, <1>2 DEF RInv, TypeOK, RayClusters, CopyOK
<1>5. OptionsOK'
  BY <1>1 DEF RInv, OptionsOK
<1>6. UNCHANGED WG!avars
  BY <1>1, <1>2 DEF WG!avars, RequestOf, ResultOf, NewWorkerGroup
<1>. QED
  BY <1>3, <1>4, <1>5, <1>6 DEF RInv

\* An Update with the current resourceVersion appends the invocation's
\* group to the current groups (a Commit); a stale one fails (an Abort).
LEMMA UpdateStep ==
    ASSUME RInv, NEW p \in Invocations, Update(p)
    PROVE  RInv' /\ [WG!Next]_WG!avars
<1>1. /\ pc[p] = "fetched"
      /\ options[p] \in Options
      /\ UNCHANGED <<options, copy, statusWrites>>
  BY DEF Update, RInv, OptionsOK
<1>2. CASE copy[p].rv = cluster.rv
  <2>. DEFINE g == NewWorkerGroup(p)
  <2>1. /\ cluster' = [rv |-> cluster.rv + 1,
                       groups |-> Append(copy[p].groups, g)]
        /\ pc' = [pc EXCEPT ![p] = "updated"]
    BY <1>2 DEF Update
  <2>2. copy[p].groups = cluster.groups
    BY <1>1, <1>2 DEF RInv, CopyOK
  <2>3. g \in WorkerGroupSpecs /\ g \in Requests /\ RequestOf(p) = g
    BY <1>1, NewWorkerGroupType
  <2>4. cluster'.groups = Append(cluster.groups, g)
        /\ cluster'.rv = cluster.rv + 1
    BY <2>1, <2>2
  <2>5. TypeOK'
    BY <1>1, <2>1, <2>2, <2>3 DEF RInv, TypeOK, RayClusters
  <2>6. CopyOK'
    <3> SUFFICES ASSUME NEW q \in Invocations, pc'[q] = "fetched"
                 PROVE  /\ copy'[q].rv <= cluster'.rv
                        /\ copy'[q].rv = cluster'.rv =>
                               copy'[q].groups = cluster'.groups
      BY DEF CopyOK
    <3>1. q # p /\ pc[q] = "fetched"
      BY <2>1 DEF RInv, TypeOK
    <3>2. copy[q].rv <= cluster.rv
      BY <3>1 DEF RInv, CopyOK
    <3>. QED
      BY <1>1, <2>4, <3>2 DEF RInv, TypeOK, RayClusters
  <2>7. OptionsOK'
    BY <1>1, <2>1 DEF RInv, TypeOK, OptionsOK
  <2>8. Res[p] = "pending" /\ Res' = [Res EXCEPT ![p] = "created"]
    <3>1. ResultOf(p) = "pending" /\ ResultOf(p)' = "created"
      BY <1>1, <2>1 DEF ResultOf, RInv, TypeOK
    <3>2. ASSUME NEW q \in Invocations \ {p} PROVE ResultOf(q)' = ResultOf(q)
      <4>1. pc'[q] = pc[q]
        BY <2>1 DEF RInv, TypeOK
      <4>. QED
        BY <4>1, Zenon DEF ResultOf
    <3>. QED
      BY <3>1, <3>2, Zenon DEF Res
  <2>9. Req' = Req /\ Req[p] = g
    BY <1>1, <2>3 DEF Req, RequestOf, NewWorkerGroup
  <2>10. WG!Commit(p)
    BY <2>3, <2>4, <2>8, <2>9, Zenon DEF WG!Commit, Req, Res
  <2>. QED
    BY <2>5, <2>6, <2>7, <2>10 DEF RInv, WG!Next
<1>3. CASE copy[p].rv # cluster.rv
  <2>1. pc' = [pc EXCEPT ![p] = "failed"] /\ UNCHANGED cluster
    BY <1>3 DEF Update
  <2>2. RInv'
    BY <1>1, <2>1 DEF RInv, TypeOK, CopyOK, OptionsOK
  <2>3. WG!Abort(p)
    <3>1. TypeOK /\ UNCHANGED <<cluster, options>>
      BY <1>1, <2>1 DEF RInv
    <3>. QED
      BY <1>1, <2>1, <3>1, AbortStep, Zenon
  <2>. QED
    BY <2>2, <2>3 DEF WG!Next
<1>. QED
  BY <1>2, <1>3

\* Every step keeps RInv and is a step of WorkerGroupAppend or a stutter.
LEMMA RefinementStep == RInv /\ [Next]_vars => RInv' /\ [WG!Next]_WG!avars
<1> SUFFICES ASSUME RInv, [Next]_vars PROVE RInv' /\ [WG!Next]_WG!avars
  OBVIOUS
<1>1. ASSUME NEW p \in Invocations, Complete(p) PROVE RInv' /\ [WG!Next]_WG!avars
  BY <1>1, CompleteStep
<1>2. ASSUME NEW p \in Invocations, Validate(p) PROVE RInv' /\ [WG!Next]_WG!avars
  BY <1>2, ValidateStep
<1>3. ASSUME NEW p \in Invocations, Get(p) PROVE RInv' /\ [WG!Next]_WG!avars
  BY <1>3, GetStep
<1>4. ASSUME NEW p \in Invocations, Update(p) PROVE RInv' /\ [WG!Next]_WG!avars
  BY <1>4, UpdateStep
<1>5. CASE OperatorWritesStatus
  BY <1>5, OperatorStep
<1>6. CASE UNCHANGED vars
  BY <1>6 DEF vars, RInv, TypeOK, CopyOK, OptionsOK, WG!avars, RequestOf,
              ResultOf, NewWorkerGroup
<1>. QED
  BY <1>1, <1>2, <1>3, <1>4, <1>5, <1>6 DEF Next

\* kubectl ray create workergroup (create_workergroup.go: Complete,
\* Validate, and Run's Get and Update) implements the atomic append
\* WorkerGroupAppend for every number of concurrent invocations, groups and
\* flag values: whatever the interleaving with other invocations and the
\* operator's status writes, each invocation either appends exactly the
\* group it parsed to the current groups in one step or fails.
THEOREM ImplementsWorkerGroupAppend == Spec => WorkerGroupAppendSpec
<1>1. Init => RInv
  BY InitRInv
<1>2. RInv /\ [Next]_vars => RInv' /\ [WG!Next]_WG!avars
  BY RefinementStep
<1>3. Init => WG!Init
  BY DEF Init, WG!Init, RequestOf, ResultOf
<1>. QED
  BY <1>1, <1>2, <1>3, PTL DEF Spec, WorkerGroupAppendSpec, WG!Spec

\* Every reachable state of concurrent create-workergroup invocations and
\* operator status writes is well typed: the stored RayCluster is a
\* resourceVersion with a sequence of WorkerGroupSpecs, for any number of
\* invocations, names and flag values.
THEOREM CreateWorkerGroupTypeCorrect == Spec => []TypeOK
<1>1. Init => RInv
  BY InitRInv
<1>2. RInv /\ [Next]_vars => RInv'
  BY RefinementStep
<1>3. RInv => TypeOK
  BY DEF RInv
<1>. QED
  BY <1>1, <1>2, <1>3, PTL DEF Spec

-----------------------------------------------------------------------------
(***************************************************************************)
(* No lost update, for every number of invocations.  RInv together with    *)
(* NoLostWorkerGroup is inductive: a successful Update appends to the      *)
(* current groups (CopyOK), and the options of an invocation never change  *)
(* after Complete, so the group it reported stays where it was appended.   *)
(***************************************************************************)

\* The set of invocations that reported success is finite.
LEMMA UpdatedFinite ==
    IsFiniteSet(Updated)
BY CreateWorkerGroupAssumption, FS_Subset DEF Updated

\* A step that leaves the groups, the successful invocations and their
\* groups alone keeps NoLostWorkerGroup.
LEMMA NoLostFrame ==
    ASSUME NoLostWorkerGroup,
           cluster'.groups = cluster.groups,
           Updated' = Updated,
           \A q \in Updated : NewWorkerGroup(q)' = NewWorkerGroup(q)
    PROVE  NoLostWorkerGroup'
BY DEF NoLostWorkerGroup

\* A step of p that is not a successful Update, with p not yet successful
\* and the options of every other invocation unchanged.
LEMMA NoLostOther ==
    ASSUME RInv, NoLostWorkerGroup, NEW p \in Invocations,
           pc[p] # "updated",
           NEW st, st # "updated", pc' = [pc EXCEPT ![p] = st],
           UNCHANGED cluster,
           \A q \in Invocations \ {p} : options'[q] = options[q]
    PROVE  NoLostWorkerGroup'
<1>1. Updated' = Updated
  BY DEF Updated, RInv, TypeOK
<1>2. ASSUME NEW q \in Updated PROVE NewWorkerGroup(q)' = NewWorkerGroup(q)
  <2>1. q \in Invocations \ {p}
    BY DEF Updated
  <2>2. options'[q] = options[q]
    BY <2>1
  <2>. QED
    BY <2>2 DEF NewWorkerGroup
<1>. QED
  BY <1>1, <1>2, NoLostFrame

\* The successful Update appends the invocation's group and counts it.
LEMMA NoLostCommit ==
    ASSUME RInv, NoLostWorkerGroup, NEW p \in Invocations, Update(p),
           copy[p].rv = cluster.rv
    PROVE  NoLostWorkerGroup'
<1>. DEFINE g == NewWorkerGroup(p)
            G == cluster.groups
<1>1. /\ pc[p] = "fetched"
      /\ options[p] \in Options
      /\ UNCHANGED options
      /\ cluster'.groups = Append(copy[p].groups, g)
      /\ pc' = [pc EXCEPT ![p] = "updated"]
  BY DEF Update, RInv, OptionsOK
<1>2. cluster'.groups = Append(G, g)
  BY <1>1 DEF RInv, CopyOK
<1>3. G \in Seq(WorkerGroupSpecs) /\ g \in WorkerGroupSpecs
  BY <1>1, NewWorkerGroupType DEF RInv, TypeOK, RayClusters
<1>4. Updated' = Updated \cup {p} /\ p \notin Updated
  <2>1. Updated' = Updated \cup {p}
    BY <1>1 DEF RInv, TypeOK, Updated
  <2>2. p \notin Updated
    BY <1>1 DEF Updated
  <2>. QED
    BY <2>1, <2>2
<1>5. Cardinality(Updated') = Cardinality(Updated) + 1
  <2>1. IsFiniteSet(Updated)
    BY UpdatedFinite
  <2>2. Cardinality(Updated \cup {p}) =
            IF p \in Updated THEN Cardinality(Updated)
                             ELSE Cardinality(Updated) + 1
    BY <2>1, FS_AddElement, Zenon
  <2>. QED
    BY <1>4, <2>2
<1>6. Len(cluster'.groups) = Len(InitialGroups) + Cardinality(Updated')
  <2>1. Len(cluster'.groups) = Len(G) + 1
    BY <1>2, <1>3
  <2>2. Len(G) = Len(InitialGroups) + Cardinality(Updated)
    BY DEF NoLostWorkerGroup
  <2>3. Cardinality(Updated) \in Nat
    BY UpdatedFinite, FS_CardinalityType
  <2>. QED
    BY <1>5, <2>1, <2>2, <2>3
<1>7. ASSUME NEW q \in Updated'
      PROVE  \E i \in 1..Len(cluster'.groups) :
                 cluster'.groups[i] = NewWorkerGroup(q)'
  <2>1. NewWorkerGroup(q)' = NewWorkerGroup(q)
    BY <1>1 DEF NewWorkerGroup
  <2>2. CASE q = p
    <3>1. cluster'.groups[Len(G) + 1] = g /\ Len(G) + 1 \in 1..Len(cluster'.groups)
      BY <1>2, <1>3
    <3>. QED
      BY <2>1, <2>2, <3>1
  <2>3. CASE q # p
    <3>1. q \in Updated
      BY <1>4, <2>3
    <3>2. PICK i \in 1..Len(G) : G[i] = NewWorkerGroup(q)
      BY <3>1 DEF NoLostWorkerGroup
    <3>3. i \in 1..Len(cluster'.groups) /\ cluster'.groups[i] = G[i]
      BY <1>2, <1>3
    <3>. QED
      BY <2>1, <3>2, <3>3
  <2>. QED
    BY <2>2, <2>3
<1>. QED
  BY <1>6, <1>7 DEF NoLostWorkerGroup

\* RInv /\ NoLostWorkerGroup is kept by every step.
LEMMA NoLostStep ==
    RInv /\ NoLostWorkerGroup /\ [Next]_vars => NoLostWorkerGroup'
<1> SUFFICES ASSUME RInv, NoLostWorkerGroup, [Next]_vars
             PROVE  NoLostWorkerGroup'
  OBVIOUS
<1>1. ASSUME NEW p \in Invocations, Complete(p) PROVE NoLostWorkerGroup'
  <2>1. pc[p] = "start" /\ UNCHANGED cluster
    BY <1>1 DEF Complete
  <2>2. PICK st \in {"completed", "failed"} : pc' = [pc EXCEPT ![p] = st]
    BY <1>1, Zenon DEF Complete
  <2>3. \A q \in Invocations \ {p} : options'[q] = options[q]
    BY <1>1 DEF Complete, RInv, TypeOK
  <2>. QED
    BY <2>1, <2>2, <2>3, NoLostOther, Zenon
<1>2. ASSUME NEW p \in Invocations, Validate(p) PROVE NoLostWorkerGroup'
  <2>1. pc[p] = "completed" /\ UNCHANGED <<cluster, options>>
    BY <1>2 DEF Validate
  <2>2. PICK st \in {"validated", "failed"} : pc' = [pc EXCEPT ![p] = st]
    BY <1>2, Zenon DEF Validate
  <2>. QED
    BY <2>1, <2>2, NoLostOther, Zenon
<1>3. ASSUME NEW p \in Invocations, Get(p) PROVE NoLostWorkerGroup'
  <2>1. pc[p] = "validated" /\ UNCHANGED <<cluster, options>>
    BY <1>3 DEF Get
  <2>2. PICK st \in {"fetched", "failed"} : pc' = [pc EXCEPT ![p] = st]
    BY <1>3, Zenon DEF Get
  <2>. QED
    BY <2>1, <2>2, NoLostOther, Zenon
<1>4. ASSUME NEW p \in Invocations, Update(p) PROVE NoLostWorkerGroup'
  <2>1. CASE copy[p].rv = cluster.rv
    BY <1>4, <2>1, NoLostCommit
  <2>2. CASE copy[p].rv # cluster.rv
    <3>1. /\ pc[p] = "fetched" /\ UNCHANGED <<cluster, options>>
          /\ pc' = [pc EXCEPT ![p] = "failed"]
      BY <1>4, <2>2 DEF Update
    <3>. QED
      BY <3>1, NoLostOther, Zenon
  <2>. QED
    BY <2>1, <2>2
<1>5. CASE OperatorWritesStatus
  <2>1. cluster'.groups = cluster.groups /\ UNCHANGED <<pc, options>>
    BY <1>5 DEF OperatorWritesStatus, RInv, TypeOK, RayClusters
  <2>. QED
    BY <2>1, NoLostFrame DEF Updated, NewWorkerGroup
<1>6. CASE UNCHANGED vars
  BY <1>6, NoLostFrame DEF vars, Updated, NewWorkerGroup
<1>. QED
  BY <1>1, <1>2, <1>3, <1>4, <1>5, <1>6 DEF Next

\* No lost update (create_workergroup.go Run: Get, append, Update): for
\* every number of concurrent invocations, whatever the operator writes in
\* between, the RayCluster holds its initial groups plus exactly one group
\* per invocation that reported success, and that invocation's group.
THEOREM NoLostWorkerGroupHolds == Spec => []NoLostWorkerGroup
<1>1. Init => RInv /\ NoLostWorkerGroup
  <2> SUFFICES ASSUME Init PROVE RInv /\ NoLostWorkerGroup
    OBVIOUS
  <2>1. Updated = {}
    BY DEF Init, Updated
  <2>2. Cardinality(Updated) = 0
    BY <2>1, FS_EmptySet
  <2>3. cluster.groups = InitialGroups
    BY DEF Init
  <2>4. NoLostWorkerGroup
    BY <2>1, <2>2, <2>3 DEF NoLostWorkerGroup
  <2>. QED
    BY <2>4, InitRInv
<1>2. RInv /\ NoLostWorkerGroup /\ [Next]_vars => RInv' /\ NoLostWorkerGroup'
  BY RefinementStep, NoLostStep
<1>. QED
  BY <1>1, <1>2, PTL DEF Spec

=============================================================================
