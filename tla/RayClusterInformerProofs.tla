--------------------- MODULE RayClusterInformerProofs ---------------------
(***************************************************************************)
(* Proofs about the RayCluster informer: for every set of names,           *)
(* namespaces, labels and every tweakListOptions, a Lister read returns    *)
(* the server's object as of the informer's last synced resourceVersion.   *)
(*                                                                         *)
(* The inductive invariant says that the log is the server's history (each *)
(* entry's old value and snapshot follow from the one before), that the    *)
(* store is the last snapshot, that the indexer is the selected part of    *)
(* the snapshot at pos, and that an open watch filters by the selection.   *)
(***************************************************************************)
EXTENDS RayClusterInformer, TLAPS

\* Every log entry records the value it overwrote and the snapshot it made.
LogOK ==
    \A i \in 1..Len(log) :
        /\ log[i].old = StateAt(i - 1)[log[i].name]
        /\ log[i].after = [StateAt(i - 1) EXCEPT ![log[i].name] = log[i].new]

InformerInv ==
    /\ TypeOK
    /\ LogOK
    /\ store = StateAt(Len(log))
    /\ cache = View(StateAt(pos))
    /\ phase = "watching" => watchFilter = Selection

-----------------------------------------------------------------------------

\* The generated ListWatch lists and watches exactly the selection.
LEMMA ListWatchIsSelection ==
    /\ WatchFunc = Selection
    /\ WatchFuncWithContext = Selection
    /\ ListFunc = View(store)
    /\ ListWithContextFunc = View(store)
BY DEF WatchFunc, WatchFuncWithContext, ListFunc, ListWithContextFunc,
       ServerList, View, Selection, tweakListOptions, Everything

\* The snapshot at a revision of the log is a snapshot.
LEMMA StateAtType ==
    ASSUME log \in Seq(Writes), NEW k \in 0..Len(log)
    PROVE  StateAt(k) \in Snapshots
<1>1. CASE k = 0
  BY <1>1 DEF StateAt, NoObjects, Snapshots
<1>2. CASE k # 0
  <2>1. log[k] \in Writes
    BY <1>2
  <2>. QED
    BY <1>2, <2>1 DEF StateAt, Writes
<1>. QED
  BY <1>1, <1>2

\* Appending to the log leaves the earlier snapshots as they were.
LEMMA StateAtAppend ==
    ASSUME log \in Seq(Writes), NEW w, log' = Append(log, w),
           NEW k \in 0..Len(log)
    PROVE  StateAt(k)' = StateAt(k)
BY DEF StateAt

\* Delivering the next write of the log to an indexer that holds the
\* selected part of the snapshot before it yields the selected part of the
\* snapshot after it.
LEMMA ApplyIsView ==
    ASSUME NEW S \in Snapshots, NEW w \in Writes, w.old = S[w.name],
           cache = View(S)
    PROVE  Apply(w, Selection) = View([S EXCEPT ![w.name] = w.new])
<1>. DEFINE T == [S EXCEPT ![w.name] = w.new]
<1>1. CASE InScope(w.new, Selection)
  BY <1>1 DEF Apply, View, Snapshots, Writes
<1>2. CASE ~InScope(w.new, Selection) /\ InScope(w.old, Selection)
  BY <1>2 DEF Apply, View, Snapshots, Writes
<1>3. CASE ~InScope(w.new, Selection) /\ ~InScope(w.old, Selection)
  BY <1>3 DEF Apply, View, Snapshots, Writes
<1>. QED
  BY <1>1, <1>2, <1>3

\* The informer starts consistent: no writes, an empty indexer.
LEMMA InitInv == Init => InformerInv
<1>1. Init => TypeOK
  BY InformerAssumption DEF Init, TypeOK, NoObjects, Snapshots, Filters
<1>2. Init => LogOK
  BY DEF Init, LogOK
<1>3. Init => store = StateAt(Len(log))
  BY DEF Init, StateAt
<1>4. Init => cache = View(StateAt(pos))
  BY DEF Init, StateAt, View, NoObjects, InScope
<1>. QED
  BY <1>1, <1>2, <1>3, <1>4 DEF InformerInv, Init

\* A write of the API server extends the history and leaves the indexer.
LEMMA WriteInv ==
    ASSUME InformerInv, NEW n \in Names, NEW new \in Objects \cup {Absent},
           Write(n, new)
    PROVE  InformerInv'
<1>. DEFINE w == [name |-> n, old |-> store[n], new |-> new, after |-> store']
<1>1. /\ store' = [store EXCEPT ![n] = new]
      /\ log' = Append(log, w)
      /\ UNCHANGED <<phase, pos, watchFilter, cache, watchErrors>>
  BY DEF Write
<1>2. store' \in Snapshots
  BY <1>1 DEF InformerInv, TypeOK, Snapshots
<1>3. w \in Writes
  BY <1>2 DEF InformerInv, TypeOK, Snapshots, Writes
<1>4. TypeOK'
  BY <1>1, <1>2, <1>3 DEF InformerInv, TypeOK
<1>5. \A k \in 0..Len(log) : StateAt(k)' = StateAt(k)
  BY <1>1, StateAtAppend DEF InformerInv, TypeOK
<1>6. Len(log') = Len(log) + 1 /\ log'[Len(log')] = w
  BY <1>1 DEF InformerInv, TypeOK
<1>7. (store = StateAt(Len(log)))'
  BY <1>6 DEF StateAt
<1>8. LogOK'
  <2> SUFFICES ASSUME NEW i \in 1..Len(log')
               PROVE  (/\ log[i].old = StateAt(i - 1)[log[i].name]
                       /\ log[i].after =
                            [StateAt(i - 1) EXCEPT ![log[i].name] = log[i].new])'
    BY Zenon DEF LogOK
  <2>1. CASE i <= Len(log)
    <3>1. log'[i] = log[i] /\ StateAt(i - 1)' = StateAt(i - 1)
      BY <1>1, <1>5, <2>1 DEF InformerInv, TypeOK
    <3>0. i \in 1..Len(log)
      BY <1>6, <2>1 DEF InformerInv, TypeOK
    <3>2. /\ log[i].old = StateAt(i - 1)[log[i].name]
          /\ log[i].after = [StateAt(i - 1) EXCEPT ![log[i].name] = log[i].new]
      BY <3>0, Zenon DEF InformerInv, LogOK
    <3>. QED
      BY <3>1, <3>2, Zenon
  <2>2. CASE i = Len(log) + 1
    <3>1. log'[i] = w /\ StateAt(i - 1)' = store
      BY <1>5, <1>6, <2>2 DEF InformerInv, TypeOK
    <3>2. w.old = store[w.name] /\ w.after = [store EXCEPT ![w.name] = w.new]
      BY <1>1
    <3>. QED
      BY <3>1, <3>2, Zenon
  <2>. QED
    BY <1>6, <2>1, <2>2 DEF InformerInv, TypeOK
<1>9. (cache = View(StateAt(pos)))'
  BY <1>1, <1>5 DEF InformerInv, TypeOK
<1>10. (phase = "watching" => watchFilter = Selection)'
  BY <1>1 DEF InformerInv
<1>. QED
  BY <1>4, <1>7, <1>8, <1>9, <1>10, Zenon DEF InformerInv

\* Both kinds of write keep the invariant.
LEMMA ServerWriteInv == InformerInv /\ ServerWrite => InformerInv'
<1> SUFFICES ASSUME InformerInv, ServerWrite PROVE InformerInv'
  OBVIOUS
<1>1. PICK n \in Names :
        \/ \E l \in Labels :
              Write(n, [ns |-> NamespaceOf[n], label |-> l, rv |-> Len(log) + 1])
        \/ store[n] # Absent /\ Write(n, Absent)
  BY Zenon DEF ServerWrite
<1>2. CASE \E l \in Labels :
              Write(n, [ns |-> NamespaceOf[n], label |-> l, rv |-> Len(log) + 1])
  <2>1. PICK l \in Labels :
              Write(n, [ns |-> NamespaceOf[n], label |-> l, rv |-> Len(log) + 1])
    BY <1>2
  <2>2. [ns |-> NamespaceOf[n], label |-> l, rv |-> Len(log) + 1] \in Objects
    BY InformerAssumption DEF InformerInv, TypeOK, Objects
  <2>. QED
    BY <2>1, <2>2, WriteInv
<1>3. CASE store[n] # Absent /\ Write(n, Absent)
  BY <1>3, WriteInv
<1>. QED
  BY <1>1, <1>2, <1>3

\* The selected part of a snapshot is a snapshot.
LEMMA ViewType ==
    ASSUME NEW S \in Snapshots
    PROVE  View(S) \in Snapshots
BY DEF View, Snapshots

\* A list replaces the indexer with the selected objects at the newest
\* revision, and the reflector is synced to it.
LEMMA ListInv == InformerInv /\ List => InformerInv'
<1> SUFFICES ASSUME InformerInv, List PROVE InformerInv'
  OBVIOUS
<1>1. /\ cache' = View(store)
      /\ pos' = Len(log)
      /\ phase' = "listed"
      /\ UNCHANGED <<store, log, watchFilter, watchErrors>>
  BY ListWatchIsSelection, Zenon DEF List, Replace
<1>2. TypeOK'
  BY <1>1, ViewType DEF InformerInv, TypeOK
<1>3. (cache = View(StateAt(pos)))'
  BY <1>1 DEF InformerInv, StateAt
<1>. QED
  BY <1>1, <1>2, <1>3 DEF InformerInv, LogOK, StateAt

\* Opening a watch uses the ListWatch's filter, which is the selection.
LEMMA WatchInv == InformerInv /\ Watch => InformerInv'
<1> SUFFICES ASSUME InformerInv, Watch PROVE InformerInv'
  OBVIOUS
<1>1. /\ watchFilter' = Selection
      /\ phase' = "watching"
      /\ UNCHANGED <<store, log, pos, cache, watchErrors>>
  BY ListWatchIsSelection, Zenon DEF Watch
<1>2. Selection \in Filters
  BY InformerAssumption DEF Selection, Filters
<1>. QED
  BY <1>1, <1>2 DEF InformerInv, TypeOK, LogOK, StateAt

\* Delivering the next write of the log through the selection's filter
\* moves the indexer from the snapshot at pos to the one at pos + 1.
LEMMA DeliverInv == InformerInv /\ Deliver => InformerInv'
<1> SUFFICES ASSUME InformerInv, Deliver PROVE InformerInv'
  OBVIOUS
<1>. DEFINE w == log[pos + 1]
            S == StateAt(pos)
<1>1. /\ phase = "watching"
      /\ pos < Len(log)
      /\ cache' = Apply(w, watchFilter)
      /\ pos' = pos + 1
      /\ UNCHANGED <<store, log, phase, watchFilter, watchErrors>>
  BY DEF Deliver
<1>2. watchFilter = Selection
  BY <1>1 DEF InformerInv
<1>3. w \in Writes /\ S \in Snapshots
  BY <1>1, StateAtType DEF InformerInv, TypeOK
<1>4. w.old = S[w.name] /\ w.after = [S EXCEPT ![w.name] = w.new]
  <2>1. pos + 1 \in 1..Len(log) /\ (pos + 1) - 1 = pos
    BY <1>1 DEF InformerInv, TypeOK
  <2>2. /\ w.old = StateAt((pos + 1) - 1)[w.name]
        /\ w.after = [StateAt((pos + 1) - 1) EXCEPT ![w.name] = w.new]
    BY <2>1, Zenon DEF InformerInv, LogOK
  <2>. QED
    BY <2>1, <2>2
<1>5. cache' = View(w.after)
  BY <1>1, <1>2, <1>3, <1>4, ApplyIsView DEF InformerInv
<1>6. StateAt(pos + 1) = w.after
  BY <1>1 DEF InformerInv, TypeOK, StateAt
<1>7. TypeOK'
  BY <1>1, <1>3, <1>5, ViewType DEF InformerInv, TypeOK, Writes
<1>8. (cache = View(StateAt(pos)))'
  BY <1>1, <1>5, <1>6 DEF StateAt
<1>. QED
  BY <1>1, <1>7, <1>8 DEF InformerInv, LogOK, StateAt

\* A closed or expired watch only moves the reflector back; the indexer
\* keeps what it had.
LEMMA WatchErrorInv == InformerInv /\ (WatchClosed \/ WatchExpired) => InformerInv'
<1> SUFFICES ASSUME InformerInv, WatchClosed \/ WatchExpired PROVE InformerInv'
  OBVIOUS
<1>1. /\ phase' \in {"listed", "init"}
      /\ watchErrors' \in 0..MaxWatchErrors
      /\ UNCHANGED <<store, log, pos, watchFilter, cache>>
  BY InformerAssumption DEF WatchClosed, WatchExpired, InformerInv, TypeOK
<1>2. TypeOK'
  BY <1>1 DEF InformerInv, TypeOK
<1>3. LogOK'
  BY <1>1 DEF InformerInv, LogOK, StateAt
<1>4. (store = StateAt(Len(log)))' /\ (cache = View(StateAt(pos)))'
  BY <1>1 DEF InformerInv, StateAt
<1>5. (phase = "watching" => watchFilter = Selection)'
  BY <1>1
<1>. QED
  BY <1>2, <1>3, <1>4, <1>5, Zenon DEF InformerInv

\* The invariant is inductive.
LEMMA NextInv == InformerInv /\ [Next]_vars => InformerInv'
<1> SUFFICES ASSUME InformerInv, [Next]_vars PROVE InformerInv'
  OBVIOUS
<1>1. CASE ServerWrite
  BY <1>1, ServerWriteInv
<1>2. CASE List
  BY <1>2, ListInv
<1>3. CASE Watch
  BY <1>3, WatchInv
<1>4. CASE Deliver
  BY <1>4, DeliverInv
<1>5. CASE WatchClosed \/ WatchExpired
  BY <1>5, WatchErrorInv
<1>6. CASE UNCHANGED vars
  BY <1>6 DEF vars, InformerInv, TypeOK, LogOK, StateAt
<1>. QED
  BY <1>1, <1>2, <1>3, <1>4, <1>5, <1>6 DEF Next

\* The RayCluster Lister of the generated informer (raycluster.go, Lister
\* and NamespaceIndex) returns, for every namespace and name, exactly what
\* the API server held at the informer's last synced resourceVersion, for
\* every number of objects, namespaces, labels and any tweakListOptions.
THEOREM ListerCorrect == Spec => []ListerReadsSyncedState
<1>1. Init => InformerInv
  BY InitInv
<1>2. InformerInv /\ [Next]_vars => InformerInv'
  BY NextInv
<1>3. InformerInv => ListerReadsSyncedState
  BY DEF InformerInv, ListerReadsSyncedState, ListerGet
<1>. QED
  BY <1>1, <1>2, <1>3, PTL DEF Spec

=============================================================================
