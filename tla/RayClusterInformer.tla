------------------------- MODULE RayClusterInformer -------------------------
(***************************************************************************)
(* The generated RayCluster informer (informers/externalversions/ray/v1/   *)
(* raycluster.go) and the client-go reflector that drives it.              *)
(*                                                                         *)
(* The generated code supplies the ListWatch: ListFunc and WatchFunc (and  *)
(* their context variants) apply tweakListOptions and call List or Watch   *)
(* on the informer's namespace.  The reflector lists, replaces the         *)
(* indexer with the result, then watches from the list's resourceVersion;  *)
(* a closed watch is resumed from the last event, an expired one (410      *)
(* Gone) forces a new list.  The Lister reads the indexer through its      *)
(* namespace index.                                                        *)
(*                                                                         *)
(* The API server's history is an append-only log of writes, each with    *)
(* the store's snapshot at its revision (etcd keeps every revision until   *)
(* compaction); the watch stream is a read position in it (pos =           *)
(* resourceVersion last synced).                                           *)
(***************************************************************************)
EXTENDS Naturals, Sequences, FiniteSets

CONSTANTS
    Names,             \* RayCluster names
    Namespaces,        \* namespaces
    NamespaceOf,       \* NamespaceOf[n]: the namespace of RayCluster n
    NamespaceAll,      \* metav1.NamespaceAll (""): the informer sees all
    InformerNamespace, \* the namespace the informer was built for
    Labels,            \* label values a RayCluster may carry
    HasTweak,          \* tweakListOptions is not nil
    TweakSelector,     \* the label selector tweakListOptions sets
    Absent,            \* no object under a name
    MaxWrites,         \* bound on the writes to the API server
    MaxWatchErrors     \* bound on closed or expired watches

ASSUME InformerAssumption ==
    /\ IsFiniteSet(Names)
    /\ NamespaceOf \in [Names -> Namespaces]
    /\ NamespaceAll \notin Namespaces
    /\ InformerNamespace \in Namespaces \cup {NamespaceAll}
    /\ HasTweak \in BOOLEAN
    /\ TweakSelector \subseteq Labels
    /\ MaxWrites \in Nat
    /\ MaxWatchErrors \in Nat

Objects == [ns: Namespaces, label: Labels, rv: Nat]
Snapshots == [Names -> Objects \cup {Absent}]
Writes == [name: Names, old: Objects \cup {Absent}, new: Objects \cup {Absent},
           after: Snapshots]
Filters == [ns: Namespaces \cup {NamespaceAll}, selector: SUBSET Labels]

VARIABLES
    store,        \* the RayClusters held by the API server
    log,          \* every write so far, in resourceVersion order
    phase,        \* reflector: "init" (must list), "listed", "watching"
    pos,          \* writes reflected in the indexer (last synced RV)
    watchFilter,  \* the namespace and selector of the open watch
    cache,        \* the informer's indexer
    watchErrors   \* watches closed or expired so far

vars == <<store, log, phase, pos, watchFilter, cache, watchErrors>>

NoObjects == [n \in Names |-> Absent]

TypeOK ==
    /\ store \in Snapshots
    /\ log \in Seq(Writes)
    /\ phase \in {"init", "listed", "watching"}
    /\ pos \in 0..Len(log)
    /\ watchFilter \in Filters
    /\ cache \in Snapshots
    /\ watchErrors \in 0..MaxWatchErrors

-----------------------------------------------------------------------------
(***************************************************************************)
(* The generated ListWatch.                                                *)
(***************************************************************************)

\* The reflector passes ListOptions with no selector; tweakListOptions, when
\* not nil, sets the label selector.
Everything == Labels
tweakListOptions(selector) ==
    IF HasTweak THEN TweakSelector ELSE selector

\* What the API server returns for a namespace and a label selector.
InScope(obj, f) ==
    /\ obj # Absent
    /\ f.ns = NamespaceAll \/ obj.ns = f.ns
    /\ obj.label \in f.selector

ServerList(f) == [n \in Names |-> IF InScope(store[n], f) THEN store[n] ELSE Absent]

\* A mutant: ListFunc that forgets tweakListOptions.
ListFuncUntweaked ==
    ServerList([ns |-> InformerNamespace, selector |-> Everything])

\* ListFunc and ListWithContextFunc: tweak, then List in the namespace.
ListFunc ==
    ServerList([ns |-> InformerNamespace, selector |-> tweakListOptions(Everything)])
ListWithContextFunc ==
    ServerList([ns |-> InformerNamespace, selector |-> tweakListOptions(Everything)])

\* A mutant: WatchFunc that forgets tweakListOptions.
WatchFuncUntweaked == [ns |-> InformerNamespace, selector |-> Everything]

\* WatchFunc and WatchFuncWithContext: tweak, then Watch the namespace; the
\* server filters the stream by the returned namespace and selector.
WatchFunc == [ns |-> InformerNamespace, selector |-> tweakListOptions(Everything)]
WatchFuncWithContext ==
    [ns |-> InformerNamespace, selector |-> tweakListOptions(Everything)]

\* NewFilteredRayClusterInformer: an informer with an empty indexer that
\* has not listed yet and has no watch open.
Init ==
    /\ store = NoObjects
    /\ log = <<>>
    /\ phase = "init"
    /\ pos = 0
    /\ watchFilter = [ns |-> InformerNamespace, selector |-> {}]
    /\ cache = NoObjects
    /\ watchErrors = 0

\* Lister().RayClusters(ns).Get(n): a read of the indexer through the
\* namespace index of defaultInformer.
ListerGet(ns, n) ==
    IF cache[n] # Absent /\ cache[n].ns = ns THEN cache[n] ELSE Absent

-----------------------------------------------------------------------------
(***************************************************************************)
(* The API server: any client creates, relabels or deletes a RayCluster.   *)
(* Every write gets the next resourceVersion and is appended to the log.   *)
(***************************************************************************)

Write(n, new) ==
    /\ Len(log) < MaxWrites
    /\ store' = [store EXCEPT ![n] = new]
    /\ log' = Append(log, [name |-> n, old |-> store[n], new |-> new,
                            after |-> store'])
    /\ UNCHANGED <<phase, pos, watchFilter, cache, watchErrors>>

ServerWrite ==
    \E n \in Names :
        \/ \E l \in Labels :
              Write(n, [ns |-> NamespaceOf[n], label |-> l, rv |-> Len(log) + 1])
        \/ store[n] # Absent /\ Write(n, Absent)

-----------------------------------------------------------------------------
(***************************************************************************)
(* The reflector (client-go ListAndWatch).                                 *)
(***************************************************************************)

\* List, then Replace: the indexer becomes the list, synced to its RV.
Replace(items) ==
    /\ cache' = items
    /\ pos' = Len(log)
    /\ phase' = "listed"

List ==
    /\ phase = "init"
    /\ Replace(ListFunc) \/ Replace(ListWithContextFunc)
    /\ UNCHANGED <<store, log, watchFilter, watchErrors>>

\* Watch from the last synced resourceVersion.
Watch ==
    /\ phase = "listed"
    /\ watchFilter' \in {WatchFunc, WatchFuncWithContext}
    /\ phase' = "watching"
    /\ UNCHANGED <<store, log, pos, cache, watchErrors>>

\* The server turns a write into ADDED/MODIFIED (now in scope), DELETED
\* (was in scope, is no longer) or nothing; the indexer applies it.
Apply(w, f) ==
    IF InScope(w.new, f) THEN [cache EXCEPT ![w.name] = w.new]
    ELSE IF InScope(w.old, f) THEN [cache EXCEPT ![w.name] = Absent]
    ELSE cache

\* A mutant: the watch holds back the newest event (an off-by-one on the
\* resourceVersion it has delivered up to).
DeliverHoldingLast ==
    /\ phase = "watching"
    /\ pos < Len(log) - 1
    /\ cache' = Apply(log[pos + 1], watchFilter)
    /\ pos' = pos + 1
    /\ UNCHANGED <<store, log, phase, watchFilter, watchErrors>>

Deliver ==
    /\ phase = "watching"
    /\ pos < Len(log)
    /\ cache' = Apply(log[pos + 1], watchFilter)
    /\ pos' = pos + 1
    /\ UNCHANGED <<store, log, phase, watchFilter, watchErrors>>

\* The watch closes (timeout, dropped connection): watch again from pos.
WatchClosed ==
    /\ phase = "watching"
    /\ watchErrors < MaxWatchErrors
    /\ phase' = "listed"
    /\ watchErrors' = watchErrors + 1
    /\ UNCHANGED <<store, log, pos, watchFilter, cache>>

\* 410 Gone: the last synced resourceVersion was compacted; list again.
WatchExpired ==
    /\ phase \in {"listed", "watching"}
    /\ watchErrors < MaxWatchErrors
    /\ phase' = "init"
    /\ watchErrors' = watchErrors + 1
    /\ UNCHANGED <<store, log, pos, watchFilter, cache>>

Next ==
    \/ ServerWrite
    \/ List
    \/ Watch
    \/ Deliver
    \/ WatchClosed
    \/ WatchExpired

\* ListAndWatch runs in a loop for the informer's lifetime.
Spec == Init /\ [][Next]_vars /\ WF_vars(List) /\ WF_vars(Watch) /\ WF_vars(Deliver)

-----------------------------------------------------------------------------
(***************************************************************************)
(* Properties.                                                             *)
(***************************************************************************)

\* The RayClusters the informer is meant to hold: those of its namespace
\* that carry a label the selector accepts.
Selection ==
    [ns |-> InformerNamespace,
     selector |-> IF HasTweak THEN TweakSelector ELSE Labels]

View(st) == [n \in Names |-> IF InScope(st[n], Selection) THEN st[n] ELSE Absent]

\* The API server's objects at revision k.
StateAt(k) == IF k = 0 THEN NoObjects ELSE log[k].after

\* A Lister read returns exactly what the server held for that namespace and
\* name at the resourceVersion the informer last synced: never an object of
\* another namespace or selector, never a version it skipped, and never one
\* still present after a DELETED it has passed, across lists, relists after
\* 410 Gone and resumed watches.
ListerReadsSyncedState ==
    \A ns \in Namespaces, n \in Names :
        ListerGet(ns, n) =
            LET o == View(StateAt(pos))[n]
            IN  IF o # Absent /\ o.ns = ns THEN o ELSE Absent

\* Once the RayClusters stop changing, the informer's cache comes to hold
\* exactly the selected ones, and keeps them.
CacheConverges == <>[](cache = View(store))

=============================================================================
