\* Four writes are enough to create, relabel out of the selector and delete
\* one RayCluster while another changes in the other namespace; two watch
\* errors allow a resumed watch and a relist after 410 Gone.
CONSTANTS
    r1 = r1
    r2 = r2
    ns1 = ns1
    ns2 = ns2
    la = la
    lb = lb
    Names = {r1, r2}
    Namespaces = {ns1, ns2}
    NamespaceOf <- MC_NamespaceOf
    NamespaceAll = NamespaceAll
    InformerNamespace = ns1
    Labels = {la, lb}
    HasTweak = TRUE
    TweakSelector = {la}
    Absent = Absent
    MaxWrites = 4
    MaxWatchErrors = 2
SPECIFICATION Spec
\* With the writes and watch errors spent and every event delivered, the
\* reflector waits on an idle watch: the system really stops.
CHECK_DEADLOCK FALSE
INVARIANTS
    ListerReadsSyncedState
PROPERTIES
    CacheConverges
