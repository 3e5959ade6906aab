CONSTANTS
    p1 = p1
    p2 = p2
    g1 = g1
    g2 = g2
    Unset = Unset
    Invocations <- MC_Invocations
    GroupNames <- MC_GroupNames
    Counts = {0, 1, 2}
    Flags <- MC_Flags
    InitialGroups <- MC_InitialGroups
    MaxStatusWrites = 1
SPECIFICATION Spec
SYMMETRY MC_Symmetry
\* Every invocation ends in updated or failed and the operator's writes are
\* bounded: the final states are real ends of the system.
CHECK_DEADLOCK FALSE
INVARIANTS
    BoundsOrdered
