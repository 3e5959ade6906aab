\* Counts 0..3 cover unset, below-minimum, in-range, above-maximum and
\* inverted bounds for one and two groups.
CONSTANTS
    Counts = {0, 1, 2, 3}
    Unset = Unset
SPECIFICATION Spec
INVARIANTS
    DesiredMatchesReference
    AggregateWithinBounds
