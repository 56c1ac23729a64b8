\* The totality the docstring promises, with a fault class the generation
\* contract cannot name.
SPECIFICATION Spec
CONSTANTS
    Threads = {t1, t2}
    Faults <- MCFaults
    Identifiers <- MCIdentifiers
    Calls = {c1, c2}
    MaxPromotions = 1
INVARIANT
    DecisionsAreTotal
