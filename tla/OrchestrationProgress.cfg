\* Liveness: no symmetry, and the documents do not change.
SPECIFICATION FairSpec
CONSTANTS
    Threads = {t1, t2}
    Faults <- MCIdentifiers
    Identifiers <- MCIdentifiers
    Calls = {c1}
    MaxPromotions = 0
PROPERTY
    EveryRequestIsAnswered
