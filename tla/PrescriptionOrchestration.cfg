\* Safety of the shared slot, of the composed result and of its evidence.
SPECIFICATION Spec
CONSTANTS
    Threads = {t1, t2}
    Faults <- MCFaults
    Identifiers <- MCIdentifiers
    Calls = {c1, c2}
    MaxPromotions = 1
SYMMETRY Symmetry
INVARIANTS
    SlotIsConserved
    OnlyUnnamedFaultsEscape
    MetadataIsOfThisAttempt
    GeneratedFromLiveEvidence
