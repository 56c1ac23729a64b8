SPECIFICATION Spec
CONSTANTS
    d1 = d1
    d2 = d2
    Mapping <- MCMapping
    Faults <- MCFaults
    Chunks = {1}
    Providers = {"local-hash"}
    IndexedVersions = {2}
    MaxVersion = 2
    MaxRevision = 3
INVARIANTS
    EvidenceHeldTogether
    CurrentMeansCurrent
    RefusalsHaveACause
