SPECIFICATION RegistrySpec
SYMMETRY CallersAreAlike
CONSTANTS
  h1 = h1
  h2 = h2
  api_v1 = api_v1
  processor = processor
  r1 = r1
  r2 = r2
  small = small
  large = large
  Hashes <- MCHashes
  Actors <- MCActors
  Reasons <- MCReasons
  Sizes <- MCSizes
  Instants = {1, 2}
  Commands <- MCCommands
  Seeds <- MCSeeds
  Requests <- MCRequests
  PipelineCommands <- MCPipelineCommands
  RegistrationActor = api_v1
  MaxRevision = 11
  Callers = {p1, p2}
  Revisions = {}
  MaxStaleness = 0
INVARIANTS
  RegistrationIsWhole
  RepetitionIsHarmless
