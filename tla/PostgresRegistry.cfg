SPECIFICATION Spec
SYMMETRY SessionsAreAlike
CONSTANTS
  h1 = h1
  h2 = h2
  actor = actor
  r1 = r1
  r2 = r2
  Hashes <- MCHashes
  Actors <- MCActors
  Reasons <- MCReasons
  Instants = {1}
  Commands <- MCCommands
  Seeds <- MCSeeds
  Sessions = {s1, s2}
  Revisions = {0, 5, 9}
INVARIANTS
  RefusalsHaveACause
PROPERTIES
  ImplementsAtomicDocument
