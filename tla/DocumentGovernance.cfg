SPECIFICATION Spec
CONSTANTS
  h1 = h1
  h2 = h2
  actor = actor
  r1 = r1
  r2 = r2
  Hashes <- MCHashes
  Actors <- MCActors
  Reasons <- MCReasons
  Instants <- MCInstants
  Commands <- MCCommands
  Seeds <- MCSeeds
  Callers = {p1, p2}
  Revisions = {0, 1, 4, 5, 7, 8, 9, 12, 13, 14}
  MaxStaleness = 1
INVARIANTS
  Consistent
  StoreIsAudited
  AnswersAreTrue
  ApprovedWasProcessed
PROPERTIES
  AtomicSpec
  DocumentOnlyGrows
  SomeoneWins
