CONSTANTS
  s1 = s1
  s2 = s2
  Placeholder = placeholder
  Unset = unset
  Shas <- MCShas
  History <- MCHistory
  Bundles <- MCBundles
  MaxRevision = 3
  MaxRollbacks = 1
SPECIFICATION Spec
INVARIANT DeployedIsWhatRuns
INVARIANT TeardownLeavesNothing
INVARIANT TeardownIsRefusedOnlyAfterMishaps
INVARIANT DocumentHasItsBundles
