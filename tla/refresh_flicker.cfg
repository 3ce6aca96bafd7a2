SPECIFICATION Spec
CONSTANTS
  b = b
  c = c
  rules = rules
  r1 = r1
  r2 = r2
  Source <- MCSource
  RuleFile = rules
  Hides <- MCHides
  InitialTrees <- MCTrees
  MaxVersion = 3
  MaxCommits = 2
  MaxChanges = 4
  Runner = {r1}
  Flickers = {b}
INVARIANT SnapshotTrustworthy
