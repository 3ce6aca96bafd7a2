SPECIFICATION Spec
CONSTANTS
  b = b
  c = c
  rules = rules
  r1 = r1
  r2 = r2
  Source <- MCSource
  RuleFile = rules
  Hides <- MCHides
  InitialTrees <- OneTree
  MaxVersion = 2
  MaxCommits = 2
  MaxChanges = 2
  Runner = {r1, r2}
  Flickers = {}
SYMMETRY Symmetry
INVARIANTS GuardExclusive SnapshotTrustworthy TextDescribesPublished
PROPERTY ImplementsPublication
