\* An answered request is the end.
CHECK_DEADLOCK FALSE
SPECIFICATION AlgorithmsSpec
CONSTANTS
  Asked = {"tags", "shared line"}
  Unresolved = unresolved
  Ambiguous = ambiguous
  NoReport = noReport
  SymbolsPath = "symbols"
  IgnorePath = "ignore"
  RoutesPath = "routes"
  NoPath = "none"
  Paths = {"p", "q", "r"}
  NoSource = "none"
  CorpusShards = 2
  AnswerableCases = 2
  TopThreeGate <- MCTopThreeGate
  TopOneSlack = 1
  Nobody = 0
  BadDigest = "bad"
  ManifestPath <- Manifest
  NoDigest = "bad"
  Spdx = {"MIT"}
  DepthLimit = 8
  TopPlaces = 3
  FieldWeight = 3
  Nowhere = 0
  HistoryWindow = 3
  MaxCommitPaths = 3
  MaxCommitSharePercent = 60
  MinTogether = 2
  MinJaccardPpm = 600000
  NoHistory = noHistory
  FileNames = {".rr/.gitignore", "AGENTS.md", "agents.md", "CLAUDE.md", "SKILL.md"}
  IgnoreFile = ".rr/.gitignore"
  AgentsFile = "AGENTS.md"
  ClaudeFile = "CLAUDE.md"
  SkillFile = "SKILL.md"
  Folded <- MCFolded
  FileScope = ""
  DefKinds <- MCDefKinds
  Names <- MCNames
  Words = {"a", "b", "c"}
  MaxFallbackBytes = 4
  MaxFallbackIdentifiers = 2
  MaxLines = 3
  MaxBytes = 4
  ContextBefore = 1
  ContextAfter = 2
  Symbols = {1, 2, 3, 4}
  Streams = {1, 2, 3}
  TermOf <- MCTermOf
  Gain <- MCGain
  AnchorOf <- MCAnchorOf
  CandidateLimit = 2
  ResultLimit = 2
  NoneBelow = 2
  DirectAt = 4
  MarginAt = 40
INVARIANT OnlyCommentsAbsorbed
