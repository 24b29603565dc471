SPECIFICATION Spec
CONSTANTS
  Targets <- MCTargets
  Paths <- MCPaths
  Gpus <- MCGpus
  Parsec <- MCParsec
  Turns <- MCTurns
  Dark = Dark
  Unturned = 0
  Slots = 2
  Builtin <- MCBuiltin
  MinW = 3
  MinH = 2
  Default <- MCDefault
  Empty = Empty
  Broken = Broken
  Ours = "ours"
  Span <- MCSpan
  SizeOf <- MCSizeOf
  Place0 <- MCPlace0
  NamesOf <- MCNamesOf
  NoName = NoName
  D1 = D1
  D2 = D2
  D3 = D3
  D4 = D4
  Settled <- MCSettled
  Presets0 <- MCPresets0
  Options <- MCOptions
  Keys <- MCKeys
  Specs <- MCSpecs
  MaxPresets = 1
  MaxRenumber = 1
SYMMETRY NameSymmetry
INVARIANTS SizeSurvives TakenIsOurs OffMeansDark
PROPERTIES OthersUntouched PlacedApart
CHECK_DEADLOCK FALSE
