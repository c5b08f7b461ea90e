\* The tools one by one: two endorsements crossed, two mayors mailed, two cells, two names.
SPECIFICATION Spec
CONSTANTS
  None = None
  Entries <- MCEntries
  Registers <- MCRegisters
  Directories <- MCDirectories
  Likeness <- MCLikeness
  Tight <- MCTight
  Near <- MCNear
  DeptOf <- MCDeptOf
  MaxEntries = 2
  Base <- MCBase
  Layers <- MCLayers
  Mayors <- MCMayors
  Lists <- MCLists
  Configs <- MCConfigs
  Cells <- MCCells
  Widths = {2}
  Heights = {0, 1}
  Words <- MCWords
  Possibilities <- MCPossibilities
  Cutoff = 60
  NoWord = NoWord
INVARIANTS
  EveryTargetIsAccountedFor
  NobodyIsThankedAgainstTheSources
  OnlyTheProvenAreThanked
  AcceptedTextsRender
  ListsComeBack
  ClosestIsTheReference
CHECK_DEADLOCK FALSE
