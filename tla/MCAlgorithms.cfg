\* One input of one module in each behaviour; for OsirisSchemas two files of
\* one or two goals and three columns: at most three occurrences in one file
\* and one in the other.
CONSTANTS
  None = None
  Unset = None
  Columns = {1, 2, 3}
  Paths = {1, 2}
  Goals = {1, 2}
  Generic = "GUIDSTRING"
  Aliases = {"CHARACTER", "ITEM"}
  Unknown = {"MODDED"}
  Occurrences <- MCOccurrences
  MaxOccurrences <- MCMaxOccurrences
  MaxWord = 9
  HeaderSize = 2
  PrefixSize = 1
  EntrySize = 1
  MaxListSize = 3
  ReadLimit = 3
  PackageFiles <- MCPackageFiles
  Sizes = {7, 8}
  MaxEntry = 2
  MaxCatalog = 5
  Installations <- MCInstallations
  Renamings <- MCRenamings
  BaseSets = {{1}}
  GoalWorkspaces <- MCGoalWorkspaces
  CallableNames = {"P"}
  Positions = {0, 1, 2}
  JsonLayers <- MCJsonLayers
  InlineLayers <- MCInlineLayers
  Workspaces <- MCWorkspaces
  Disks <- MCDisks
  PackageNames = {"English", "shared", "mod"}
  Starts <- MCStarts
  ConfiguredSets <- MCConfiguredSets
  ModuleLists <- MCModuleLists
  Locations <- MCLocations
  Languages = {"english"}
  DirectorySets <- MCDirectorySets
  Domain <- RuleDomain
  Compatible <- RuleCompatible
  KnownTypes = {"ITEM", "CHARACTER", "STRING"}
  StoryCatalogs <- MCStoryCatalogs
  StoryRules <- MCStoryRules
  StoryGoals <- MCStoryGoals
SPECIFICATION MCSpec
INVARIANTS
  PackageReadsStayInside
  InstalledEvidence
  CallableViewsAgree
  OptionsApplyByField
  IndexedFilesAreServed
  PositionsAgree
  ScansAgree
  RulesAreRead
  FlowTypesAreSound
  ContractViewsAgree
  StatsAreRead
  SchemaMismatchesAreReported
  SchemaTypesAreSettled
  SchemaPathsDoNotDecide
\* A behaviour ends with its input, and files grow to a bound.
CHECK_DEADLOCK FALSE
