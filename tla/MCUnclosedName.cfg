\* A property name whose closing quote is not typed yet.
CONSTANTS
  None = None
  Unset = None
  Columns = {1}
  Paths = {1}
  Goals = {1}
  Generic = "GUIDSTRING"
  Aliases = {"CHARACTER", "ITEM"}
  Unknown = {"MODDED"}
  Occurrences = {}
  MaxOccurrences <- MCMaxOccurrences
  MaxWord = 9
  HeaderSize = 2
  PrefixSize = 1
  EntrySize = 1
  MaxListSize = 3
  ReadLimit = 3
  PackageFiles = {}
  Sizes = {}
  MaxEntry = 2
  MaxCatalog = 5
  Installations = {}
  Renamings = {}
  BaseSets = {}
  GoalWorkspaces = {}
  CallableNames = {}
  Positions = {}
  JsonLayers = {}
  InlineLayers = {}
  Workspaces = {}
  Disks = {}
  PackageNames = {}
  Starts = {}
  ConfiguredSets = {}
  ModuleLists = {}
  Locations = {}
  Languages = {}
  DirectorySets = {}
  Domain <- RuleDomain
  Compatible <- RuleCompatible
  KnownTypes = {"ITEM", "CHARACTER", "STRING"}
  StoryCatalogs = {}
  StoryRules = {}
  StoryGoals = {}
SPECIFICATION MCSpec
INVARIANT
  UnclosedNamesAreRead
CHECK_DEADLOCK FALSE
