SPECIFICATION MCSpec
CONSTANTS
  Ext <- MCExt
  DependsOn <- MCDependsOn
  Calls = {c1, c2}
  NoCall = NoCall
  Parts = {"lifecycle", "order", "intake", "contracts", "hooks", "params", "launch"}
  Entries = {"e1", "e2"}
  Configs <- MCConfigs
  ConfigsOf <- MCConfigsOf
  NoConfig = "none"
  ProtocolOf <- MCProtocolOf
  DefaultsOf <- MCDefaultsOf
  ModelsOf <- MCModelsOf
  StartSettings <- MCStartSettings
  Projects = {"p1", "p2"}
  Layouts <- MCLayouts
  Names = {"k1"}
  MaxSessions = 2
  MaxSaves = 3
CHECK_DEADLOCK FALSE
ACTION_CONSTRAINT RaceEnds
INVARIANTS
  TypesOK
  ActiveNeedsActiveDeps
  ExtensionRulesHold
  HooksKeepTheirPlace
  ConfiguredIsThere
PROPERTIES
  DisposalIsFinalAndTotal
  ChangesAreAllowed
