\* One name on two marketplaces, two versions, two deaths at any point; two
\* plugins of up to two tools; two hook commands; three plugin tools; two changes
\* of a settings file; names of three letters and command lines of two parts.
SPECIFICATION ExtensionsSpec
CONSTANTS
  demo = demo
  Names <- MCNames
  Versions = {1, 2}
  Tools <- MCTools
  BuiltinTools = {"bash"}
  DefaultEnabled <- MCNames
  MaxDeaths = 2
  Plugins = 2
  ToolEntries <- MCToolEntries
  MaxWrites = 2
  Hooks = 2
  Pipe = 2
  Payload = 4
  PluginTools <- MCPluginTools
  Tokens <- MCTokens
  Normal <- MCNormal
  Terms <- MCTerms
  Relation <- MCRelation
  MaxChanges = 2
  ServerLetters = 3
  ToolLetters = 2
  PartLetters = 2
  MaxParts = 2
INVARIANTS
  PluginsInv
  HooksInv
  RegistryInv
  ConfigurationInv
CHECK_DEADLOCK FALSE
