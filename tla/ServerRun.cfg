SPECIFICATION Spec
CONSTANTS
  ConfigMaps <- TwoConfigMaps
  PluginNames <- TwoPlugins
  FileNames <- TwoFiles
  Bundles <- SomeBundles
  MaxEdits = 3
  Configs <- SomeConfigs
  PluginConfigs <- TokenLoginsOnly
INVARIANTS
  DependenciesBuilt
  LoadsWhatWasListed
PROPERTIES
  NeverStuck
  RegistryCatchesUp
