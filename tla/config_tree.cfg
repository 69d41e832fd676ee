SPECIFICATION Spec
CONSTANTS
  Dirs <- Layers
  Name = "m"
  FileSystems <- ManyFiles
  Keys = {"a", "b", "0", "1"}
  Types <- AllTypes
  Destinations <- Structs
  Resolvers <- Handlers
  SchemeSets <- ManySchemes
  Height = 2  MaxIncludeDepth = 3  PathLength = 3
  NoFile = NoFile  Broken = Broken
INVARIANTS TypeOK  MergedFits LoadedByPath
CHECK_DEADLOCK FALSE
