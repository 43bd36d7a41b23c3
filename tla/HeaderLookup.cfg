SPECIFICATION Spec
CONSTANTS
  main = main
  f0 = f0
  f2 = f2
  g1 = g1
  g3 = g3
  gs = gs
  u = u
  plain = plain
  Fg = Fg
  abs = abs
  FFw = FFw
  FBundle = FBundle
  UBundle = UBundle
  NoFramework = NoFramework
  NoFile = NoFile
  NoBundle = NoBundle
  Unknown = Unknown
  Predefines = Predefines
  MainFile = main
  NumDirs = 4
  SystemDirIdx = 1
  NoCurDirSearch = FALSE
  SearchDirs <- MCSearchDirs
  Names = {plain, Fg, abs}
  Absolute = {abs}
  Frameworks = {FFw}
  FrameworkOf <- MCFrameworkOf
  Files <- MCFiles
  Bundles <- MCBundles
  FileSystems <- MCFileSystems
  MaxAllowedIncludeStackDepth = 3
INVARIANTS
  CacheTransparent
  FrameworkFoundInOneDir
  IncludeNextAdvances
PROPERTY
  AnswersStable
