SPECIFICATION FairSpec
CONSTANTS
  G = G
  H = H
  main = main
  a = a
  b = b
  builtin = builtin
  NoMacro = NoMacro
  NoFile = NoFile
  Macros <- MCMacros
  Files <- MCFiles
  MainFile = main
  Predefines = builtin
  Bodies <- MCBodies
  NoBody = NoBody
  Contents <- MCContents
  MaxAllowedIncludeStackDepth = 4
INVARIANTS
  SkipStateConsistent
  SkippingFollowsTheText
  ControllingMacroSoundWithoutElse
  IncludeDepthBounded
PROPERTIES
  ImportedOnce
  PreprocessingTerminates
