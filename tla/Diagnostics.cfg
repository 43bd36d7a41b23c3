SPECIFICATION Spec
CONSTANTS
  Builtin <- MCBuiltin
  DiagClass <- MCDiagClass
  DefaultMapping <- MCDefaultMapping
  NoChanges = "no_changes"
  Custom <- MCCustom
  CustomLevel <- MCCustomLevel
  GroupMembers <- MCGroupMembers
  CommandLines <- MCCommandLines
  MaxExtensionDepth = 1
  MaxReports = 3
INVARIANTS
  ShownWithNotesAndCounted
  OptionsHonoured
  FixedFileOnlyIfFixed
CHECK_DEADLOCK FALSE
