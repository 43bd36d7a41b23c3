CONSTANTS
  Tables <- MCTables
  Keywords <- MCKeywords
  Programs <- MCPrograms
SPECIFICATION Spec
INVARIANT ExpandsAsTheStandardSays
INVARIANT ArgumentsAreExpandedOnce
PROPERTY Terminates
CHECK_DEADLOCK FALSE
