SPECIFICATION Spec
CONSTANTS
  CommandLines <- MCCommandLines
  Stuck <- MCStuck
INVARIANTS
  FailuresAreContained
  SourcesSurvive
  SuccessIsComplete
