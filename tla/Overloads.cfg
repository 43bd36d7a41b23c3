CONSTANTS
  Classes <- MCClasses
  Derivations <- MCDerivations
  Constructors <- MCConstructors
  Conversions <- MCConversions
  StoredTypes <- MCStoredTypes
  Calls <- MCCalls
  CandidateFor <- OverloadCandidates
SPECIFICATION Spec
INVARIANT BestIsFound
INVARIANT ComparisonIsAntisymmetric
INVARIANT BetterIsAcyclic
INVARIANT StoresStaySound
CHECK_DEADLOCK FALSE
