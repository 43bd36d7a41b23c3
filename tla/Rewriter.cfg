SPECIFICATION Spec
CONSTANTS
  Clients <- MCClients
  MaxString = 2
  RopeWidth = 1
  DeltaWidth = 2
INVARIANTS
  StructuresSound
  EditsDoWhatTheySay
PROPERTIES
  ImplementsRewriteBuffer
CHECK_DEADLOCK FALSE
