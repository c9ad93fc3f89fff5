SPECIFICATION Spec
CONSTANTS
  Two32 <- MCTwo32
  Two64 <- MCTwo64
  Names <- MCNames
  Asked <- MCAsked
  Foreign <- MCForeign
  DefaultPriority = 32768
INVARIANTS
  TypeOK
  RoundTrip
  SplitsAtTop
PROPERTY
  DeletesWhatWasRead
CHECK_DEADLOCK FALSE
