SPECIFICATION FairSpec
CONSTANTS
  Req = {q1, q2, q3}
  MaxSession = 3
INVARIANTS
  TypeOK
  SignedForItsSession
  RetriesUseAnotherSession
PROPERTIES
  SequencesOnlyGrow
  RequestsEnd
CHECK_DEADLOCK FALSE
