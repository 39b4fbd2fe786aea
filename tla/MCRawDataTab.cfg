CONSTANTS
  s1 = s1
  s2 = s2
  Submissions <- OneSubmission
  MaxTries = 2
  MaxCalls = 2
  MaxVisits = 2
  FetchMayFail = TRUE
  ConnectionMayBreak = TRUE
  SameOrigin = TRUE
SPECIFICATION FairSpec
INVARIANTS
  RegisteredOnce
  FailureStays
PROPERTIES
  NeverBackwards
  UploadIsListed
