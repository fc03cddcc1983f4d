SPECIFICATION Spec
CONSTANTS
  Machines <- MCMachines
  Arguments <- MCArguments
  Docs <- MCDocs
  Criteria <- MCCriteria
  Regions <- MCRegions
  MaxPriority = 8
  MaxRuns = 2
  MaxChallenges = 1
INVARIANTS
  CredentialShowsItsHost
  CredentialScope
  OtpAnswersChallenge
PROPERTIES
  BrowserAsAnnounced
  PreferredFirst
CHECK_DEADLOCK FALSE
