SPECIFICATION ConfigSpec
CONSTANTS
  Teamfiles <- MCTeamfiles
  ModelNames <- MCModelNames
  Names <- MCNames
INVARIANT
  LoadErrorsAreReported
CHECK_DEADLOCK FALSE
