SPECIFICATION ConfigSpec
CONSTANTS
  Teamfiles <- MCTeamfiles
  ModelNames <- MCModelNames
  Names <- MCNames
INVARIANTS
  ValidConfigsBuild
CHECK_DEADLOCK FALSE
