SPECIFICATION Spec
CONSTANTS
  Object <- MCObject
  Late <- MCLate
  Ocp = TRUE
  Arguments <- MCArguments
  MaxTrouble = 1
INVARIANTS TypeOK SuccessMeansGone NotAskedUntouched OrphansExplained
PROPERTY ScriptEnds
CHECK_DEADLOCK FALSE
