SPECIFICATION Spec
CONSTANTS
  Packages <- MCPackages
  MaxEdits = 3
  MaxErrors = 1
INVARIANT EditsAnswered
PROPERTY Settles
CHECK_DEADLOCK FALSE
