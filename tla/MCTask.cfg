CONSTANTS
  Workers = {w1, w2}
  Callers = {c1, c2}
  PatientOwner = TRUE
SPECIFICATION TasksSpec
INVARIANT RunsAlone
PROPERTY GoesOn
CHECK_DEADLOCK FALSE
