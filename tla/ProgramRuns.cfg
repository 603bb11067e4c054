SPECIFICATION Spec
CONSTANTS
  Last = 3
  MaxRuns = 3
INVARIANTS TypeOK OnlyLastUnresolved FailFast ReportIsTrue ExitIsTrue
PROPERTIES DecisionStands
CHECK_DEADLOCK FALSE
