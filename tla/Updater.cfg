SPECIFICATION Spec
CONSTANTS
  MaxVersion = 2
  MaxInstalls = 2
  MaxFaults = 1
  MaxStarts = 6
INVARIANT RunnableDisk
INVARIANT OutcomeRecorded
 
 
CHECK_DEADLOCK FALSE
