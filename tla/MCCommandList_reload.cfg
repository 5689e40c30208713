SPECIFICATION CommandsSpec
CONSTANTS
  MaxChanges = 2
  MaxReloads = 1
CHECK_DEADLOCK FALSE
INVARIANTS
  CommandsAreCurrent
