CONSTANTS
  a = a
  b = b
  x = x
  None = None
  Unset = Unset
  Names = {a, b}
  Keys = {1, 2}
  Vals = {x}
  TriggerDefs <- MCTriggers
  ConstraintDefs <- MCConstraints
  RecordWidth = 8
  SizeWidth = 16
  Capacity = 3
  NumPages = 6
  MaxRows = 2
  Statements <- TwoSessions
  EmptySessions = 2
SPECIFICATION Spec
INVARIANT TablesApart
CHECK_DEADLOCK FALSE
