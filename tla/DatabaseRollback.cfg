CONSTANTS
  a = a
  b = b
  x = x
  None = None
  Unset = Unset
  Names = {a, b}
  Keys = {1, 2}
  Vals = {x}
  TriggerDefs <- MCTriggers
  ConstraintDefs <- MCConstraints
  RecordWidth = 8
  SizeWidth = 16
  Capacity = 3
  NumPages = 6
  MaxRows = 2
  Statements <- OneSession
  EmptySessions = 0
SPECIFICATION Spec
INVARIANT RollbackUndoes
CHECK_DEADLOCK FALSE
