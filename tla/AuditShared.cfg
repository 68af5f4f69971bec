SPECIFICATION Spec
CONSTANTS
  Procs = {p1, p2, p3}
  Operators = {p1}
  Ops = {scan, insert}
  Nobody = Nobody
  None = None
  MaxLines = 3
  MaxDamages = 1
  MaxStops = 0
  MaxTears = 1
SYMMETRY Interchangeable
INVARIANTS GaplessChain AckedKept NoFalseAlarm LossIsVisible
PROPERTIES BrokenRefusesAppends ImplementsOperationLog RecoveryLasts
