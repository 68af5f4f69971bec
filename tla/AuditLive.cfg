SPECIFICATION FairSpec
CONSTANTS
  Procs = {p1, p2}
  Operators = {p1}
  Ops = {scan, insert}
  Nobody = Nobody
  None = None
  MaxLines = 2
  MaxDamages = 1
  MaxStops = 1
  MaxTears = 0
PROPERTIES Recovers AppendReturns
