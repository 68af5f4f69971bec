SPECIFICATION Spec
CONSTANTS
  Procs = {p1, p2}
  Operators = {p1}
  Ops = {scan, insert}
  Nobody = Nobody
  None = None
  MaxLines = 3
  MaxDamages = 0
  MaxStops = 0
  MaxTears = 0
INVARIANT SoundNotReanchored
