SPECIFICATION Spec
CONSTANTS
  p1 = p1
  p2 = p2
  p3 = p3
  p4 = p4
  Procs = {p1, p2, p3}
  Sharded = {}
  Schedules <- Faultless
  Absent = Absent
  Empty = Empty
  Stale = Stale
  Ghost = Ghost
SYMMETRY Symmetry
INVARIANT MutualExclusion
CHECK_DEADLOCK FALSE
