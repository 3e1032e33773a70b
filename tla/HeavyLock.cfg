SPECIFICATION FairSpec
CONSTANTS
  p1 = p1
  p2 = p2
  p3 = p3
  p4 = p4
  Procs = {p1, p2, p3, p4}
  Sharded = {p4}
  Schedules <- MCSchedules
  Absent = Absent
  Empty = Empty
  Stale = Stale
  Ghost = Ghost
INVARIANTS ExclusiveWhenSerial LockedWhileRunning NothingLeaked SomeoneRan
PROPERTY StaleTakenOver
CHECK_DEADLOCK FALSE
