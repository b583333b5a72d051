SPECIFICATION MCSpec
CONSTANTS
  Procs = {p1, p2}
  Cpus = {c1, c2}
  Callers = {p1}
  Sleepers = {p1, p2}
  Wanted = {12}
  SECS = 2
  MINS = 2
  HOURS = 2
  SMALL = 10
  Starts = {1, 3, 7}
  Stops = {2, 4, 8}
  NULL = NULL
INVARIANTS
  RecIsKept
PROPERTIES
  TimeIsRead
  AlarmIsAnswered
