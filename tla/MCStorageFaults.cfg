SPECIFICATION FairSpec
CONSTANTS
  Procs = {p1}
  Tasks = {t1, t2}
  Ids = {i1}
  Titles = {a}
  Patches <- MarkOnly
  Ops <- AllOps
  Null = Null
  Unset = Unset
  Absent = Absent
  Configured = {"pg", "redis"}
  Optional = {"pg", "redis"}
  Faulty = {"pg", "redis"}
  Retries = 2
  Exclusive = FALSE
  MaxRestarts = 0
INVARIANTS NoErrorSurfaces
PROPERTIES Answered
CHECK_DEADLOCK FALSE
