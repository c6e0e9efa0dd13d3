SPECIFICATION FairSpec
CONSTANTS
  Procs = {p1, p2}
  Tasks = {t1, t2}
  Ids = {i1}
  Titles = {a}
  Patches <- MarkOnly
  Ops <- ReadWrite
  Null = Null
  Unset = Unset
  Absent = Absent
  Configured = {"pg"}
  Optional = {}
  Faulty = {}
  Retries = 1
  Exclusive = FALSE
  MaxRestarts = 0
PROPERTIES CachesConverge DeletionReachesCaches
CHECK_DEADLOCK FALSE
