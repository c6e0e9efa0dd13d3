SPECIFICATION FairSpec
CONSTANTS
  Procs = {p1}
  Tasks = {t1, t2}
  Ids = {i1}
  Titles = {a, b}
  Patches <- RenameOrMark
  Ops <- ReadWrite
  Null = Null
  Unset = Unset
  Absent = Absent
  Configured = {"pg"}
  Optional = {}
  Faulty = {}
  Retries = 1
  Exclusive = FALSE
  MaxRestarts = 0
PROPERTIES NoUpdateLost
CHECK_DEADLOCK FALSE
