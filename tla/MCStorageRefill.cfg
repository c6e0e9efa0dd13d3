SPECIFICATION Spec
CONSTANTS
  Procs = {p1}
  Tasks = {t1, t2}
  Ids = {i1}
  Titles = {a}
  Patches <- MarkOnly
  Ops <- WithoutUpdate
  Null = Null
  Unset = Unset
  Absent = Absent
  Configured = {"pg"}
  Optional = {}
  Faulty = {}
  Retries = 1
  Exclusive = FALSE
  MaxRestarts = 0
INVARIANTS DeletedIsGone
CHECK_DEADLOCK FALSE
