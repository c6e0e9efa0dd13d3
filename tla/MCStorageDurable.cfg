SPECIFICATION Spec
CONSTANTS
  Procs = {p1, p2}
  Tasks = {t1, t2}
  Ids = {i1}
  Titles = {a}
  Patches <- MarkOnly
  Ops <- AllOps
  Null = Null
  Unset = Unset
  Absent = Absent
  Configured = {"pg", "redis"}
  Optional = {}
  Faulty = {"redis"}
  Retries = 1
  Exclusive = FALSE
  MaxRestarts = 1
INVARIANTS TypeOK AckedIsFound
SYMMETRY Symmetry
CHECK_DEADLOCK FALSE
