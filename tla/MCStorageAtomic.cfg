SPECIFICATION Spec
CONSTANTS
  Procs = {p1}
  Tasks = {t1, t2}
  Ids = {i1, i2}
  Titles = {a, b}
  Patches <- RenameOrMark
  Ops <- ReadWrite
  Null = Null
  Unset = Unset
  Absent = Absent
  Configured = {"pg", "redis"}
  Optional = {"pg", "redis"}
  Faulty = {}
  Retries = 1
  Exclusive = TRUE
  MaxRestarts = 0
INVARIANTS BackendsAgree DeletedIsGone
PROPERTIES ImplementsContextStore
CHECK_DEADLOCK FALSE
