SPECIFICATION FairSpec
CONSTANTS
  Tasks = {t1, t2}
  Retries = 3
  Faulty = TRUE
  MaxAsked = 4
INVARIANTS TypeOK Unique Bounded
PROPERTIES Answered
CHECK_DEADLOCK FALSE
