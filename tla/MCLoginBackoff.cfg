SPECIFICATION FairSpec
CONSTANTS
  Threads = {t1, t2}
  MaxFailures = 1
  BaseDelay = 1
  MaxDelay = 2
  Window = 3
  Mistakes = 2
  LastMistake = 1
  MaxNow = 4
INVARIANTS TypeOK
PROPERTIES DenialIsEarned ExactAlone LetIn
