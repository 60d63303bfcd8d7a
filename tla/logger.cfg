\* Two threads, two sinks, two records.
CONSTANTS
  Threads = {t1, t2}
  Sinks = {s1, s2}
  Levels <- MCLevels
  NoThread = NoThread
  Stderr = Stderr
  MaxRecords = 2
  MaxSinks = 2
SPECIFICATION LogSpec
INVARIANTS DeliveredAsTaken SinksRunUnlocked
PROPERTY EveryLogReturns
