SPECIFICATION HFairSpec
CONSTANTS
  Threads = {t1, t2}
  Tokens = {k1, k2}
  Sessions = {s1, s2}
  Ttl = 1
  MaxEntries = 1
  Clock = {0, 1, 2}
  MinTime = 0
  MaxTime = 2
  NoEntry = NoEntry
  NoCall = NoCall
  NoThread = NoThread
  NoBinding = NoBinding
INVARIANTS
  HTypeOK
  MutexDiscipline
  MapIsTheBindingsThatStand
  WithinCapacity
PROPERTIES
  VerifyIsExact
  PoisonIsFinal
  ImplementsPort
  LockReleased
