CONSTANTS
  t1 = t1
  t2 = t2
  t3 = t3
  t4 = t4
  N = 3
  Tasks <- Four
  Cancels <- Four
  Spurious <- Four
SPECIFICATION FairSpec
INVARIANTS MutualExclusion WaitersAlive NeverFull StrandedOnlyWhenUsurped
PROPERTIES FifoWaiters LockGranted
