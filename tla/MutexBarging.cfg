CONSTANTS
  t1 = t1
  t2 = t2
  t3 = t3
  t4 = t4
  N = 2
  Tasks <- Three
  Cancels <- Nobody
  Spurious <- Nobody
SPECIFICATION Spec
INVARIANT NoStrandedWaiter
