SPECIFICATION Spec
CONSTANTS
  Key = {k1}
  Thread = {t1, t2}
  Worker = {w1, w2}
  NoCaller = none
  MaxData = 1
  MaxQueue = 1
  MaxLapses = 1
  MaxFaults = 1
INVARIANT FreshIsCurrent
SYMMETRY Interchangeable
