SPECIFICATION Spec
CONSTANTS
  Session = {"s1", "s2"}
  Thread = {t1, t2}
  MaxVersion = 2
  Length <- MCLength
  MaxBytes = 2
  MaxRequests = 3
SYMMETRY MCSymmetry
CHECK_DEADLOCK FALSE
INVARIANT TypeOK
INVARIANT NeverOlderThanEtag
INVARIANT QuietAccounting
INVARIANT FailsOnlyRaced
