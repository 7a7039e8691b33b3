\* Three contexts on one shared lock: every mix of readers and writers.
CONSTANTS
  Users = {u1, u2, u3}
  Kind = 1
  IntMax = 127
SPECIFICATION FairSpec
INVARIANTS WordEncodesHolders
PROPERTIES ImplementsRWLock SomebodyGetsIn
