SPECIFICATION Spec
CONSTANTS
  LeaseIds = {l1, l2, l3}
  Conns = {v1, v2}
  Sentries = {s1}
  Streams = {g1}
  Inlines = {h1}
  NoLease = NoLease
INVARIANTS
  LiveIsOwned
PROPERTY DeadClientIsReclaimed
CHECK_DEADLOCK FALSE
