\* Three invokes of one run, one of which may be killed, and an abort.
CONSTANTS
  i1 = i1  i2 = i2  i3 = i3  a1 = a1  a2 = a2  Nobody = Nobody
  Invokes = {i1, i2, i3}
  Aborts = {a1}
  Attempts = 2
  MaxCrashes = 1
SPECIFICATION FairSpec
INVARIANTS OwnerIsRecorded AckedAfterQuiescence
PROPERTIES DirectOnlyWhenUnowned CancelledInvocationEnds
CHECK_DEADLOCK FALSE
