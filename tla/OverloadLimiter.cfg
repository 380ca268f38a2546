SPECIFICATION FairSpec
CONSTANTS
  Requests = {r1, r2, r3, r4, r5}
  MaxInflight = 2
  MaxQueue = 2
INVARIANTS CountsExact WorkConserving
PROPERTIES WaitingEnds SlotsSpec
