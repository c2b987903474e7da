SPECIFICATION FairSpec
CONSTANTS
  g1 = g1
  h1 = h1
  o1 = o1
  Requests = {g1, h1, o1}
  Setups <- MCSetups
  None = None
  First = First
  MaxVersion = 2
  MaxBreaks = 1
CHECK_DEADLOCK FALSE
INVARIANTS
  KeptIsOneAnswer
  ConfirmedIsCurrent
  CopySaves
PROPERTY
  EveryIndexRequestEnds
