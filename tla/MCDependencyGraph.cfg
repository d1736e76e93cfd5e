SPECIFICATION Spec
CONSTANTS
  Node = {claimA, claimB, obligation}
  Target = obligation
  MaxEdges = 3
  EdgeLists <- MCEdgeLists
INVARIANTS
  TypeOK
  SearchIsExact
  EachNodeOnce
PROPERTY SearchReturns
