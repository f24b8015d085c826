SPECIFICATION Spec
CONSTANTS
  MinorWords = 8
  Threshold = 20
  Requests <- MCRequests
INVARIANTS
  YoungIntact
PROPERTIES
  AllocReturns
