SPECIFICATION Spec
CONSTANTS
  a = a
  b = b
  a1 = a1
  a2 = a2
  b1 = b1
  s = s
  m = m
  Orders = {a, b}
  Recs = {a1, a2, b1}
  OrderOf <- RunsOf
  Slots = {s}
  Materials = {m}
  Capacity <- TwoMinutes
  OnHand <- TwoPieces
  Minutes = {1}
  Quantities = {1}
  MaxActiveRuns = 1
  MaxMoves = 1
  NoRec = NoRec
INVARIANTS
  FreshPlanFits
  OneOpenPerOrder
  CommitmentsAgree
PROPERTIES
  KeepsProposalContract
  ProposalSettles
CHECK_DEADLOCK FALSE
