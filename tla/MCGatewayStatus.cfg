CONSTANTS
  p1 = p1
  p2 = p2
  PLCs <- TwoPLCs
  MaxFailures = 2
  MaxLate = 1
  MayLose = TRUE
  MaxUpsets = 2
  MaxRestarts = 1
SPECIFICATION FairSpec
INVARIANTS
  BeliefIsShown
  DetectedInTwice
PROPERTIES
  ReportsAlternate
  BeliefConverges
