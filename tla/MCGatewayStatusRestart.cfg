CONSTANTS
  p1 = p1
  p2 = p2
  PLCs <- OnePLC
  MaxFailures = 3
  MaxLate = 1
  MayLose = FALSE
  MaxUpsets = 2
  MaxRestarts = 1
SPECIFICATION FairSpec
PROPERTY ShownConverges
