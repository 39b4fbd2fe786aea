CONSTANTS
  t1 = t1
  t2 = t2
  w1 = w1
  w2 = w2
  Tags <- TwoTags
  Writers <- TwoWriters
  MaxVersion = 3
SPECIFICATION FairSpec
INVARIANTS
  HiddenOnlyIfOvertaken
PROPERTIES
  KeepsThePromise
  NeverBack
  ChangesArrive
