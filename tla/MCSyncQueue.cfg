SPECIFICATION FairSpec
CONSTANTS
  Workers = {w1, w2}
  i1 = i1
  Items = {i1}
  Plans <- MCPlans
  Vols = {1, 2}
  Null = null
  MaxOps = 2
  MaxUpsets = 2
INVARIANTS
  EffectOnce
  AppliedHasEffect
  OnlyFailuresStrand

  
CHECK_DEADLOCK FALSE
