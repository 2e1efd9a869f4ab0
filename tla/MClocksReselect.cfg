SPECIFICATION Spec
CONSTANTS
  Thread = {t1, t2, t3}
  Shards <- TwoShards
  Reselects = TRUE
SYMMETRY Symmetry
INVARIANT NoCircularWait
