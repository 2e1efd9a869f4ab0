SPECIFICATION Spec
CONSTANTS
  Thread = {t1, t2, t3}
  Shards <- TwoShards
  Reselects = FALSE
SYMMETRY Symmetry
INVARIANT NoCircularWait
