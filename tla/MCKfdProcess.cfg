CONSTANTS
  g1 = g1  g2 = g2  t1 = t1  t2 = t2
  Devs = {g1}
  LateDevs = {g2}
  Lookers = {t1, t2}
  MaxRef = 3
SPECIFICATION Spec
INVARIANTS TypeOK SrcuProtectsRelease ReleaseBeforeFree
PROPERTY ReleaseFrees
