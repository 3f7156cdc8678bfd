SPECIFICATION AnySpec
CONSTANTS
  None = None
  NoTx = NoTx
  u1 = u1
  u2 = u2
  v1 = v1
  a1 = a1
  s1 = s1
  s2 = s2
  tA = tA
  t1 = t1
  t2 = t2
  t3 = t3
  t4 = t4
  oa = oa
  ob = ob
  oc = oc
  od = od
  oe = oe
  of = of
  j1 = j1
  j2 = j2
  lg = lg
  p1 = p1
  i1 = i1
  i2 = i2
  i3 = i3
  g1 = g1
  g2 = g2
INVARIANTS
  AnalysisTypeOK
  
PROPERTIES
  StepsAreEarned
  AnalysisEnds
CHECK_DEADLOCK FALSE
