SPECIFICATION Spec
CONSTANTS
  h1 = h1
  h2 = h2
  h3 = h3
  i1 = i1
  i2 = i2
  Handle <- ThreeHandles
  Interval <- TwoIntervals
SYMMETRY Alike
INVARIANTS
  OneOwner
  LegalUse
  SearchExact
  OkMeansDone
  ClosedOnce
