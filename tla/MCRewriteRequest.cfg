SPECIFICATION Spec
CONSTANTS
  c1 = c1  c2 = c2  c3 = c3  c4 = c4  c5 = c5  k1 = k1  k2 = k2  k3 = k3
  Contexts = {c1, c2, c3, c4, c5}
  Page <- MCPage
  Successors <- MCSuccessors
  Keys = {k1, k2, k3}
  Key <- MCKey
  None = None
INVARIANTS WakeupNotLost RefsMatch SlowHoldsUpSlow WorksInTurn FetchAnsweredOnce DriverKept
PROPERTIES RendersWhileOpen RequestEnds
\* The driver was given back.
CHECK_DEADLOCK FALSE
