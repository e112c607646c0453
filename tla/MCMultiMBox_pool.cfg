CONSTANTS
  p1 = p1
  p2 = p2
  m1 = m1
  m2 = m2
  m3 = m3
  NoMsg = NoMsg
  NumSubs = 3
  Producers <- TwoProducers
  Msgs <- ThreeMsgs
  KeepFreelist = TRUE
SPECIFICATION Spec
SYMMETRY Symmetry
INVARIANT SafeRecycle
PROPERTY ImplementsPromise
\* Storage that two racing readers lose never comes back: with bounded storage
\* everything stops once all of it is lost (the program would go on growing).
CHECK_DEADLOCK FALSE
