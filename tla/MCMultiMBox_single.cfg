CONSTANTS
  p1 = p1
  p2 = p2
  m1 = m1
  m2 = m2
  m3 = m3
  NoMsg = NoMsg
  NumSubs = 1
  Producers <- TwoProducers
  Msgs <- ThreeMsgs
  KeepFreelist = FALSE
SPECIFICATION FairSpec
PROPERTY EventuallyReclaimed
