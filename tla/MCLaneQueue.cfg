SPECIFICATION FairSpec
CONSTANTS
  t1 = t1
  t2 = t2
  t3 = t3
  t4 = t4
  t5 = t5
  l1 = l1
  l2 = l2
  Lanes <- MCLanes
  Items <- MCItems
  Units <- MCUnits
INVARIANTS TypeOK HeldOnce NumberedOnce ReportedOnce OwnAnswer FileOrder Complete LossIsReported
PROPERTIES Ends
CHECK_DEADLOCK FALSE
