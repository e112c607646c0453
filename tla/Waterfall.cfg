\* A plot that is recentred while slices are on their way to it.
SPECIFICATION Spec
CONSTANTS
  Centres = {1, 2}
  Rates = {9, 10}
  num_rows = 3
  num_buckets = 2
  MaxSock = 2
  MaxCmd = 2
INVARIANTS RowsLabelled
CHECK_DEADLOCK FALSE
