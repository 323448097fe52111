\* Three jobs of any kind, one fault: which jobs run beside each other, and
\* what they hold.  A history of two makes finished jobs leave the table.
SPECIFICATION Spec
CONSTANTS
  j1 = j1
  j2 = j2
  j3 = j3
  n1 = n1
  None = None
  Jobs = {j1, j2, j3}
  Nodes = {n1}
  Requests <- AllRequests
  MaxHistory = 2
  RequestLimit = 1
  MaxFaults = 1
SYMMETRY JobSymmetry
CHECK_DEADLOCK FALSE
INVARIANTS
  LaneInvariant
  ConflictingJobsNeverOverlap
