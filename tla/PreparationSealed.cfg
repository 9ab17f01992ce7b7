SPECIFICATION Spec
CONSTANTS
  r1 = r1
  r2 = r2
  Runs = {r1, r2}
  an = an
  binh = binh
  Users <- MCUsers
  Creator = an
  Writers <- MCUsers
  Deciders <- MCUsers
  Questions = {q1}
  q1 = q1
  MaxFigures = 3
  Sufficient = {2, 3}
  LowValue <- MCLowValue
  MayApprove <- MCMayApproveTiered
  Staffed <- MCStaffed
  Autonomous = TRUE
  Interruptible = TRUE
  None = None
INVARIANT
  SealsWhatWasApproved
CHECK_DEADLOCK FALSE
