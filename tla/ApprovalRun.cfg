\* One run with two gates, three concurrent handlers, handlers may be cut short.
SPECIFICATION Spec
CONSTANTS
  Runs = {r1}
  Requests = {q1, q2, q3}
  Tasks = {t1, t2, t3}
  requester = requester
  chief = chief
  deputy = deputy
  Users <- MCUsers
  Deciders <- MCDeciders
  RoleMayDecide <- MCRoles
  Preparation <- MCPreparation
  NumGates = 2
  Interruptible = TRUE
  None = None
SYMMETRY Symmetry
CHECK_DEADLOCK FALSE
INVARIANTS IInv DecidedOnce RequesterNeverApproves GraphExclusive ActsOnApproval
PROPERTY ImplementsGatedRun
