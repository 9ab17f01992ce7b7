\* One run with two gates whose handlers are never cut short; no symmetry.
SPECIFICATION FairSpec
CONSTANTS
  Runs = {r1}
  Requests = {q1, q2, q3}
  Tasks = {t1, t2}
  requester = requester
  chief = chief
  deputy = deputy
  Users <- MCUsers
  Deciders <- MCDeciders
  RoleMayDecide <- MCRoles
  Preparation <- MCPreparation
  NumGates = 2
  Interruptible = FALSE
  None = None
CHECK_DEADLOCK FALSE
PROPERTY DecisionResumes
