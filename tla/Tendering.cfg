SPECIFICATION MCSpec
CONSTANTS
  an = an
  binh = binh
  chi = chi
  Users <- MCUsers
  Creator = an
  Writers <- MCStaff
  Deciders <- MCStaff
  Mailroom = Mailroom
  Bids = {b1, b2}
  Window = 1
  Extensions = {1}
  MaxDay = 1
  MaxAddenda = 1
  MaxMails = 2
  Interruptible = TRUE
  None = None
  EvalRuns = {e1, e2}
  Bidders = {1, 2}
  Named = {1, 2, 3}
  Codes = {1, 2}
  Matrices <- MCMatrices
  Assessments <- MCAssessments
  MinTotal = 6000
  MaxEvalFaults = 1
  NoSupplier = NoSupplier
  NudgeDays = 1
  NudgeAt = 1
  BlockDays = 2
  BlockAt = 2
  EnabledFrom = 1
  Explanations = {x1}
  Supporters = {s1, s2, author}
  Author = author
  LastDay = 3
  MaxReturns = 2
  MaxOpenCases = 1
  MaxOutages = 1
SYMMETRY MCSymmetry
CHECK_DEADLOCK FALSE
INVARIANTS
  TypesOK ClosingMomentIsSigned RecordedWasSent RegisterMatchesDocuments EvaluatesWhatWasOpened
  ExportsWhatWasApproved
PROPERTIES GateFailsClosed RecordsAreFinal BlockStartsByReturn
