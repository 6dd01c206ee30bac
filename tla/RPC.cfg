SPECIFICATION Spec
CONSTANTS
  a = a
  b = b
  Junk = Junk
  Null = Null
  MaxBuffers = 4
  Clients <- MCClients
  Setups <- PassingSetups
INVARIANTS DatabaseSeesRequest AnswersArrive TransfersSafe BuffersAccounted RejectedMeansUntouched
PROPERTY CallsReturn
CHECK_DEADLOCK FALSE
