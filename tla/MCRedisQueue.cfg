CONSTANTS
  w1 = w1
  w2 = w2
  k1 = k1
  none = none
  nobody = nobody
  Ids <- MCIds
  Workers = {w1, w2}
  Keys = {k1}
  NoKey = none
  KeyOf <- MCKeyOf
  Priority <- MCPriority
  MaxAttempts <- MCMaxAttempts
  Serves <- MCServes
  Nobody = nobody
  Queues = {"high", "low"}
  Names = {"mail"}
  QueueOf <- MCQueueOf
  NameOf <- MCNameOf
  QueuesOf <- MCQueuesOf
  NamesOf <- MCNamesOf
  TopPriority = 1
  Band = 10
  Times = {0, 1}
  Limits = {1, 2}
SPECIFICATION Spec
CONSTRAINT MCAttempts
INVARIANTS StructuresAgree ClaimsFirstDue
PROPERTY ImplementsAdapter
