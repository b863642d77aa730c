SPECIFICATION Spec
CONSTANTS
  Policies = {"sliding-window", "streaming-llm", "tova", "h2o", "scissorhands", "snapkv", "pyramidkv"}
  Budgets = {2, 3}
  Weights = {0, 1}
  Denominator = 2
  Buffers = {0, 4}
  Horizon = 9
INVARIANTS IndexesAgree EvictionSuffices
PROPERTY ImplementsLedger
CHECK_DEADLOCK FALSE
