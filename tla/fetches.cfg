SPECIFICATION FetchSpec
CONSTANTS
  None = None
  Accounts = {a1, a2}
  Keys = {k, None}
  HookKey = k
  Retries = 1
  MaxCalls = 3
  MaxEpoch = 3
INVARIANTS DataIsCurrent
PROPERTIES LoadingEnds
