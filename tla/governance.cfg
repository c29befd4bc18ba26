SPECIFICATION Spec
CONSTANTS
    a1 = a1
    a2 = a2
    a3 = a3
    Accounts = {a1, a2, a3}
    Tokens = {usdc}
    Orgs = {org}
    Escrow = Escrow
    None = None
    MaxStreams = 1
    MaxTime = 2
    Funding = 2
    ADMIN_COOLDOWN_SECONDS = 1
    Amounts = {2}
    EndTimes = {1, 2}
    Durations = {}
    FeeRates = {5000}
    Governors = {a3}
    Delegates = {a3}
    Collectors = {a3}
    Limits = {1}
    Cooloffs = {1}
    I128Max = 1000
    U64Max = 20
INVARIANTS OverrideRateLimited
PROPERTIES OnlyPartiesArePaid
SYMMETRY AccountSymmetry
CHECK_DEADLOCK FALSE
