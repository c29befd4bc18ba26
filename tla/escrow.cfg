SPECIFICATION Spec
CONSTANTS
    a1 = a1
    a2 = a2
    a3 = a3
    Accounts = {a1, a2}
    Tokens = {usdc}
    Orgs = {}
    Escrow = Escrow
    None = None
    MaxStreams = 2
    MaxTime = 4
    Funding = 3
    ADMIN_COOLDOWN_SECONDS = 2
    Amounts = {2, 3}
    EndTimes = {4}
    Durations = {2}
    FeeRates = {0}
    Governors = {}
    Delegates = {}
    Collectors = {}
    Limits = {}
    Cooloffs = {}
    I128Max = 1000
    U64Max = 20
INVARIANTS NeverOverReleased EscrowAccounted Solvent CountNeverOverstates
PROPERTIES VestedNeverRegresses PauseFreezesAccrual
SYMMETRY AccountSymmetry
CHECK_DEADLOCK FALSE
