SPECIFICATION Spec
CONSTANTS
    Calls = {c1, c2}
    MaxUpgrades = 1
    Accounts = {a1, a2}
    MaxStarts = 2
    MaxMoves = 4
    Addresses = {a}
    MaxLedger = 4
    MaxEvents = 3
    Wallets = {w1, w2}
    MaxKits = 1
    MaxAttempts = 1
    Readers = {c1}
    KnownIds = {r2}
    Emitted = {r1}
    MaxSettings = 1
    MaxContexts = 2
    MaxTurns = 1
    MaxUses = 2
    LaceAccounts = {a1}
    MaxClicks = 2
    MaxPolls = 2
    Contracts = {k1, k2}
    Pure = {k2}
    Writes = {m1}
    Queries = {q1}
    Names = {n1, n2}
    MaxLoads = 2
    Writers = {m1, m2}
    MaxItems = 2
    MaxFiles = 3
    MaxDepth = 2
    Ids = {i1, i2, i3}
    PageSize = 1
    MaxChanges = 2
    LogSize = 3
    OfAnyKind = 1
    MaxBlock = 2
    MaxLimit = 1
    MaxLag = 1
    Labels = {n1}
    MaxVectors = 2
    MaxConfigs = 3
    MaxWatchers = 2
INVARIANTS
    LookupsTold
    LoadsTold
    TransfersTold
    AnswerIsTrue
    RolesKept
    BuiltAreReleased
    ListenersServed
    SecretsStayPrivate
    ArchivesRight
    
    SettingsAgree
    HistoryShown
    FeaturesFit
    ValuesRight
    RelayedAsShown
    ConformanceJudged
CHECK_DEADLOCK FALSE
