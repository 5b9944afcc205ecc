\* One visit of one page, with a few clicks and every order of their answers.
SPECIFICATION ConsoleSpec
CONSTANTS
    Platforms = {p1, p2}
    Rules = {r1, r2}
    DefaultRule = r1
    RuleSlots = 2
    Values = {v1, v2}
    FirstValue = v1
    Secrets = {s1}
    Tokens = {k1, k2}
    FirstToken = k1
    SettingSlots = 2
    Channels = {c1, c2}
    CfgKeys = {key}
    CfgValues = {"a", "b"}
    DefaultCfg <- DefaultsOf
    CfgSlots = 3
    OpsChannels = {c1}
    OpsSlots = 3
    MaxRecords = 1
    Users = {me, other}
    Me = me
    Urls = {u1, u2}
    TotpKeys = {x1, x2}
    MaxCodes = 1
    AccountSlots = 3
    Tabs = {t1, t2}
    MaxSessions = 2
    MaxMoves = 2
    MaxLog = 4
    MaxUpsets = 2
    HubSize = 3
    HistorySize = 3
    ReplaySize = 2
    ChannelSize = 1
    MaxEntries = 3
    MaxVisits = 2
    MaxPolls = 2
INVARIANTS
    ConsoleTypeOK
    NavigationSettles
    ListIsFresh
    BusyHasCause
    
    
    
    OpsFlagsHaveCause
    SecondFactorIsHeld
    
    ShownIsRefreshed
PROPERTIES
    LoginLands
    SavedIsShown
    SectionKept
    
    
    CodeWasForThis
CHECK_DEADLOCK FALSE
