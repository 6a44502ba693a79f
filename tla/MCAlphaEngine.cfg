CONSTANTS
    p1 = p1
    p2 = p2
    e1 = e1
    e2 = e2
    Proc = {p1, p2}
    Experiment = {e1, e2}
    Content = {s1, s2}
    Outcome = {r1, r2}
    Person = {ann, bob}
    Nil = Nil
    MaxWrites <- Writes
    About <- WritesAbout
    MaxFaults = 1
    Periods = 2
    PerPeriod = 2
    ZeroAt = {2}
    PageSizeCap = 1
    MaxCalls = 3
    MaxNews = 3
    NoCall = NoCall
    FloatBits = 4
    Base = 10
    Digits = 2
    MaxStaleness = 1
    FoldCount = {1, 2, 3}
    Campaign = {"open_interest", "funding_rate", "funding_delta", "oi_velocity"}
    ReadingAt <- Readings
    MarkAt <- Marks
    Day = 2
    Horizon = 2
    Spacing = 2
    Window = 2
    Lookback = 2
    WarmupDays = 2
    Tolerance = 1
    RegimeBar <- Bar
SPECIFICATION EngineSpec
SYMMETRY Symmetric
CHECK_DEADLOCK FALSE
INVARIANTS
    
    ReadsAPrefix
    SoleWriterReplays
    SoundSeries
    
    PartsImplyWhole
    
