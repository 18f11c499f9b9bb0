SPECIFICATION FairSpec
CONSTANTS
    d1 = d1
    d2 = d2
    s1 = s1
    s2 = s2
    Devices = {d1, d2}
    Channels = {1, 2}
    Trims = {0, 1}
    Sources = {s1, s2}
    ChannelLists = {{1, 2}, {2}}
    Lookups = {l1, l2}
    Settings <- MCSettings
    MaxEdits = 1
    MaxCommands = 3
    None = None
INVARIANTS
    VerifiedIsCurrent
    OneAudioOperation
    TemporaryAccounted
PROPERTIES
    PromotedAsTested
    CancelIsFinal
    PanelUnlocks
CHECK_DEADLOCK FALSE
