SPECIFICATION SettingsSpec
CONSTANTS
    Writers = {p1, p2}
    NoWriter = NoWriter
    SecurityKeys <- MCSecurityKeys
    TokenKeys <- MCTokenKeys
    EmailKeys <- MCEmailKeys
    Rank <- MCRank
    Values = {v0, v1}
    Default = v0
    NoValue = NoValue
    Zero = v0
    Valid <- MCValid
    Emails = {e1, e2}
    NoEmail = NoEmail
    MaxTicks = 3
INVARIANTS LogTellsValue OldValueReplaced PatchHeld SetupOnce
PROPERTIES Answered
