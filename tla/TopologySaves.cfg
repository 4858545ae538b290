SPECIFICATION Spec
CONSTANTS
    NoConfig = NoConfig
    Drafts <- MCDrafts
    Setup <- MCSetup
    Values <- MCValues
    PCs <- MCPCs
    MaxChanges = 2
    MaxSessions = 2
INVARIANTS
    SavedIsServable
    DisksApart
    PreparedIsUnused
    ConflictIsShared
    OfferIsGood
