SPECIFICATION BuilderSpec
CONSTANTS
    alice = alice
    bob = bob
    small = small
    large = large
    Wallets <- MCWallets
    Configs <- MCConfigs
    asset = asset
    dust = dust
    extra = extra
    Constituents <- MCConstituents
    Small <- MCSmall
    Extras <- MCExtras
    MaxDrafts = 5
    NumSaved = 2
    NumLegacy = 2
    MaxFlows = 2
    MaxAsked = 1
    MaxClicks = 3
SYMMETRY MCSymmetry
INVARIANTS
    DeployedAsChecked
PROPERTIES
    SavesStayOnTheirDraft
CHECK_DEADLOCK FALSE
