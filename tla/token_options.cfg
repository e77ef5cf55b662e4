\* Pause, whitelist and further mints, against the abstract ledger.
SPECIFICATION Spec
CONSTANTS
    gxc = gxc
    iss = iss
    ann = ann
    T1 = T1
    T2 = T2
    Token = {T1}
    Owner = {gxc, iss, ann}
    TokenContract = gxc
    Issuer <- MCIssuer
    Scale <- MCUnitScale
    MaxAmount = 2
    DefaultDelay = 2
    TimeMod = 8
    Values <- MCOne
    MintOptions <- MCOptionsMint
    OptionLists <- MCListings
    RowOptionLists <- MCWhitelist
    AuthSets <- MCSigners
    Requesters = {ann}
    Listed = {iss, ann}
    Approvers = {}
    Spenders = {}
    MaxTime = 1
PROPERTIES LockedFunds ImplementsLedger Custody
