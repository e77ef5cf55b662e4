\* A recallable token in whole units or floating, the issuer and one holder, a delay of one second.
SPECIFICATION Spec
CONSTANTS
    gxc = gxc
    iss = iss
    ann = ann
    T1 = T1
    T2 = T2
    Token = {T1}
    Owner = {gxc, iss, ann}
    TokenContract = gxc
    Issuer <- MCIssuer
    Scale <- MCPairScale
    MaxAmount = 2
    DefaultDelay = 2
    TimeMod = 8
    Values <- MCZeroToTwo
    MintOptions <- MCFloatMint
    OptionLists <- MCNoOptions
    RowOptionLists <- MCFreeze
    AuthSets <- MCSigners
    Requesters = {iss, ann}
    Listed = {ann}
    Approvers = {iss}
    Spenders = {ann}
    MaxTime = 2
INVARIANTS TypeOK Conservation WholeDeposits
PROPERTIES LockedFunds DelayHonoured AllowanceSpent Custody
