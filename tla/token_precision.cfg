\* Calls with an asset of another precision.
SPECIFICATION Spec
CONSTANTS
    gxc = gxc
    iss = iss
    ann = ann
    T1 = T1
    T2 = T2
    Token = {T1}
    Owner = {gxc, iss, ann}
    TokenContract = gxc
    Issuer <- MCIssuer
    Scale <- MCTwoScales
    MaxAmount = 2
    DefaultDelay = 2
    TimeMod = 8
    Values <- MCTwoPrecisions
    MintOptions <- MCCoreMint
    OptionLists <- MCNoOptions
    RowOptionLists <- MCNoOptions
    AuthSets <- MCSigners
    Requesters = {iss, ann}
    Listed = {}
    Approvers = {}
    Spenders = {}
    MaxTime = 1
INVARIANTS OnePrecision
