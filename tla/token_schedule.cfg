\* Requests of two tokens with delays of one and two seconds, settled by the deferred transaction.
SPECIFICATION ScheduleSpec
CONSTANTS
    gxc = gxc
    iss = iss
    ann = ann
    T1 = T1
    T2 = T2
    Token = {T1, T2}
    Owner = {gxc, iss, ann}
    TokenContract = gxc
    Issuer <- MCIssuer
    Scale <- MCUnitScale
    MaxAmount = 1
    DefaultDelay = 2
    TimeMod = 8
    Values <- MCOne
    MintOptions <- MCNoMint
    OptionLists <- MCNoOptions
    RowOptionLists <- MCFreezeOnly
    AuthSets <- MCIssuerAndHolder
    Requesters = {ann}
    Listed = {ann}
    Approvers = {}
    Spenders = {}
    MaxTime = 2
PROPERTIES AlarmSet WithdrawalsSettle
