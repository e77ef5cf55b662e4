\* The RAM of the blocks since the last change of the rate, in 32 bits.
SPECIFICATION Spec
CONSTANTS
    gxc = gxc
    gxr = gxr
    gxt = gxt
    ann = ann
    bob = bob
    gxy = gxy
    longname = longname
    gxcram = gxcram
    N1 = N1
    N2 = N2
    T1 = T1
    Account = {gxc, gxr, gxt, ann, bob, gxy, longname, gxcram}
    SystemAccount = gxc
    ReserveAccount = gxr
    TokenAccount = gxt
    MaxSupply = 4
    Exact = 100
    Nick = {N1, N2}
    ValidNick = {N1}
    Named = {}
    Flags = {TRUE, FALSE}
    AuthSets <- MCSigners
    Token = {}
    Issuer <- MCIssuer
    Holders = {ann}
    Payees = {}
    PrepaidNames = {}
    MinAmounts = {}
    Amounts = {1}
    Maxima = {}
    Units = {}
    Funds <- MCFunds
    Short = {gxy}
    SystemAccounts = {gxcram}
    Uint32 = 4
    DefaultRam = 1
    DefaultGift = 0
    StartTime = 1
    NewNames = {}
    Limited = {}
    Limits <- MCLimits
    RamSizes = {2}
    Rates = {1, 2}
    Gifts = {}
    MaxTime = 6
INVARIANT RamOwed
