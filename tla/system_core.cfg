\* Accounts created by prepaid and by long names, nicknames and flags, limits
\* set and restored, RAM added at changing rates.
SPECIFICATION Spec
CONSTANTS
    gxc = gxc
    gxr = gxr
    gxt = gxt
    ann = ann
    bob = bob
    gxy = gxy
    longname = longname
    gxcram = gxcram
    N1 = N1
    N2 = N2
    T1 = T1
    Account = {gxc, gxr, gxt, ann, bob, gxy, longname, gxcram}
    SystemAccount = gxc
    ReserveAccount = gxr
    TokenAccount = gxt
    MaxSupply = 4
    Exact = 100
    Nick = {N1, N2}
    ValidNick = {N1}
    Named = {gxy}
    Flags = {TRUE, FALSE}
    AuthSets <- MCSigners
    Token = {T1}
    Issuer <- MCIssuer
    Holders = {ann}
    Payees = {}
    PrepaidNames = {gxy}
    MinAmounts = {1}
    Amounts = {1, 2}
    Maxima = {1}
    Units = {}
    Funds <- MCFunds
    Short = {gxy}
    SystemAccounts = {gxcram}
    Uint32 = 4
    DefaultRam = 1
    DefaultGift = 0
    StartTime = 1
    NewNames = {gxy, longname}
    Limited = {longname}
    Limits <- MCLimits
    RamSizes = {2}
    Rates = {1, 2}
    Gifts = {1}
    MaxTime = 3
INVARIANTS TypeOK NicksUnique LimitsRestored RamForSale RamOwedInTime
PROPERTIES IdentityKept ShortNamesPrepaid
