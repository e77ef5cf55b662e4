\* A smart token with and without a reserve, bought and sold by given and by
\* required amounts.
SPECIFICATION Spec
CONSTANTS
    gxc = gxc
    gxt = gxt
    gxr = gxr
    gxb = gxb
    pub = pub
    adm = adm
    ann = ann
    T1 = T1
    N1 = N1
    Account = {gxc, gxt, gxr, gxb, pub, adm, ann}
    SystemAccount = gxc
    ReserveAccount = gxr
    TokenAccount = gxt
    BancorAccount = gxb
    MaxSupply = 4
    Exact = 100
    Nick = {N1}
    ValidNick = {}
    Named = {pub}
    Flags = {TRUE}
    AuthSets <- MCSigners
    Token = {T1}
    Issuer <- MCIssuer
    Holders = {ann}
    Payees = {gxb}
    PrepaidNames = {pub}
    MinAmounts = {3}
    Amounts <- MCAmounts
    Maxima = {4}
    Units = {3}
    Funds <- MCFunds
    Roots = {2}
    Admins = {adm, ann}
    Policies <- MCPolicies
    Deposits = {2}
    CoreAmounts = {2, 4}
    SmartAmounts = {1, 3}
    Scales <- MCScales
INVARIANTS TypeOK ReserveCovers ClaimsCovered UnitsHeld NoRoundTripGain
PROPERTIES  AtLeastTheRate
CHECK_DEADLOCK FALSE
