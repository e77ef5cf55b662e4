\* Two schemes, gachas revealed, let lapse, rainchecked and stale.
SPECIFICATION FairSpec
CONSTANTS
    gxg = gxg
    pub = pub
    ann = ann
    S1 = S1
    S2 = S2
    G1 = G1
    G2 = G2
    Scheme = {S1, S2}
    Id = {G1, G2}
    Account = {gxg, pub, ann}
    Self = gxg
    Creator <- MCCreator
    Partner = {pub}
    Byte = 2
    Uint32 = 8
    Offers <- MCOffers
    Players = {ann}
    AuthSets <- MCSigners
    Scores <- MCBits
    ZeroSeeds = {TRUE, FALSE}
    Funds <- MCFunds
    MaxIssued = 2
    MaxSeeds = 3
    MaxTime = 3
INVARIANTS TypeOK Escrow PendingCounted AlarmSet
PROPERTIES LimitsKept GachasDrawn
CHECK_DEADLOCK FALSE
