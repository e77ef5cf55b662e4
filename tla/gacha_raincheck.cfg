\* One grade, which a draw may miss.
SPECIFICATION Spec
CONSTANTS
    gxg = gxg
    pub = pub
    ann = ann
    S1 = S1
    S2 = S2
    G1 = G1
    G2 = G2
    Scheme = {S1}
    Id = {G1, G2}
    Account = {gxg, pub, ann}
    Self = gxg
    Creator <- MCCreator
    Partner = {pub}
    Byte = 2
    Uint32 = 8
    Offers <- MCLone
    Players = {ann}
    AuthSets <- MCSigners
    Scores <- MCBits
    ZeroSeeds = {FALSE}
    Funds <- MCFunds
    MaxIssued = 2
    MaxSeeds = 3
    MaxTime = 3
INVARIANTS RefusedForCause
