\* Locks of a sender and of the vault for both chains, opened in time or refunded, of a token that has deposits.
SPECIFICATION Spec
CONSTANTS
    gxh = gxh
    gxv = gxv
    ann = ann
    bob = bob
    T1 = T1
    eth = eth
    A = A
    B = B
    key1 = key1
    key2 = key2
    Token = {T1}
    Account = {gxh, gxv, ann, bob}
    Self = gxh
    Vault = gxv
    Issuer <- MCIssuer
    Delegates = {T1}
    Recallable = {T1}
    Name = {A, B}
    Senders = {gxv, ann}
    Locals = {bob}
    Digests = {eth}
    Secrets = {key1}
    Amounts = {1}
    AuthSets <- MCSigners
    Funds <- MCFunds
    MaxSupply = 3
    MaxTime = 1
PROPERTIES Escrow OneOutcome
