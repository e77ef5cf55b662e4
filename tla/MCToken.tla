------------------------------ MODULE MCToken ------------------------------
(* Instances of Token for TLC.                                              *)
EXTENDS Token, TLC

CONSTANTS gxc, iss, ann,          \* the contract, the issuer, a holder
          T1, T2                  \* tokens

Asset(n, p) == [amount |-> n, prec |-> p]
NoFlags == <<>>
MintCall(flags, min, delay) == [flags |-> flags, min |-> min, delay |-> delay]

MCIssuer == [t \in Token |-> iss]

\* one precision, every unit a whole token
MCUnitScale == 0 :> 1
MCSigners == {{gxc}, {iss}, {ann}}

\* core: a recallable, freezable token with a one second delay
MCCoreMint == {MintCall(NoFlags, None, 1)}
MCFloatMint == MCCoreMint \cup {MintCall([floatable |-> TRUE], None, 1)}
MCNoOptions == {}
MCFreeze == {"frozen" :> TRUE, "frozen" :> FALSE}

\* options: a token that can be paused and whitelisted and is not freezable, or
\* one that starts paused and is not recallable; each may be minted twice
MCOne == {Asset(1, 0)}
MCOptionsMint ==
    {MintCall([whitelistable |-> TRUE, pausable |-> TRUE, freezable |-> FALSE], None, 1),
     MintCall([recallable |-> FALSE, paused |-> TRUE], None, None)}
MCListings ==
    {NoFlags, "paused" :> TRUE, "paused" :> FALSE,
     "whitelist_on" :> TRUE, "whitelist_on" :> FALSE}
MCWhitelist == {"whitelist" :> TRUE, "whitelist" :> FALSE}

\* schedule: two tokens of different delays, one unit of each issued to ann
MCNoMint == {}
MCIssuerAndHolder == {{iss}, {ann}}
MCFreezeOnly == {"frozen" :> TRUE}
ScheduleInit ==
    /\ stat = [t \in Token |->
           [exists |-> TRUE, supply |-> 1, max_supply |-> 1, prec |-> 0,
            opts |-> {"recallable"} \cup IF t = T1 THEN {"freezable"} ELSE {},
            amount |-> 0,
            duration |-> IF t = T1 THEN 1 ELSE 2]]
    /\ accounts = [t \in Token |-> [o \in Owner |->
           IF o = ann THEN [OpenRow(t, FALSE, 0) EXCEPT !.deposit = 1] ELSE NoRow]]
    /\ requests = [o \in Owner |-> [t \in Token |-> NoRequest]]
    /\ allowances = [t \in Token |-> [o \in Owner |-> [s \in Spenders |-> NoAllowance]]]
    /\ deferred = [o \in Owner |-> None]
    /\ now = 0
ScheduleSpec == ScheduleInit /\ [][Next]_vars /\ Fairness

\* two units make a whole token; only whole tokens are deposited, unless floatable
MCPairScale == 0 :> 2
MCZeroToTwo == {Asset(0, 0), Asset(1, 0), Asset(2, 0)}

\* precision: an asset of the same amount in another precision
MCTwoScales == (0 :> 1) @@ (1 :> 10)
MCTwoPrecisions == {Asset(1, 0), Asset(1, 1)}

=============================================================================
