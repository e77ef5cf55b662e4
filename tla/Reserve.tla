------------------------------- MODULE Reserve -------------------------------
(***************************************************************************)
(* The gxc.reserve contract: it holds system tokens (the underlying asset) *)
(* for the derivative tokens of partners, who deposit them by a payment    *)
(* made before their account exists and by a transfer at the mint.         *)
(*                                                                         *)
(* `core` are the balances in system tokens, the one asset that may be     *)
(* prepaid or underlying, which are not recallable; `stat` and `held` are  *)
(* the derivatives, whose deposits, recalls and freezes are the matter of  *)
(* module Token.  Nothing keeps an underlying asset from being negative.   *)
(*                                                                         *)
(* A rate is the pair of the amounts minted at, which the code divides     *)
(* into a double.  What it makes of that is exact up to one unit, where    *)
(* the truncation of a whole number may lose one, as long as the products  *)
(* stay within the precision of a double; the claims beyond are left out.  *)
(***************************************************************************)
EXTENDS Account, Totals

CONSTANTS
    Token,          \* extended symbols but the system token
    Issuer,         \* the account each is issued by
    ReserveAccount, \* reserve::default_account
    TokenAccount,   \* token::default_account
    MaxSupply,      \* asset::max_amount, 2^62 - 1
    Exact           \* 2^50: the doubles of smaller products are exact enough

CONSTANTS           \* the calls explored
    Holders,        \* accounts that call and are issued tokens
    Payees,         \* accounts that are sent system tokens
    PrepaidNames,   \* accounts that are prepaid for
    MinAmounts,     \* least prepayments
    Amounts,        \* amounts of the system token prepaid and reserved
    Maxima,         \* amounts a derivative is minted for
    Units,          \* amounts of a derivative issued and claimed
    Funds           \* balances in the system token at the start

ASSUME ReserveAssumption ==
    /\ IsFiniteSet(Account) /\ IsFiniteSet(Token)
    /\ {ReserveAccount, TokenAccount} \cup Payees \subseteq Account
    /\ Issuer \in [Token -> Account \ {ReserveAccount}]
    /\ Holders \subseteq Account \ {ReserveAccount}
    /\ PrepaidNames \subseteq Account
    /\ MinAmounts \cup Maxima \cup Units \cup {MaxSupply} \subseteq Nat
    /\ Amounts \subseteq Int /\ Exact \in Int
    /\ Funds \in [Account -> Nat] /\ Funds[ReserveAccount] = 0

VARIABLES
    minAmount,      \* the row of table config
    prepaid,        \* Account -> the row of table prepaid
    reserves,       \* Token -> the row of table reserves
    core,           \* Account -> system tokens
    stat,           \* Token -> supply and maximum of a derivative
    held            \* Token -> Account -> derivative tokens

Positive(n) == IF n > 0 THEN n ELSE 0

reserveVars == <<minAmount, prepaid, reserves, core, stat, held>>

NoAmount == -1
NoPrepaid == [there |-> FALSE, value |-> 0]
NoReserve == [there |-> FALSE, derivative |-> 0, underlying |-> 0]
NoStat == [there |-> FALSE, mintable |-> FALSE, supply |-> 0, max |-> 0]

PrepaidRow == [there : {TRUE}, creator : Account, value : Nat]
ReserveRow == [there : {TRUE}, derivative : Int, underlying : Int, rate : Int \X (Nat \ {0})]
StatRow == [there : BOOLEAN, mintable : BOOLEAN, supply : Nat, max : Nat]

-----------------------------------------------------------------------------
(* The token contract, as far as these contracts use it.                    *)

Moved(bank, from, to, v) ==
    LET paid == [bank EXCEPT ![from] = @ - v] IN [paid EXCEPT ![to] = @ + v]

\* a plain transfer, to which no contract reacts
Send(from, to, v, auth) ==
    /\ from \in auth /\ from # to
    /\ v > 0 /\ v <= core[from]
    /\ core' = Moved(core, from, to, v)
    /\ UNCHANGED <<minAmount, prepaid, reserves, stat, held>>

\* a token is there once; when it is mintable its maximum is raised from then on
CanMint(t, d) ==
    /\ d > 0
    /\ stat[t].there => stat[t].mintable /\ stat[t].max + d <= MaxSupply

Minted(t, d, mintable) ==
    IF stat[t].there THEN [stat EXCEPT ![t].max = @ + d]
    ELSE [stat EXCEPT ![t] = [there |-> TRUE, mintable |-> mintable, supply |-> 0, max |-> d]]

\* with no reserve, or for more than there is a reserve for
MintToken(t, d, mintable, auth) ==
    /\ TokenAccount \in auth
    /\ CanMint(t, d)
    /\ stat' = Minted(t, d, mintable)
    /\ UNCHANGED <<minAmount, prepaid, reserves, core, held>>

\* the issuer issues to itself and sends on
Issue(t, to, v, auth) ==
    /\ Issuer[t] \in auth
    /\ v > 0
    /\ stat[t].there /\ stat[t].supply + v <= stat[t].max
    /\ stat' = [stat EXCEPT ![t].supply = @ + v]
    /\ held' = [held EXCEPT ![t][to] = @ + v]
    /\ UNCHANGED <<minAmount, prepaid, reserves, core>>

\* mutation: what is burned stays in the supply
BurnedMaximum(t, v) == [stat EXCEPT ![t].max = @ - v]

Burned(t, v) == [stat EXCEPT ![t].supply = @ - v, ![t].max = @ - v]

\* units of the issuer's own, or of the token contract's; the reserve is not told
Burn(t, owner, v, auth) ==
    /\ owner \in {Issuer[t], TokenAccount} \cap auth
    /\ v > 0 /\ v <= held[t][owner]
    /\ stat' = Burned(t, v)
    /\ held' = [held EXCEPT ![t][owner] = @ - v]
    /\ UNCHANGED <<minAmount, prepaid, reserves, core>>

-----------------------------------------------------------------------------
(* The actions of the contract.                                             *)

SetMinAmount(v, auth) ==
    /\ ReserveAccount \in auth
    /\ minAmount' = v
    /\ UNCHANGED <<prepaid, reserves, core, stat, held>>

\* one prepayment may wait for a name
Prepay(creator, n, v, auth) ==
    /\ creator \in auth
    /\ minAmount # NoAmount /\ v >= minAmount
    /\ ~prepaid[n].there
    /\ v > 0 /\ v <= core[creator]
    /\ prepaid' = [prepaid EXCEPT ![n] = [there |-> TRUE, creator |-> creator, value |-> v]]
    /\ core' = Moved(core, creator, ReserveAccount, v)
    /\ UNCHANGED <<minAmount, reserves, stat, held>>

\* mutation: what is left is subtracted the wrong way round
PrepaidSwapped(n, u) ==
    IF ~prepaid[n].there THEN prepaid
    ELSE IF u >= prepaid[n].value THEN [prepaid EXCEPT ![n] = NoPrepaid]
    ELSE [prepaid EXCEPT ![n].value = u - @]

\* mutation: the row stays when it has been used up
PrepaidStays(n, u) == prepaid

\* what is left of the prepayment of a name after u were taken of it: more than
\* before when u is negative
PrepaidUsed(n, u) ==
    IF ~prepaid[n].there THEN prepaid
    ELSE IF u >= prepaid[n].value THEN [prepaid EXCEPT ![n] = NoPrepaid]
    ELSE [prepaid EXCEPT ![n].value = @ - u]

Leftover(n, u) == IF u >= prepaid[n].value THEN u - prepaid[n].value ELSE 0

\* the sign of the underlying asset is not looked at
ReserveMint(t, d, u, auth) ==
    LET issuer == Issuer[t]
    IN  /\ issuer \in auth
        /\ IsPartner(issuer)
        /\ ~reserves[t].there
        /\ CanMint(t, d)
        /\ PrepaidUsed(issuer, u)[issuer].value <= MaxSupply
        /\ Leftover(issuer, u) <= core[issuer]
        /\ reserves' = [reserves EXCEPT ![t] =
               [there |-> TRUE, derivative |-> d, underlying |-> u, rate |-> <<u, d>>]]
        /\ prepaid' = PrepaidUsed(issuer, u)
        /\ core' = Moved(core, issuer, ReserveAccount, Leftover(issuer, u))
        /\ stat' = Minted(t, d, TRUE)
        /\ UNCHANGED <<minAmount, held>>

\* mutation: a claim is rounded up
ClaimedUp(t, v) ==
    LET rate == reserves[t].rate
    IN  {c \in {(v * rate[1] + rate[2] - 1) \div rate[2]} : c > 0 /\ c <= core[ReserveAccount]}

\* what v units may be paid: the whole part of their worth, or a unit less when
\* that is all of it and the double is just below
Claimed(t, v) ==
    LET rate == reserves[t].rate
        worth == v * rate[1]
        whole == worth \div rate[2]
        least == IF whole * rate[2] = worth THEN whole - 1 ELSE whole
    IN  {c \in least .. whole : c > 0 /\ c <= core[ReserveAccount]}

CanClaim(t, v) == reserves[t].there /\ v * reserves[t].rate[1] < Exact

ClaimedReserves(t, v, c) ==
    [reserves EXCEPT ![t].derivative = @ - v, ![t].underlying = @ - c]

\* v of what is held by the owner are moved to the account of the token
\* contract, which burns them
Claim(t, owner, v, auth) ==
    /\ owner \in auth
    /\ v > 0 /\ v <= held[t][owner]
    /\ CanClaim(t, v)
    /\ \E c \in Claimed(t, v) :
          /\ reserves' = ClaimedReserves(t, v, c)
          /\ core' = Moved(core, ReserveAccount, owner, c)
    /\ stat' = Burned(t, v)
    /\ held' = [held EXCEPT ![t][owner] = @ - v]
    /\ UNCHANGED <<minAmount, prepaid>>

-----------------------------------------------------------------------------
ReserveInit ==
    /\ minAmount = NoAmount
    /\ prepaid = [n \in Account |-> NoPrepaid]
    /\ reserves = [t \in Token |-> NoReserve]
    /\ core = Funds
    /\ stat = [t \in Token |-> NoStat]
    /\ held = [t \in Token |-> [a \in Account |-> 0]]

ReserveCall(auth) ==
    \/ \E v \in MinAmounts : SetMinAmount(v, auth)
    \/ \E a \in Holders, v \in Amounts :
          \/ \E to \in Payees : Send(a, to, v, auth)
          \/ \E n \in PrepaidNames : Prepay(a, n, v, auth)
    \/ \E t \in Token, d \in Maxima :
          \/ \E mintable \in BOOLEAN : MintToken(t, d, mintable, auth)
          \/ \E u \in Amounts : ReserveMint(t, d, u, auth)
    \/ \E t \in Token, v \in Units :
          \/ \E a \in Holders \cup {Issuer[t]} : Issue(t, a, v, auth)
          \/ \E a \in {Issuer[t], TokenAccount} : Burn(t, a, v, auth)
          \/ \E a \in Holders : Claim(t, a, v, auth)

-----------------------------------------------------------------------------
(* Properties.                                                              *)

ReserveTypeOK ==
    /\ minAmount \in Nat \cup {NoAmount}
    /\ prepaid \in [Account -> PrepaidRow \cup {NoPrepaid}]
    /\ reserves \in [Token -> ReserveRow \cup {NoReserve}]
    /\ core \in [Account -> Nat]
    /\ stat \in [Token -> StatRow]
    /\ held \in [Token -> [Account -> Nat]]

\* What the reserve holds covers all prepayments and underlying assets, each
\* counted once, but for what a reserve is in debt: a prepayment used by a mint
\* in part, in whole or with a transfer on top of it is underlying from then on,
\* and a negative asset, which raises the prepayment or comes without a transfer,
\* is a debt of as much.
ReserveCovers ==
    LET assets == [t \in Token |-> Positive(reserves[t].underlying)]
        debts == [t \in Token |-> Positive(-reserves[t].underlying)]
        payments == [n \in Account |-> prepaid[n].value]
    IN  core[ReserveAccount] + Total(debts) >= Total(payments) + Total(assets)

\* However the units of a derivative are claimed, in parts that are rounded or
\* at once, what is left of its underlying asset pays for what is left of its
\* units, at the rate they were minted at: claims for more units than that, which
\* further mints by the token contract allow, take no more than their rate either.
ClaimsCovered ==
    \A t \in Token : reserves[t].there =>
        reserves[t].derivative * reserves[t].rate[1]
            <= reserves[t].underlying * reserves[t].rate[2]

\* The units of a token are those its holders have, and no more are issued
\* than it was minted for.
UnitsHeld ==
    \A t \in Token : Total(held[t]) = stat[t].supply /\ stat[t].supply <= stat[t].max
=============================================================================
