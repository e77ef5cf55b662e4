------------------------------- MODULE Bancor -------------------------------
(***************************************************************************)
(* The gxc.bancor contract: it sells and buys back smart tokens for the    *)
(* connected (system) token, at the price of a curve through the supply S  *)
(* of the smart token and the balance C of its connector, or at the rate   *)
(* of the reserve where that is higher.                                    *)
(*                                                                         *)
(* The code computes in doubles and truncates.  Here a result is an exact  *)
(* real number, and what is taken from it are comparisons with fractions   *)
(* and whole parts; an infinite or undefined one, whose conversion to an   *)
(* integer the virtual machine refuses, is a guard.  The weight of a       *)
(* connector is the fraction 1/i, so that powers are products.             *)
(***************************************************************************)
EXTENDS Reserve

CONSTANTS
    BancorAccount,  \* _self
    Roots           \* the weights explored, as i for 1/i

CONSTANTS           \* the calls explored
    Admins,         \* administrators
    Policies,       \* charges, as rate and fixed amount
    Deposits,       \* balances a connector starts with
    CoreAmounts,    \* amounts of the connected token converted
    SmartAmounts,   \* amounts of a smart token converted
    Scales          \* powers of ten: precisions asked for to the connected token's

ASSUME BancorAssumption ==
    /\ BancorAccount \in Account \ Holders
    /\ BancorAccount # ReserveAccount
    /\ \A t \in Token : Issuer[t] # BancorAccount
    /\ Funds[BancorAccount] = 0
    /\ Roots \subseteq {1, 2}
    /\ Admins \subseteq Account \ {BancorAccount, ReserveAccount}
    /\ \A c \in Policies : /\ c.rate \in Nat /\ c.rate <= 10000
                            /\ c.fixed \in Nat \cup {NoAmount}
    /\ Deposits \cup CoreAmounts \cup SmartAmounts \subseteq Nat
    /\ \A e \in Scales : {e.up, e.down} \subseteq Nat \ {0}

VARIABLES
    config,         \* the row of table config: the administrator and charge
    charges,        \* Token -> the row of table charge
    connectors      \* Token -> the row of table connector

bancorVars == <<config, charges, connectors>>
vars == <<accounts, reserveVars, bancorVars>>

Unset == [there |-> FALSE]
NoConnector == [there |-> FALSE, balance |-> 0]
Exempt == [rate |-> 0, fixed |-> 0]

Ceiling(a, b) == (a + b - 1) \div b

-----------------------------------------------------------------------------
(* Real numbers s * (p/q)^(1/i) - s.                                        *)

Fraction(n, d) == [s |-> 1, p |-> n + d, q |-> d, i |-> 1]

Power(n, i) == IF i = 1 THEN n ELSE n * n

\* x >= a/b
AtLeast(x, a, b) == Power(x.s, x.i) * x.p * Power(b, x.i) >= x.q * Power(x.s * b + a, x.i)

\* int64_t(x): no curve here gives more than s * p
Whole(x) == CHOOSE n \in 0 .. x.s * x.p : AtLeast(x, n, 1) /\ ~AtLeast(x, n + 1, 1)

\* total - int64_t(total * (1 - ratio)), for the ratio of Whole(x) to x: what
\* is paid for a whole amount out of a total that would buy x
Part(total, x) ==
    IF total = 0 \/ Whole(x) = 0 THEN 0
    ELSE CHOOSE m \in 1 .. total : /\ AtLeast(x, total * Whole(x), m)
                                   /\ m = 1 \/ ~AtLeast(x, total * Whole(x), m - 1)

-----------------------------------------------------------------------------
(* Charges.                                                                 *)

Policy(t) == IF charges[t].there THEN charges[t].policy ELSE config.policy

Base(v, policy) ==
    policy.fixed + IF policy.rate = 0 THEN 0 ELSE Ceiling(v, 10000 \div policy.rate)

AtLeastOne(fee) == IF fee <= 0 THEN 1 ELSE fee

\* get_fee of a given amount
Fee(t, v) == IF Policy(t) = Exempt THEN 0 ELSE AtLeastOne(Base(v, Policy(t)))

\* get_fee of a required amount, from which p - 1 of p parts are to be left
Defined(t) == Policy(t).rate <= 5000

RequiredFee(t, v) ==
    LET policy == Policy(t)
        p == 10000 \div policy.rate
        grossed == IF policy.rate = 0 THEN 0
                   ELSE (10 * (v + policy.fixed) * p + 9 * (p - 1)) \div (10 * (p - 1)) - v
    IN  IF policy = Exempt THEN 0 ELSE AtLeastOne(grossed + policy.fixed)

-----------------------------------------------------------------------------
(* The curve and the rate of the reserve.                                   *)

\* smart tokens that q connected tokens are worth, where i is the root of the weight
CurveSmart(S, C, i, q) == [s |-> S, p |-> C + q, q |-> C, i |-> i]

\* what k smart tokens change at the connector, times S^i: with more than all
\* of them the even power of a negative number is positive again
CurveChange(S, C, i, k) == C * (Power(S - k, i) - Power(S, i))

\* connected tokens that k smart tokens are worth
CurveCore(S, C, i, k) ==
    LET dC == CurveChange(S, C, i, k)
    IN  Fraction(IF dC > 0 THEN 0 ELSE -dC, Power(S, i))

Worth(S, C, i, k) ==
    IF CurveChange(S, C, i, k) > 0 THEN 0 ELSE Whole(CurveCore(S, C, i, k))

Rate(t) == reserves[t].rate

\* mutation: the cheaper price is taken
ReserveCheaper(t, n, v) ==
    reserves[t].there /\ n > 0 /\ Rate(t)[1] > 0 /\ Rate(t)[1] * n < Rate(t)[2] * v

\* the reserve's rate is above the price of n smart tokens for v connected ones
ReserveBetter(t, n, v) == reserves[t].there /\ n > 0 /\ Rate(t)[1] * n > Rate(t)[2] * v

ReserveSmart(t, q) == Fraction(q * Rate(t)[2], Rate(t)[1])
ReserveCore(t, k, e) == Fraction(k * Rate(t)[1] * e.up, Rate(t)[2] * e.down)

\* the precision of the connected token itself
Same == [up |-> 1, down |-> 1]

\* what is bought for q, the charge taken off: at the curve, or at the reserve's
\* rate if that is higher
BuyPrice(t, S, C, i, q) ==
    LET x == CurveSmart(S, C, i, q)
    IN  IF ReserveBetter(t, Whole(x), Part(q, x)) THEN ReserveSmart(t, q) ELSE x

SellsToReserve(t, S, C, i, k) ==
    reserves[t].there /\ Rate(t)[1] * k > Rate(t)[2] * Worth(S, C, i, k)

\* the curve is read in the precision of the connected token, the reserve's rate
\* in that of the symbol the seller names, which nothing compares with it
SellPrice(t, S, C, i, k, e) ==
    IF SellsToReserve(t, S, C, i, k) THEN ReserveCore(t, k, e) ELSE CurveCore(S, C, i, k)

-----------------------------------------------------------------------------
(* Conversions.                                                             *)

\* mutation: the contract keeps the charge
ChargeKept(bank, fee) == bank

\* a charge is passed on to the administrator
Charged(bank, fee) == Moved(bank, BancorAccount, config.admin, fee)

CanConvert(t, sender, auth) ==
    /\ sender \in auth
    /\ config.there /\ connectors[t].there

\* n smart tokens are issued for delta connected ones, which go to the connector
Bought(t, sender, delta, fee, n) ==
    /\ n > 0 /\ sender # Issuer[t]
    /\ stat[t].supply + n <= stat[t].max
    /\ delta + fee > 0 /\ delta + fee <= core[sender]
    /\ connectors' = [connectors EXCEPT ![t].balance = @ + delta]
    /\ core' = Charged(Moved(core, sender, BancorAccount, delta + fee), fee)
    /\ stat' = [stat EXCEPT ![t].supply = @ + n]
    /\ held' = [held EXCEPT ![t][sender] = @ + n]
    /\ UNCHANGED <<accounts, minAmount, prepaid, reserves, config, charges>>

\* n smart tokens are retired for delta connected ones of the connector
Retired(t, sender, n, delta, fee) ==
    /\ n > 0 /\ n <= held[t][sender]
    /\ delta > fee /\ delta <= core[BancorAccount]
    /\ connectors' = [connectors EXCEPT ![t].balance = @ - delta]
    /\ core' = Charged(Moved(core, BancorAccount, sender, delta - fee), fee)
    /\ stat' = [stat EXCEPT ![t].supply = @ - n]
    /\ held' = [held EXCEPT ![t][sender] = @ - n]
    /\ UNCHANGED <<accounts, minAmount, prepaid, reserves, config, charges>>

\* n smart tokens are claimed from the reserve, and delta paid for them
Redeemed(t, sender, n, delta, fee) ==
    /\ n > 0 /\ n <= held[t][sender]
    /\ CanClaim(t, n)
    /\ \E c \in Claimed(t, n) :
          LET claimed == Moved(core, ReserveAccount, BancorAccount, c)
          IN  /\ delta > fee /\ delta <= claimed[BancorAccount]
              /\ reserves' = ClaimedReserves(t, n, c)
              /\ core' = Charged(Moved(claimed, BancorAccount, sender, delta - fee), fee)
    /\ stat' = Burned(t, n)
    /\ held' = [held EXCEPT ![t][sender] = @ - n]
    /\ UNCHANGED <<accounts, minAmount, prepaid, bancorVars>>

\* a charge is taken back by the part of the payment that bought nothing
FeePart(fee, q, delta, x) == IF q > delta THEN Part(fee, x) ELSE fee

\* `from` connected tokens are given
Buy(t, sender, from, auth) ==
    LET fee == Fee(t, from)
        q == from - fee
        S == stat[t].supply
        C == connectors[t].balance
        i == connectors[t].root
        x == BuyPrice(t, S, C, i, q)
        delta == Part(q, x)
    IN  /\ CanConvert(t, sender, auth)
        /\ q > 0 /\ C > 0
        /\ Whole(CurveSmart(S, C, i, q)) > 0
        /\ Bought(t, sender, delta, FeePart(fee, q, delta, x), Whole(x))

\* `to` smart tokens are required: the connected tokens they would be sold for
BuyExact(t, sender, to, auth) ==
    LET S == stat[t].supply
        C == connectors[t].balance
        i == connectors[t].root
        worth == Worth(S, C, i, to)
        delta == IF ReserveBetter(t, to, worth) THEN Whole(ReserveCore(t, to, Same)) ELSE worth
    IN  /\ CanConvert(t, sender, auth)
        /\ S > 0 \/ CurveChange(S, C, i, to) > 0
        /\ Defined(t)
        /\ Bought(t, sender, delta, RequiredFee(t, delta), to)

\* `from` smart tokens are given, for a symbol of the precision e
Sell(t, sender, from, e, auth) ==
    LET S == stat[t].supply
        C == connectors[t].balance
        i == connectors[t].root
        x == SellPrice(t, S, C, i, from, e)
        delta == Whole(x)
        n == Part(from, x)
    IN  /\ CanConvert(t, sender, auth)
        /\ S > 0
        /\ \/ /\ ~SellsToReserve(t, S, C, i, from)
              /\ Retired(t, sender, n, delta, Fee(t, delta))
           \/ /\ SellsToReserve(t, S, C, i, from)
              /\ Redeemed(t, sender, n, delta, Fee(t, delta))

\* `to` connected tokens are required: the smart tokens they and the charge
\* would buy, or without the charge those of the reserve
SellExact(t, sender, to, auth) ==
    LET fee == RequiredFee(t, to)
        x == CurveSmart(stat[t].supply, connectors[t].balance, connectors[t].root, to + fee)
        y == ReserveSmart(t, to)
    IN  /\ CanConvert(t, sender, auth)
        /\ Defined(t) /\ connectors[t].balance > 0
        /\ \/ /\ ~ReserveBetter(t, Whole(x), Part(to + fee, x))
              /\ Retired(t, sender, Whole(x), Part(to + fee, x), fee)
           \/ /\ ReserveBetter(t, Whole(x), Part(to + fee, x))
              /\ Redeemed(t, sender, Whole(y), Part(to, y), fee)

-----------------------------------------------------------------------------
(* Administration.                                                          *)

Configure(admin, auth) ==
    /\ BancorAccount \in auth
    /\ ~config.there
    /\ config' = [there |-> TRUE, admin |-> admin, policy |-> Exempt]
    /\ UNCHANGED <<charges, connectors, accounts, reserveVars>>

SetAdmin(admin, auth) ==
    /\ BancorAccount \in auth
    /\ config.there
    /\ config' = [config EXCEPT !.admin = admin]
    /\ UNCHANGED <<charges, connectors, accounts, reserveVars>>

Connect(t, v, i, auth) ==
    /\ config.there /\ config.admin \in auth
    /\ ~connectors[t].there
    /\ v > 0 /\ v <= core[config.admin]
    /\ connectors' = [connectors EXCEPT ![t] = [there |-> TRUE, balance |-> v, root |-> i]]
    /\ core' = Moved(core, config.admin, BancorAccount, v)
    /\ UNCHANGED <<config, charges, accounts, minAmount, prepaid, reserves, stat, held>>

CanSetCharge(auth) == config.there /\ config.admin \in auth

\* without a fixed amount the one before stays
WithCharge(policy, rate, fixed) ==
    [rate |-> rate, fixed |-> IF fixed = NoAmount THEN policy.fixed ELSE fixed]

SetCharge(rate, fixed, auth) ==
    /\ CanSetCharge(auth)
    /\ config' = [config EXCEPT !.policy = WithCharge(@, rate, fixed)]
    /\ UNCHANGED <<charges, connectors, accounts, reserveVars>>

SetSmartCharge(t, rate, fixed, auth) ==
    /\ CanSetCharge(auth)
    /\ charges' = [charges EXCEPT ![t] =
           [there |-> TRUE,
            policy |-> WithCharge(IF @.there THEN @.policy ELSE Exempt, rate, fixed)]]
    /\ UNCHANGED <<config, connectors, accounts, reserveVars>>

DropSmartCharge(t, auth) ==
    /\ CanSetCharge(auth)
    /\ charges[t].there
    /\ charges' = [charges EXCEPT ![t] = Unset]
    /\ UNCHANGED <<config, connectors, accounts, reserveVars>>

-----------------------------------------------------------------------------
Init ==
    /\ AccountInit
    /\ ReserveInit
    /\ config = Unset
    /\ charges = [t \in Token |-> Unset]
    /\ connectors = [t \in Token |-> NoConnector]

Convert(t, auth) ==
    \E sender \in Holders :
        \/ \E v \in CoreAmounts : Buy(t, sender, v, auth) \/ SellExact(t, sender, v, auth)
        \/ \E v \in SmartAmounts :
              \/ BuyExact(t, sender, v, auth)
              \/ \E e \in Scales : Sell(t, sender, v, e, auth)

Administer(auth) ==
    \/ \E admin \in Admins : Configure(admin, auth) \/ SetAdmin(admin, auth)
    \/ \E c \in Policies :
          \/ SetCharge(c.rate, c.fixed, auth)
          \/ \E t \in Token : SetSmartCharge(t, c.rate, c.fixed, auth)
    \/ \E t \in Token :
          \/ DropSmartCharge(t, auth)
          \/ \E v \in Deposits, i \in Roots : Connect(t, v, i, auth)

Next ==
    \E auth \in AuthSets :
        \/ AccountCall(auth) /\ UNCHANGED <<reserveVars, bancorVars>>
        \/ ReserveCall(auth) /\ UNCHANGED <<accounts, bancorVars>>
        \/ \E t \in Token : Convert(t, auth)
        \/ Administer(auth)

Spec == Init /\ [][Next]_vars

-----------------------------------------------------------------------------
(* Properties.                                                              *)

TypeOK ==
    /\ AccountTypeOK
    /\ ReserveTypeOK
    /\ config = Unset \/ config.admin \in Account
    /\ \A t \in Token :
          /\ connectors[t] = NoConnector \/
             connectors[t] \in [there : {TRUE}, balance : Int, root : Roots]
          /\ charges[t] = Unset \/ charges[t].there

\* What the contract holds of the connected token moves with what one of its
\* connectors is accounted, and the others stay: through fees that are passed
\* on, prices worked out anew for the reserve and parts given back.  Besides, it
\* is sent tokens that no connector is accounted, and pays for what is redeemed
\* at the reserve, where no connector is touched though the price was first
\* taken from one.
BooksBalance ==
    [][LET gained == core'[BancorAccount] - core[BancorAccount]
           booked(t) == connectors'[t].balance - connectors[t].balance
       IN  \/ /\ connectors' = connectors
              /\ gained >= 0 \/ reserves' # reserves
           \/ \E t \in Token :
                 /\ \A s \in Token \ {t} : connectors'[s] = connectors[s]
                 /\ gained = booked(t)]_vars

\* Whoever gives an amount for smart tokens, and gives these back at once for the
\* connected token in its own precision, gets no more than was paid: at any
\* supply, balance and charge that can be reached, on the curve, at the rate of
\* the reserve, or across the two.  (In another precision the reserve's rate is
\* off by powers of ten, which the code does not refuse.)
NoRoundTripGain ==
    \A t \in Token, v \in CoreAmounts :
        LET S == stat[t].supply
            C == connectors[t].balance
            i == connectors[t].root
            fee == Fee(t, v)
            q == v - fee
            x == BuyPrice(t, S, C, i, q)
            delta == Part(q, x)
            n == Whole(x)
            back == Whole(SellPrice(t, S + n, C + delta, i, n, Same))
        IN  /\ config.there /\ connectors[t].there
            /\ C > 0 /\ q > 0 /\ n > 0
            => back - Fee(t, back) <= delta + FeePart(fee, q, delta, x)

\* A token with a reserve is bought at its rate or a higher price, up to the unit
\* that rounding takes: no tokens are issued for less, which would dilute the
\* others, whichever of the two prices the curve is at.
AtLeastTheRate ==
    [][\A t \in Token :
         LET n == stat'[t].supply - stat[t].supply
             funds == core[BancorAccount] + core[ReserveAccount]
             paid == core'[BancorAccount] + core'[ReserveAccount] - funds
             rate == reserves[t].rate
         IN  reserves[t].there /\ core' # core /\ n > 0 =>
               (paid + 1) * rate[2] > n * rate[1]]_vars
=============================================================================
