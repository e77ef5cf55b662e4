------------------------------- MODULE Token -------------------------------
(***************************************************************************)
(* The gxc.token contract: tokens (table stat), accounts rows with a       *)
(* spendable balance and a recallable deposit, withdrawal requests with    *)
(* the deferred transaction that settles them, and allowances.             *)
(*                                                                         *)
(* An action is one contract action executed to its end, the inline        *)
(* clrwithdraws it may send included: a failed check aborts the whole      *)
(* transaction, so a check is a guard.  Handlers are compositions of the   *)
(* row operations of account_impl, each given by its check (Can...) and    *)
(* its effect, over the map acc of one token's account rows.               *)
(***************************************************************************)
EXTENDS Totals

CONSTANTS
    Token,          \* extended symbols, code@issuer
    Owner,          \* the accounts that exist on the chain
    TokenContract,  \* the account of the contract, code()
    Issuer,         \* the base account of each token's issuer
    Scale,          \* units in one whole token, for each symbol precision
    MaxAmount,      \* largest amount an asset holds
    DefaultDelay,   \* withdraw_delay_sec of a recallable token, if not given
    TimeMod         \* number of values of a time_point_sec

CONSTANTS           \* the calls explored
    Values,         \* assets the actions are called with
    MintOptions,    \* option lists of mint
    OptionLists,    \* option lists of setopts
    RowOptionLists, \* option lists of setacntsopts
    AuthSets,       \* sets of accounts that sign an action
    Requesters,     \* accounts that ask for withdrawals; the contract signs
                    \* none for itself
    Listed,         \* accounts whose row options are set
    Approvers,      \* accounts that approve allowances
    Spenders,       \* accounts an allowance is approved for
    MaxTime         \* bound of the clock, in seconds

Precision == DOMAIN Scale
None == -1          \* an absent option, or a deferred transaction not there

Option == {"mintable", "recallable", "freezable", "pausable", "paused",
           "whitelistable", "whitelist_on", "floatable"}
RowOption == {"frozen", "whitelist"}

Value == [amount : Int, prec : Precision]

ASSUME ChainAssumption ==
    /\ IsFiniteSet(Owner)
    /\ TokenContract \in Owner
    /\ Issuer \in [Token -> Owner]
    /\ Precision # {}
    /\ \A p \in Precision : Scale[p] \in Nat \ {0}
    /\ MaxAmount \in Nat
    /\ TimeMod \in Nat \ {0}
    /\ DefaultDelay \in Nat

ASSUME CallAssumption ==
    /\ Values \subseteq Value
    /\ Requesters \subseteq Owner \ {TokenContract}
    /\ Listed \cup Approvers \cup Spenders \subseteq Owner
    /\ MaxTime \in Nat
    /\ \A c \in MintOptions :
          /\ \A n \in DOMAIN c.flags : n \in Option /\ c.flags[n] \in BOOLEAN
          /\ c.min \in Int
          /\ c.delay \in Nat \cup {None}
    /\ \A flags \in RowOptionLists :
          /\ DOMAIN flags \subseteq RowOption
          /\ \A n \in DOMAIN flags : flags[n] \in BOOLEAN

VARIABLES
    stat,       \* Token -> the row of table stat
    accounts,   \* Token -> Owner -> the row of table accounts
    requests,   \* Owner -> Token -> the row of table withdraws
    allowances, \* Token -> owner -> spender -> the row of table allowance
    deferred,   \* Owner -> when the owner's deferred clrwithdraws is due
    now         \* block time

vars == <<stat, accounts, requests, allowances, deferred, now>>

Row == [open : BOOLEAN, balance : Nat, deposit : Nat,
        frozen : BOOLEAN, whitelist : BOOLEAN, prec : Precision]
AnyPrecision == CHOOSE p \in Precision : TRUE
NoRow == [open |-> FALSE, balance |-> 0, deposit |-> 0,
          frozen |-> FALSE, whitelist |-> FALSE, prec |-> AnyPrecision]
NoRequest == [amount |-> 0, at |-> 0]
NoAllowance == [amount |-> 0, prec |-> AnyPrecision]
NoStat == [exists |-> FALSE, supply |-> 0, max_supply |-> 0, opts |-> {},
           amount |-> 0, duration |-> 0, prec |-> AnyPrecision]

Is(t, n) == n \in stat[t].opts

-----------------------------------------------------------------------------
(* account_impl: the row operations.                                        *)

\* mutation: the frozen flag is not looked at
UsableFrozen(t, o, r) ==
    o # TokenContract /\ Is(t, "whitelist_on") => r.whitelist

\* mutation: whitelisted rows are not told apart
UsableUnlisted(t, o, r) ==
    o # TokenContract => ~r.frozen

\* check_account_is_valid, without the skip flag
Usable(t, o, r) ==
    o # TokenContract =>
        /\ ~r.frozen
        /\ Is(t, "whitelist_on") => r.whitelist

\* a row that is kept when it holds nothing
Sticky(o, r) == r.frozen \/ (r.whitelist /\ o # TokenContract)

\* erasing the row never subtracts, and so never compares the symbols
BalanceDrains(o, r, v) ==
    ~Sticky(o, r) /\ r.balance = v.amount /\ r.deposit = 0

DepositDrains(o, r, v, keep) ==
    ~Sticky(o, r) /\ ~keep /\ r.deposit = v.amount /\ r.balance = 0

\* mutation: a deposit takes any value
FloatsAlways(t, v) == TRUE

\* no fraction of a token goes through a deposit unless it is floatable
Floats(t, v) == Is(t, "floatable") \/ v.amount % Scale[v.prec] = 0

\* mutation: the balance may be overdrawn
CanSubBalanceUnbounded(t, acc, o, v) ==
    /\ acc[o].open
    /\ Usable(t, o, acc[o])
    /\ v.prec = acc[o].prec

CanSubBalance(t, acc, o, v) ==
    /\ acc[o].open
    /\ Usable(t, o, acc[o])
    /\ v.amount <= acc[o].balance
    /\ BalanceDrains(o, acc[o], v) \/ v.prec = acc[o].prec

SubBalance(acc, o, v) ==
    IF BalanceDrains(o, acc[o], v)
    THEN [acc EXCEPT ![o] = NoRow]
    ELSE [acc EXCEPT ![o].balance = @ - v.amount]

CanSubDeposit(t, acc, o, v, keep) ==
    /\ acc[o].open
    /\ Usable(t, o, acc[o])
    /\ v.amount <= acc[o].deposit
    /\ Floats(t, v)
    /\ DepositDrains(o, acc[o], v, keep) \/ v.prec = acc[o].prec

SubDeposit(acc, o, v, keep) ==
    IF DepositDrains(o, acc[o], v, keep)
    THEN [acc EXCEPT ![o] = NoRow]
    ELSE [acc EXCEPT ![o].deposit = @ - v.amount]

\* a credit opens the row; on a whitelisted token only for the contract
\* itself or under the issuer's signature
CanCredit(t, acc, o, v, auth, skip) ==
    IF acc[o].open
    THEN /\ skip \/ Usable(t, o, acc[o])
         /\ v.prec = acc[o].prec
    ELSE Is(t, "whitelist_on") => o = TokenContract \/ Issuer[t] \in auth

OpenRow(t, whitelist, p) ==
    [NoRow EXCEPT !.open = TRUE, !.whitelist = whitelist, !.prec = p]

Opened(t, r, v) == IF r.open THEN r ELSE OpenRow(t, Is(t, "whitelist_on"), v.prec)

CanAddBalance(t, acc, o, v, auth) == CanCredit(t, acc, o, v, auth, FALSE)

AddBalance(t, acc, o, v) ==
    LET row == Opened(t, acc[o], v)
    IN  [acc EXCEPT ![o] = [row EXCEPT !.balance = @ + v.amount]]

CanAddDeposit(t, acc, o, v, auth, skip) ==
    Floats(t, v) /\ CanCredit(t, acc, o, v, auth, skip)

\* mutation: the value replaces the deposit
AddDepositOverwrites(t, acc, o, v) ==
    LET row == Opened(t, acc[o], v)
    IN  [acc EXCEPT ![o] = [row EXCEPT !.deposit = v.amount]]

AddDeposit(t, acc, o, v) ==
    LET row == Opened(t, acc[o], v)
    IN  [acc EXCEPT ![o] = [row EXCEPT !.deposit = @ + v.amount]]

-----------------------------------------------------------------------------
(* request_impl: settling the requests of one owner.  Requests of different *)
(* tokens touch different rows, so those that are due settle side by side.  *)

Pending(reqs, o) == {t \in Token : reqs[o][t].amount > 0}
\* mutation: a request is due a second early
DueEarly(reqs, o) == {t \in Pending(reqs, o) : reqs[o][t].at <= now + 1}

Due(reqs, o) == {t \in Pending(reqs, o) : reqs[o][t].at <= now}
Requested(reqs, o, t) ==
    [amount |-> reqs[o][t].amount, prec |-> stat[t].prec]

\* clear() reads the frozen flag of the owner's row without asking whether the
\* row is there (the contract's own may be erased on the way); `garbage` is the
\* set of tokens for which the read of an absent row yields a set flag.
Unread(accs, reqs, o) ==
    {t \in Due(reqs, o) : o = TokenContract \/ ~accs[t][o].open}

ReadsFrozen(t, r, garbage) == IF r.open THEN r.frozen ELSE t \in garbage

\* mutation: the contract pays without a withdrawal from its own balance
SettleUnfunded(t, acc, o, v, garbage) ==
    IF ReadsFrozen(t, acc[o], garbage)
    THEN AddDeposit(t, acc, o, v)
    ELSE AddBalance(t, acc, o, v)

CanSettle(t, acc, o, v, auth, garbage) ==
    /\ CanSubBalance(t, acc, TokenContract, v)
    /\ LET paid == SubBalance(acc, TokenContract, v)
       IN  IF ReadsFrozen(t, paid[o], garbage)
           THEN CanAddDeposit(t, paid, o, v, auth, TRUE)
           ELSE CanAddBalance(t, paid, o, v, auth)

Settle(t, acc, o, v, garbage) ==
    LET paid == SubBalance(acc, TokenContract, v)
    IN  IF ReadsFrozen(t, paid[o], garbage)
        THEN AddDeposit(t, paid, o, v)
        ELSE AddBalance(t, paid, o, v)

CanClear(accs, reqs, o, auth, garbage) ==
    \A t \in Due(reqs, o) :
        CanSettle(t, accs[t], o, Requested(reqs, o, t), auth, garbage)

\* mutation: the requests are kept
EraseNone(reqs, o, ts) == reqs

Erase(reqs, o, ts) ==
    [reqs EXCEPT ![o] = [t \in Token |-> IF t \in ts THEN NoRequest ELSE @[t]]]

\* mutation: the last request of the schedule
LastTime(reqs, o) ==
    IF Pending(reqs, o) = {} THEN None
    ELSE LET t == CHOOSE x \in Pending(reqs, o) :
                     \A y \in Pending(reqs, o) : reqs[o][x].at >= reqs[o][y].at
         IN  reqs[o][t].at

\* mutation: nothing is scheduled while two tokens are pending
LoneTime(reqs, o) ==
    IF Cardinality(Pending(reqs, o)) # 1 THEN None
    ELSE reqs[o][CHOOSE t \in Pending(reqs, o) : TRUE].at

\* the time of the head of index "schedule"
HeadTime(reqs, o) ==
    IF Pending(reqs, o) = {} THEN None
    ELSE LET t == CHOOSE x \in Pending(reqs, o) :
                     \A y \in Pending(reqs, o) : reqs[o][x].at <= reqs[o][y].at
         IN  reqs[o][t].at

\* refresh_schedule() on the tables accs and reqs: what is due is cleared in
\* this transaction, by an inline action the owner signs, and the deferred
\* transaction is set for the first of the remaining requests.
RefreshSchedule(accs, reqs, o, auth) ==
    LET due  == Due(reqs, o)
        rest == Erase(reqs, o, due)
    IN  /\ \E garbage \in SUBSET Unread(accs, reqs, o) :
              /\ CanClear(accs, reqs, o, auth, garbage)
              /\ accounts' = [t \in Token |->
                     IF t \in due
                     THEN Settle(t, accs[t], o, Requested(reqs, o, t), garbage)
                     ELSE accs[t]]
        /\ requests' = rest
        /\ deferred' = [deferred EXCEPT ![o] = HeadTime(rest, o)]

-----------------------------------------------------------------------------
(* Tokens: mint, setopts, issue, retire, burn.                              *)

Positive(v) == v.amount > 0 /\ v.amount <= MaxAmount

WithFlags(opts, flags) ==
    {n \in Option : IF n \in DOMAIN flags THEN flags[n] ELSE n \in opts}

\* the checks at the end of _setopts
OptionsAllowed(opts, init) ==
    /\ "floatable" \in opts => "recallable" \in opts
    /\ "paused" \in opts => init \/ "pausable" \in opts
    /\ "whitelist_on" \in opts => "whitelistable" \in opts

\* all that may change once the token exists
Changeable(flags) == DOMAIN flags \subseteq {"paused", "whitelist_on"}

\* mint() of a symbol that does not exist; every base option list starts as
\* mintable, recallable, freezable
Create(t, v, c, auth) ==
    LET opts == WithFlags({"mintable", "recallable", "freezable"}, c.flags)
        recallable == "recallable" \in opts
        Given(x, default) == IF x # None THEN x ELSE default
    IN  /\ TokenContract \in auth
        /\ Positive(v)
        /\ ~stat[t].exists
        /\ OptionsAllowed(opts, TRUE)
        /\ c.min >= 0 \/ c.min = None
        /\ ~recallable => c.min = None /\ c.delay = None
        /\ stat' = [stat EXCEPT ![t] =
               [exists |-> TRUE, supply |-> 0, max_supply |-> v.amount,
                opts |-> opts, prec |-> v.prec,
                amount |-> IF recallable THEN Given(c.min, 0) ELSE 0,
                duration |-> IF recallable
                             THEN Given(c.delay, DefaultDelay) % TimeMod ELSE 0]]
        /\ UNCHANGED <<accounts, requests, allowances, deferred, now>>

MintMore(t, v, flags, auth) ==
    LET opts == WithFlags(stat[t].opts, flags)
    IN  /\ TokenContract \in auth
        /\ Positive(v)
        /\ stat[t].exists
        /\ Is(t, "mintable")
        /\ v.prec = stat[t].prec
        /\ stat[t].max_supply + v.amount <= MaxAmount
        /\ Changeable(flags)
        /\ OptionsAllowed(opts, FALSE)
        /\ stat' = [stat EXCEPT ![t].max_supply = @ + v.amount, ![t].opts = opts]
        /\ UNCHANGED <<accounts, requests, allowances, deferred, now>>

SetOpts(t, flags, auth) ==
    LET opts == WithFlags(stat[t].opts, flags)
    IN  /\ stat[t].exists
        /\ DOMAIN flags # {}
        /\ Issuer[t] \in auth
        /\ Changeable(flags)
        /\ OptionsAllowed(opts, FALSE)
        /\ stat' = [stat EXCEPT ![t].opts = opts]
        /\ UNCHANGED <<accounts, requests, allowances, deferred, now>>

Issuable(t, v) == v.amount <= stat[t].max_supply - stat[t].supply

\* transfer() from gxc.null
Issue(t, to, v, auth) ==
    LET acc == accounts[t]
        cached == Is(t, "recallable") /\ to # Issuer[t]
    IN  /\ stat[t].exists
        /\ Issuer[t] \in auth
        /\ Positive(v)
        /\ v.prec = stat[t].prec
        /\ Issuable(t, v)
        /\ IF cached THEN CanAddDeposit(t, acc, to, v, auth, FALSE)
                     ELSE CanAddBalance(t, acc, to, v, auth)
        /\ stat' = [stat EXCEPT ![t].supply = @ + v.amount]
        /\ accounts' = [accounts EXCEPT ![t] =
               IF cached THEN AddDeposit(t, acc, to, v) ELSE AddBalance(t, acc, to, v)]
        /\ UNCHANGED <<requests, allowances, deferred, now>>

\* transfer() to gxc.null: by the holder from the balance, or by the issuer
\* from the deposit
Retire(t, from, v, auth) ==
    LET acc == accounts[t]
    IN  /\ stat[t].exists
        /\ Positive(v)
        /\ v.prec = stat[t].prec
        /\ IF from \in auth
           THEN CanSubBalance(t, acc, from, v)
           ELSE /\ Is(t, "recallable")
                /\ Issuer[t] \in auth
                /\ CanSubDeposit(t, acc, from, v, FALSE)
        /\ stat' = [stat EXCEPT ![t].supply = @ - v.amount]
        /\ accounts' = [accounts EXCEPT ![t] =
               IF from \in auth THEN SubBalance(acc, from, v)
                                ELSE SubDeposit(acc, from, v, FALSE)]
        /\ UNCHANGED <<requests, allowances, deferred, now>>

Burn(t, owner, v, auth) ==
    /\ stat[t].exists
    /\ owner \in {Issuer[t], TokenContract} \cap auth
    /\ Positive(v)
    /\ v.prec = stat[t].prec
    /\ CanSubBalance(t, accounts[t], owner, v)
    /\ stat' = [stat EXCEPT ![t].supply = @ - v.amount,
                            ![t].max_supply = @ - v.amount]
    /\ accounts' = [accounts EXCEPT ![t] = SubBalance(@, owner, v)]
    /\ UNCHANGED <<requests, allowances, deferred, now>>

-----------------------------------------------------------------------------
(* Accounts: open, close, setacntsopts, approve.                            *)

Open(t, o, auth) ==
    /\ stat[t].exists
    /\ ~accounts[t][o].open
    /\ accounts' = [accounts EXCEPT ![t][o] =
           OpenRow(t, Is(t, "whitelist_on") /\ Issuer[t] \in auth, stat[t].prec)]
    /\ UNCHANGED <<stat, requests, allowances, deferred, now>>

Close(t, o, auth) ==
    /\ stat[t].exists
    /\ o \in auth
    /\ accounts[t][o].open
    /\ accounts[t][o].balance = 0
    /\ accounts[t][o].deposit = 0
    /\ accounts' = [accounts EXCEPT ![t][o] = NoRow]
    /\ UNCHANGED <<stat, requests, allowances, deferred, now>>

Set(flags, n, old) == IF n \in DOMAIN flags THEN flags[n] ELSE old

\* each option given has the other value in every listed row
SetAcntsOpts(t, os, flags, auth) ==
    LET acc == accounts[t]
    IN  /\ stat[t].exists
        /\ DOMAIN flags # {}
        /\ Issuer[t] \in auth
        /\ "frozen" \in DOMAIN flags => Is(t, "freezable")
        /\ "whitelist" \in DOMAIN flags => Is(t, "whitelistable")
        /\ \A o \in os :
              /\ acc[o].open
              /\ "frozen" \in DOMAIN flags => acc[o].frozen # flags["frozen"]
              /\ "whitelist" \in DOMAIN flags => acc[o].whitelist # flags["whitelist"]
        /\ accounts' = [accounts EXCEPT ![t] = [o \in Owner |->
               IF o \in os
               THEN [acc[o] EXCEPT !.frozen = Set(flags, "frozen", @),
                                   !.whitelist = Set(flags, "whitelist", @)]
               ELSE acc[o]]]
        /\ UNCHANGED <<stat, requests, allowances, deferred, now>>

Approve(t, owner, spender, v, auth) ==
    /\ stat[t].exists
    /\ v.amount \in 0..MaxAmount
    /\ owner \in auth
    /\ allowances[t][owner][spender].amount = 0 => v.amount > 0
    /\ allowances' = [allowances EXCEPT ![t][owner][spender] =
           IF v.amount > 0 THEN v ELSE NoAllowance]
    /\ UNCHANGED <<stat, accounts, requests, deferred, now>>

-----------------------------------------------------------------------------
(* transfer() between two accounts, by the authority that carries it.       *)

Transferable(t, from, to, v) ==
    /\ stat[t].exists
    /\ from # to
    /\ Positive(v)
    /\ Is(t, "paused") => {from, to} \cap {Issuer[t], TokenContract} # {}

Recalls(t, from, auth) ==
    from \notin auth /\ Is(t, "recallable") /\ Issuer[t] \in auth

\* from's balance pays, to's balance receives
MoveBalance(t, from, to, v, auth) ==
    LET paid == SubBalance(accounts[t], from, v)
    IN  /\ CanSubBalance(t, accounts[t], from, v)
        /\ CanAddBalance(t, paid, to, v, auth)
        /\ accounts' = [accounts EXCEPT ![t] = AddBalance(t, paid, to, v)]

Transfer(t, from, to, v, auth) ==
    /\ Transferable(t, from, to, v)
    /\ from \in auth
    /\ MoveBalance(t, from, to, v, auth)
    /\ UNCHANGED <<stat, requests, allowances, deferred, now>>

\* mutation: the first use ends the allowance
SpentAll(left, v) == IF v.amount <= left.amount THEN NoAllowance ELSE left

Spent(left, v) ==
    IF v.amount = left.amount THEN NoAllowance ELSE [left EXCEPT !.amount = @ - v.amount]

\* the receiver signs, against an allowance of the sender
TransferAllowed(t, from, to, v, auth) ==
    LET left == allowances[t][from][to]
    IN  /\ Transferable(t, from, to, v)
        /\ from \notin auth /\ ~Recalls(t, from, auth)
        /\ to \in auth
        /\ left.amount > 0
        /\ left.prec = v.prec
        /\ v.amount <= left.amount
        /\ MoveBalance(t, from, to, v, auth)
        /\ allowances' = [allowances EXCEPT ![t][from][to] = Spent(left, v)]
        /\ UNCHANGED <<stat, requests, deferred, now>>

\* the issuer signs, and the deposit covers the value
Recall(t, from, to, v, auth) ==
    LET acc == accounts[t]
        taken == SubDeposit(acc, from, v, FALSE)
    IN  /\ Transferable(t, from, to, v)
        /\ Recalls(t, from, auth)
        /\ v.prec = acc[from].prec
        /\ CanSubDeposit(t, acc, from, v, FALSE)
        /\ CanAddBalance(t, taken, to, v, auth)
        /\ accounts' = [accounts EXCEPT ![t] = AddBalance(t, taken, to, v)]
        /\ UNCHANGED <<stat, requests, allowances, deferred, now>>

\* the issuer signs, and the deposit and a part of the pending withdrawal
\* cover the value; a request that is used up leaves the schedule
RecallPending(t, from, to, v, auth) ==
    LET acc == accounts[t]
        rest == [amount |-> acc[from].deposit, prec |-> v.prec]
        leftover == [amount |-> v.amount - acc[from].deposit, prec |-> v.prec]
        uncustodied == SubBalance(acc, TokenContract, leftover)
        taken == SubDeposit(uncustodied, from, rest, FALSE)
        given == [accounts EXCEPT ![t] = AddBalance(t, taken, to, v)]
        asked == requests[from][t].amount
    IN  /\ Transferable(t, from, to, v)
        /\ Recalls(t, from, auth)
        /\ acc[from].open
        /\ v.prec = acc[from].prec /\ v.prec = stat[t].prec
        /\ leftover.amount > 0
        /\ leftover.amount <= asked
        /\ CanSubBalance(t, acc, TokenContract, leftover)
        /\ CanSubDeposit(t, uncustodied, from, rest, FALSE)
        /\ CanAddBalance(t, taken, to, v, auth)
        /\ \/ /\ leftover.amount < asked
              /\ accounts' = given
              /\ requests' = [requests EXCEPT ![from][t].amount = @ - leftover.amount]
              /\ UNCHANGED deferred
           \/ /\ leftover.amount = asked
              /\ RefreshSchedule(given, Erase(requests, from, {t}),
                                 from, {from})
        /\ UNCHANGED <<stat, allowances, now>>

-----------------------------------------------------------------------------
(* Deposits and withdrawals.                                                *)

\* no signature is asked for
Deposit(t, from, v, auth) ==
    LET paid == SubBalance(accounts[t], from, v)
    IN  /\ stat[t].exists
        /\ Positive(v)
        /\ Is(t, "recallable")
        /\ CanSubBalance(t, accounts[t], from, v)
        /\ CanAddDeposit(t, paid, from, v, auth, FALSE)
        /\ accounts' = [accounts EXCEPT ![t] = AddDeposit(t, paid, from, v)]
        /\ UNCHANGED <<stat, requests, allowances, deferred, now>>

\* a further push adds to the request and starts its delay again; Horizon is
\* the bound of the model: a request matures before the clock stops
Horizon(at) == at <= MaxTime

PushWithdraw(t, from, v, auth) ==
    LET at == (now + stat[t].duration) % TimeMod
        taken == SubDeposit(accounts[t], from, v, TRUE)
        reqs == [requests EXCEPT ![from][t] =
                    [amount |-> @.amount + v.amount, at |-> at]]
    IN  /\ Horizon(at)
        /\ stat[t].exists
        /\ Positive(v)
        /\ from \in auth
        /\ Is(t, "recallable")
        /\ v.prec = stat[t].prec
        /\ v.amount >= stat[t].amount
        /\ reqs[from][t].amount <= MaxAmount
        /\ CanSubDeposit(t, accounts[t], from, v, TRUE)
        /\ CanAddBalance(t, taken, TokenContract, v, auth)
        /\ RefreshSchedule(
               [accounts EXCEPT ![t] = AddBalance(t, taken, TokenContract, v)],
               reqs, from, {from})
        /\ UNCHANGED <<stat, allowances, now>>

\* leaves the deferred transaction where it is
PopWithdraw(t, from, auth) ==
    LET v == Requested(requests, from, t)
        paid == SubBalance(accounts[t], TokenContract, v)
    IN  /\ from \in auth
        /\ requests[from][t].amount > 0
        /\ CanSubBalance(t, accounts[t], TokenContract, v)
        /\ CanAddDeposit(t, paid, from, v, auth, FALSE)
        /\ accounts' = [accounts EXCEPT ![t] = AddDeposit(t, paid, from, v)]
        /\ requests' = Erase(requests, from, {t})
        /\ UNCHANGED <<stat, allowances, deferred, now>>

ClrWithdraws(o, auth) ==
    /\ o \in auth
    /\ Pending(requests, o) # {}
    /\ RefreshSchedule(accounts, requests, o, auth)
    /\ UNCHANGED <<stat, allowances, now>>

-----------------------------------------------------------------------------
(* The chain: deferred transactions and block time.                         *)

Expired(o) == deferred[o] # None /\ deferred[o] <= now

\* the deferred clrwithdraws runs, or fails a check and is gone
RunDeferred(o) == Expired(o) /\ ClrWithdraws(o, {o})

DropDeferred(o) ==
    /\ Expired(o)
    /\ \/ Pending(requests, o) = {}
       \/ \E garbage \in SUBSET Unread(accounts, requests, o) :
             ~CanClear(accounts, requests, o, {o}, garbage)
    /\ deferred' = [deferred EXCEPT ![o] = None]
    /\ UNCHANGED <<stat, accounts, requests, allowances, now>>

FireDeferred(o) == RunDeferred(o) \/ DropDeferred(o)

Tick ==
    /\ now < MaxTime
    /\ now' = now + 1
    /\ UNCHANGED <<stat, accounts, requests, allowances, deferred>>

-----------------------------------------------------------------------------
Init ==
    /\ stat = [t \in Token |-> NoStat]
    /\ accounts = [t \in Token |-> [o \in Owner |-> NoRow]]
    /\ requests = [o \in Owner |-> [t \in Token |-> NoRequest]]
    /\ allowances = [t \in Token |-> [o \in Owner |-> [s \in Spenders |-> NoAllowance]]]
    /\ deferred = [o \in Owner |-> None]
    /\ now = 0

TokenCall(t, auth) ==
    \/ \E v \in Values, c \in MintOptions : Create(t, v, c, auth)
    \/ \E v \in Values, flags \in OptionLists : MintMore(t, v, flags, auth)
    \/ \E flags \in OptionLists : SetOpts(t, flags, auth)
    \/ \E v \in Values, to \in Owner : Issue(t, to, v, auth)
    \/ \E v \in Values, from \in Owner : Retire(t, from, v, auth)
    \/ \E v \in Values, owner \in Owner : Burn(t, owner, v, auth)

AccountCall(t, auth) ==
    \/ \E o \in Owner : Open(t, o, auth)
    \/ \E o \in Owner : Close(t, o, auth)
    \/ \E os \in (SUBSET Listed) \ {{}}, flags \in RowOptionLists :
          SetAcntsOpts(t, os, flags, auth)
    \/ \E o \in Approvers, s \in Spenders, v \in Values : Approve(t, o, s, v, auth)

TransferCall(t, auth) ==
    \E v \in Values, to \in Owner :
        \/ \E from \in Owner :
              \/ Transfer(t, from, to, v, auth)
              \/ to \in Spenders /\ TransferAllowed(t, from, to, v, auth)
              \/ Recall(t, from, to, v, auth)
        \/ \E from \in Requesters : RecallPending(t, from, to, v, auth)

WithdrawCall(t, auth) ==
    \/ \E v \in Values, from \in Owner : Deposit(t, from, v, auth)
    \/ \E v \in Values, from \in Requesters : PushWithdraw(t, from, v, auth)
    \/ \E from \in Requesters : PopWithdraw(t, from, auth)

Next ==
    \/ \E t \in Token, auth \in AuthSets :
          \/ TokenCall(t, auth)
          \/ AccountCall(t, auth)
          \/ TransferCall(t, auth)
          \/ WithdrawCall(t, auth)
    \/ \E o \in Requesters, auth \in AuthSets : ClrWithdraws(o, auth)
    \/ \E o \in Owner : FireDeferred(o)
    \/ Tick

Spec == Init /\ [][Next]_vars

\* Time passes, and the chain runs a deferred transaction some time after it
\* is due; nobody has to call anything.
Fairness == WF_vars(Tick) /\ \A o \in Requesters : WF_vars(FireDeferred(o))

-----------------------------------------------------------------------------
(* Properties.                                                              *)

Request == [amount : Nat, at : Nat]
Allowance == [amount : Nat, prec : Precision]
Stat == [exists : BOOLEAN, supply : Nat, max_supply : Nat, opts : SUBSET Option,
         amount : Nat, duration : Nat, prec : Precision]

\* The types of the tables: no row ever holds a negative amount.
TypeOK ==
    /\ stat \in [Token -> Stat]
    /\ accounts \in [Token -> [Owner -> Row]]
    /\ requests \in [Owner -> [Token -> Request]]
    /\ allowances \in [Token -> [Owner -> [Spenders -> Allowance]]]
    /\ deferred \in [Owner -> Nat \cup {None}]
    /\ now \in Nat

Held(acc) == [o \in DOMAIN acc |-> acc[o].balance + acc[o].deposit]
Asked(t) == [o \in Owner |-> requests[o][t].amount]

\* Every unit of the recorded supply is in the balance or the deposit of one
\* account row, through erased rows, inline settlements and partial recalls,
\* and no more is issued than was minted.
Conservation ==
    \A t \in Token : /\ stat[t].supply = Total(Held(accounts[t]))
                     /\ stat[t].supply <= stat[t].max_supply
                     /\ stat[t].max_supply <= MaxAmount

\* What the contract's balance holds beyond what the pending withdrawals ask.
Cover(t) == accounts[t][TokenContract].balance - Total(Asked(t))

\* The contract's balance is there to pay or cancel each pending withdrawal:
\* none is pushed, topped up, recalled, cancelled or settled at the cost of the
\* others.  It runs short only by a call that spends the contract's own row
\* (the contract signs it, or nobody, if it is a deposit), and such a call
\* leaves the requests and every other deposit as they are.
Custody ==
    [][\A t \in Token :
         Cover(t)' < Cover(t) =>
            /\ UNCHANGED <<requests, deferred>>
            /\ \A o \in Owner \ {TokenContract} :
                  accounts'[t][o].deposit = accounts[t][o].deposit]_vars

\* A deposit of a token that is not floatable never holds a fraction of it,
\* whatever route the deposit was built up and drawn down by.
WholeDeposits ==
    \A t \in Token, o \in Owner :
        ~Is(t, "floatable") =>
            accounts[t][o].deposit % Scale[accounts[t][o].prec] = 0

\* Nor does a pending withdrawal, which is made of deposit ("not available
\* float" is what a withdrawal of a fraction is refused with).
WholeRequests ==
    \A t \in Token, o \in Owner :
        stat[t].exists /\ ~Is(t, "floatable") =>
            requests[o][t].amount % Scale[stat[t].prec] = 0

\* Every row of a token is in the token's own precision ("symbol precision
\* mismatch" is what another one is refused with).
OnePrecision ==
    \A t \in Token, o \in Owner :
        accounts[t][o].open => accounts[t][o].prec = stat[t].prec

\* The owner's deferred transaction is set for the request or earlier.
Alarmed(t, o) ==
    t \in Pending(requests, o) =>
        deferred[o] # None /\ deferred[o] <= requests[o][t].at

\* the contract's balance does not pay what is asked
Short(t, o) == requests[o][t].amount > accounts[t][TokenContract].balance

\* No top-up, cancellation, recall or earlier settlement of another token loses
\* the deferred transaction of a pending withdrawal; only a run of it that fails
\* does, and it fails only because the contract's balance was spent.
AlarmSet ==
    [][\A t \in Token, o \in Owner :
         Alarmed(t, o) /\ ~Alarmed(t, o)' =>
            Expired(o) /\ \E u \in Due(requests, o) : Short(u, o)]_vars

Locked(t, o) ==
    /\ o # TokenContract /\ accounts[t][o].open
    /\ \/ accounts[t][o].frozen
       \/ Is(t, "whitelist_on") /\ ~accounts[t][o].whitelist

\* The holdings of a frozen or unlisted account do not move; only a withdrawal
\* that matured while the account is frozen comes back, as deposit.
LockedFunds ==
    [][\A t \in Token, o \in Owner :
         LET was == accounts[t][o]
             is  == accounts'[t][o]
             req == requests[o][t]
         IN  Locked(t, o) /\ Locked(t, o)' =>
                /\ is.balance = was.balance
                /\ is.deposit # was.deposit =>
                      /\ was.frozen
                      /\ req.at <= now
                      /\ is.deposit = was.deposit + req.amount
                      /\ requests'[o][t].amount = 0]_vars

\* A request pays into the balance of its owner a full delay after its last
\* top-up, and no deposit gets there at once unless there is no delay.
DelayHonoured ==
    [][\A t \in Token, o \in Owner :
         LET was == requests[o][t]
             is  == requests'[o][t]
             paid == accounts'[t][o].balance > accounts[t][o].balance
         IN  /\ is.amount > was.amount => is.at >= now + stat[t].duration
             /\ paid /\ is.amount < was.amount => was.at <= now
             /\ paid /\ accounts'[t][o].deposit < accounts[t][o].deposit
                  => stat[t].duration = 0]_vars

\* An allowance used in a transfer shrinks by just what left the owner's
\* balance and reached the spender's.
AllowanceSpent ==
    [][\A t \in Token, o \in Owner, s \in Spenders :
         LET used == allowances[t][o][s].amount - allowances'[t][o][s].amount
         IN  used # 0 /\ accounts'[t] # accounts[t] =>
                /\ accounts'[t][s].balance = accounts[t][s].balance + used
                /\ accounts'[t][o].balance = accounts[t][o].balance - used]_vars

\* While the contract's balance covers what is asked of it, a withdrawal is
\* settled in the end by the deferred transaction alone: once the owner stops
\* topping it up, it is paid or comes back as deposit.
WithdrawalsSettle ==
    [](\A t \in Token : Cover(t) >= 0) =>
        \A t \in Token, o \in Requesters :
            requests[o][t].amount > 0 ~> requests[o][t].amount = 0

\* The owner's wealth: what its row holds and its requests ask back.  What the
\* contract holds for pending requests is the requesters', not its own; when it
\* spends that, it owes it.
Wealth(t, o) ==
    LET own == accounts[t][o].balance + accounts[t][o].deposit + requests[o][t].amount
    IN  IF o = TokenContract THEN own - Total(Asked(t)) ELSE own

\* Requests, deferred transactions, freezes, whitelists and erased rows are
\* ways to hold the ledger of TokenLedger, and never make a unit change hands.
Ledger == INSTANCE TokenLedger WITH
    Custodian <- TokenContract,
    Amounts <- {v.amount : v \in Values} \ {0},
    supply  <- [t \in Token |-> stat[t].supply],
    ceiling <- [t \in Token |-> stat[t].max_supply],
    wealth  <- [t \in Token |-> [o \in Owner |-> Wealth(t, o)]]

ImplementsLedger == Ledger!Spec
=============================================================================
