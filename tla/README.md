# A TLA+ model of the GXC contracts

The repository holds the smart contracts of the GXChain platform, written for an
EOSIO chain. This directory models its core contracts in TLA+, checks them with
TLC on small instances, and proves with TLAPS, for every value of the constants,
every safety property that the passing instances check, three of them under a
named hypothesis on the constants (section 5).

## 1. Inventory

A contract runs one action at a time, to its end, with the inline actions it
sends; a `check` that fails anywhere aborts the whole transaction. What is
concurrent is the order of transactions of many accounts, and what is
asynchronous are deferred transactions, which the chain runs some time after
their delay and which are gone if they fail.

| component | state | operations | interacts with |
|---|---|---|---|
| **token** `contracts/token` | `stat` (supply, maximum, options, withdrawal minimum and delay), `accounts` (balance, deposit, frozen, whitelist), `withdraws` (request, time), `allowance` | mint, setopts, transfer (also issue and retire, through `gxc.null`; recall, by the issuer; use of an allowance), burn, setacntsopts, open, close, approve, deposit, pushwithdraw, popwithdraw, clrwithdraws | a deferred transaction per owner with pending withdrawals; all other contracts move value through it |
| **gacha** `contracts/gacha` | `scheme` (grades, budget, paid out, counts), `gacha` (owner, scheme, seeds, deadline) | open, close, issue, setoseed, setdseed, resolve, the internal draw | one deferred `resolve`; token transfers from partners' allowances and to players; partner flag of account |
| **htlc** `contracts/htlc` | `htlc` (recipient, value, hashlock, timelock), `config` (minimum amount and duration) | newcontract, withdraw, refund, setconfig | token transfers, issue to recipients, retirement |
| **reserve** `contracts/reserve` | `reserves` (derivative, underlying, rate), `prepaid`, `config` | mint, claim, setminamount, prepay | mints and burns derivatives in token; asked by system (`require_prepaid`) and bancor (rate) |
| **bancor** `contracts/bancor` | connectors, charges, configuration | convert, and the set-up of connectors and fees | token transfers, issue and retirement; rate of reserve |
| **account** `contracts/account` | `accounts` (name with the partner flag in its low bits, nickname) | setnick, setpartner, connect, signin | asked by gacha and reserve; called by system |
| **system** `contracts/system` | global state (RAM supply, gift), RAM market, user resources, ABI hashes, last block | init, setram, setramrate, setramgift, setparams, setpriv, setalimits, setprods, newaccount, genaccount, setabi, setcode, onblock; `buyram`, `sellram`, `delegatebw`, `undelegatebw`, `refund` start with a check that always fails | account, reserve, token |
| wrappers, names, hashes `contracts/common`, `include/misc` | none | inline actions with the permission each carries; `basename` of an extended name | all contracts |
| vendored headers, build files, tests | none | | |

What makes each hard, and what makes it correct:

- **token**. A row is erased when a debit leaves it empty, unless it is frozen
  or whitelisted, in the middle of handlers that read it again. The contract's
  own row is at once an ordinary account and the custody of all pending
  withdrawals. The requests of one owner, in tokens of different delays, share
  one deferred transaction, which every push, full recall and settlement sets
  again and a cancellation leaves alone. The issuer may freeze, delist or recall
  between a request and its settlement. Correct means: units are conserved and
  never exceed what was minted; no request is served at the cost of another;
  locked funds do not move; a request is settled not before its delay and in the
  end, while the contract's row is not spent; allowances and whole units are
  respected.
- **gacha**. The budgets of all schemes are one balance. An owner's seed, the
  partner's reveal, the deadline and the closing of the scheme come in any
  order; a gacha may outlive the scheme it was issued under and meet another of
  the same name; one that cannot be paid fails the resolution of all. Correct
  means: no scheme pays from another's budget; none closes over a gacha that
  waits; limits hold; every seeded gacha is drawn.
- **htlc**. Opening and refunding meet at the timelock, and anybody may ask for
  either. The vault puts nothing in, and may lock for either chain.
  Correct means: what is locked is held and paid once; each lock has one outcome.
- **reserve**. A prepayment is made for a name before its account exists, lets
  the account be created, and is used by the first mint of that account in part,
  in whole, or with a transfer on top. A claim multiplies by a rate and cuts off
  the rest, any number of times. The sign of an underlying asset is not looked
  at, and the token contract mints and burns without telling the reserve. Correct
  means: what the reserve holds covers prepayments and underlying assets, each
  counted once; whoever claims first leaves enough for the others.
- **bancor**. Every price is worked out twice, at the curve and at the rate of
  the reserve, in one of four ways by what is given and what is required; the
  whole amount that is paid out is priced back to what it costs, and a part of
  the charge is given back with the change. Correct means: what the contract
  holds moves with what its connectors are accounted; nobody gains by buying and
  selling back in the token's own precision; no token is bought for less than its
  reserve would pay.
- **account**. A row keeps the name and the partner flag in one word, and both
  actions write that word and leave the rest. Rows are made by owners, by the
  system account, and by the creation of an account. Correct means: a nickname
  names one account, and flag and nickname survive each other's updates.
- **system**. `newaccount` sends `setpartner`, and `genaccount` sends
  `newaccount` and `setnick`, in one transaction whose parts see what the
  others left. The limits of an account are saved at the first change and the
  row erased by the call that restores them. RAM is added at a rate that
  changes, as a product of 32 bits. Correct means: short names only for who
  prepaid; saved limits come back; RAM is supplied once, at the rate of its
  blocks, and all of it is for sale.

## 2. Modules

| module | what it is |
|---|---|
| `Totals` | the sum of a function over a finite set |
| `Token` | the token contract: every handler, inline settlement, deferred transactions, block time |
| `TokenLedger` | the abstract ledger a token promises to be |
| `MCToken` | instances of `Token` for TLC |
| `TotalsProofs` | lemmas about sums, proved |
| `TokenProofs` | the invariants of `Token`: types, conservation, custody, whole deposits and the deferred transactions, proved |
| `TokenSteps` | what every step of `Token` keeps: locked holdings, allowances, delays, and the abstract ledger, proved |
| `Account` | the account contract, as handlers over its table |
| `Reserve` | the reserve contract, extending `Account` for the partner flag |
| `Bancor`, `MCBancor` | the bancor contract composed with `Reserve`, and its instance |
| `System`, `MCSystem` | the system contract composed with `Account` and `Reserve`, and its instance |
| `ReserveProofs` | what the calls of the reserve keep, proved for any module they are composed with |
| `BancorProofs` | the invariants of `Bancor` and of `Reserve` with it, its books, prices and round trips, proved |
| `SystemProofs` | the inductive invariant of `System`, and of `Account` and `Reserve` with it, proved |
| `Gacha`, `MCGacha` | the gacha contract and its instances |
| `GachaProofs` | the invariants of `Gacha`, its alarm and its limits, proved |
| `Htlc`, `MCHtlc` | the hash time lock contract and its instances |
| `HtlcProofs` | the inductive invariant of `Htlc`, proved |

### Conventions

- **One action is one transaction.** A handler is an action of the same name;
  the guard is the conjunction of its checks, its inline actions included, since
  each aborts all. Where the code tells cases apart by who signs or what exists,
  each case is an action: `transfer` is `Issue`, `Retire`, `Transfer`,
  `TransferAllowed`, `Recall` and `RecallPending`; `mint` is `Create` and
  `MintMore`.
- **Authority.** `auth` is the set of accounts that sign. The inline actions
  contracts send in the name of others are taken to be permitted, as the
  deployment has to configure them.
- **Time** is in whole seconds. Blocks come twice a second, but scheduled times
  are of type `time_point_sec`, and comparing one with the block time, or
  subtracting the block time from it, first cuts the block time to a second.
- **Deferred transactions** are the time they are due, or none. `FireDeferred`
  runs one, or drops it when a check fails, which leaves the state as it was.
- **Names that start "mutation"** in a comment are deliberately wrong variants,
  not used by the models: each shows that a property tells the code from a
  plausible mistake.
- Left out throughout: RAM payers, memos, the notifications
  (`withdraw_processed`, `winreward`, ...), whose handlers only check authority.

### Token

`stat`, `accounts`, `requests` and `allowances` are the tables, `deferred` the
pending transactions and `now` the block time. The row operations of
`account_impl` are pairs of operators over one token's rows: `CanSubBalance` is
the check and `SubBalance` the effect, and so on; a handler is a composition of
them in the order of the code, so that a row erased by the first step is missing
in the second. `BalanceDrains` and `DepositDrains` are the branches that erase.
`RefreshSchedule` is `refresh_schedule` with the inline `clrwithdraws` it sends
when the first request is already due, on the tables the handler leaves.

Two details of the code show in the model. The branch that erases a row compares
no symbols, which is why an asset has a precision `prec` here. And `clear` asks
the frozen flag of a row it has not found, when the owner closed the account or
the row was the contract's own and just drained: the value read is undefined,
and `garbage` chooses it.

`Horizon` bounds withdrawals to those that mature before the clock stops, so
that `WithdrawalsSettle` is not lost to the bound. Every account's holdings move
by transfers, deposits, retirements and burns, the contract's own too: a deposit
asks for no signature, so that anybody may turn what the contract holds for
others into its deposit. `Requesters` are the accounts that ask for withdrawals;
the contract, which would have to sign for itself, is not one of them.

### TokenLedger

Supply, ceiling and wealth of each account, with `Mint`, `Issue`, `Retire`,
`Burn` and `Move`. `Token` maps to it by `Wealth`: balance, deposit and pending
withdrawal of an owner, and for the contract its balance without what it holds
for others. Everything else of the token contract is a stutter there. That a
settlement or a cancellation stutters says that no request is paid from somebody
else's wealth. The contract is the ledger's `Custodian`, the one account that may
owe: it does when what it holds for others is spent.

### Gacha

`scheme` and `gacha` are the tables, `bank` the balances of the token that
budgets and rewards are in, `deferred` the one pending `resolve`. Seeds and the
random generator are a free choice of score below the size `precision` gives;
`Due`, `Resolved` and `Awarded` are the loop of `resolve`, as one step because
the order of draws does not show in the tables; `RefreshSchedule` is as in the
token. A gacha keeps the name of its scheme and not the scheme, as in the code,
and so may be drawn under a later scheme of that name.

### Htlc

`locks` and `config` are the tables, `supply` and `bank` the token. A hash
stands for its preimage. Everybody locks for a recipient on the other chain (a
digest), and the vault (`gxc.vault`) for recipients on either. `Withdraw` and
`Refund` have two disjuncts each, as the handlers tell a name from a digest:
what a recipient here receives is issued, and what the contract holds is retired
or paid back, although a vault's lock for the other chain has put nothing in.
Around the contract, `bank` changes by transfers, by deposits, which ask for no
signature, and by deposits that come back; what is issued of a token with
deposits is a deposit. The contract itself signs none of these. `rate` and
`fixed` of the configuration are written and never read.

### Account and Reserve

`Account` and `Reserve` have no specification of their own: they are parts, with
their variables, initial states, calls and invariants, and `Bancor` and `System`
compose them. Handlers that other contracts call inline (`CanSetNick`,
`NickSet`, `CanSetPartner`, `PartnerSet`) are operators over a table, so that
the second of two inline actions is applied to the table the first has left.

In `Account`, `low` is the low bits of the word that holds the name; names have
at most twelve characters, which leave them free. The rules for a nickname
(length, letters, digits, Hangul) are the constant set `ValidNick`. `setpartner`
asks for no signature, and so does its model.

In `Reserve`, `core` is the balance of each account in the system token, the
only one that may be prepaid or reserved; `stat` and `held` are the derivatives.
A rate is the pair of the amounts minted, where the code divides them into a
double. `Leftover` is what a mint transfers beyond the prepayment. Amounts may be
negative where the code does not ask: an underlying asset below zero raises a
prepayment, or is stored without a transfer. A claim burns what the holder has
and pays its whole part at the rate; it is priced and taken as in `CanClaim`,
`Claimed`, `ClaimedReserves` and `Burned`, which `Bancor` calls too. `Claimed` is
a set: a double just below a whole number is cut off to the number before it, so
that a claim worth exactly n may be paid n - 1. That is all a double may lose
while the product is within its precision (`Exact`, 2^50 and below); claims
beyond are not explored. `Send` is a plain transfer, to which no contract reacts;
`MintToken` and `Burn` are what the token contract and the issuer do to a
derivative without the reserve, further mints included.

### Bancor

`config`, `charges` and `connectors` are the tables. The four ways to convert
are `Buy`, `BuyExact`, `Sell` and `SellExact`, each the whole handler with the
inline transfers; `Bought`, `Retired` and `Redeemed` are what the three ends of
the handler do, the last through the reserve.

The code computes in doubles. Here every result is an exact real number
s(p/q)^(1/i) - s, and what is taken of it are comparisons (`AtLeast`), the whole
part (`Whole`) and what is paid for a whole amount (`Part`, the code's
`total - int64_t(total * (1 - ratio))`). A change at the connector of the wrong
sign counts as none, as in the code, which for weight 1/2 is so when more smart
tokens are priced than there are twice over. Where the code would divide by zero or
take the logarithm of nothing, the conversion to an integer is refused and is a
guard here. The weights are 1 and 1/2, so that powers are products. The
connected token is the system token. A sale names a symbol whose precision nothing
compares with the connected token's: the curve is read in the connected token's
own, but the reserve's rate in the one named (`ReserveCore`, with the factor
`Scales` allows; `Same` is none). In the other three ways another precision is
refused by the arithmetic of assets or by the token contract.

### System

`chain`, the accounts there are, `limits` and `now` belong to the chain;
`userres`, `resmod`, `market` and `global` are the tables. `NewAccount` and
`GenAccount` are one transaction each, with the inline `setpartner` and
`setnick`. As `buyram` and its like start with a check that fails, no RAM is
ever reserved, the resources of an account are those it was created with, and
`market.base` is all RAM. `owed` is history: every byte granted or come with a
block, counted block by block at the rate of that block, against which the
product of `NewRam`, cut to 32 bits, is compared; `overdue` remembers whether
2^32 bytes ever waited to be supplied, and `founder` who created each account.

The accounts of `chain` sign, others do not. The bytes an account is given are
added to its RAM limit (`WithGift`). The check that a RAM size is realistic (1
PiB) is left out.

## 3. Model checking

All runs check deadlock but two. `gacha_core` really stops: when the clock has
reached its bound, every scheme has expired, and an overdue gacha cannot be
paid, no action is left. So does `bancor_core`, before its contract is
configured and if what is tried is refused throughout, and where the amounts
explored are all spent.

| run | instance | shows |
|---|---|---|
| `token_core` | one token of two units to the whole, floatable or not, issuer, holder and the contract, amounts to 2, delay 1, clock to 2; 158,370 states | `TypeOK`; `Conservation` of units and of what was minted; `Custody`: no pending withdrawal is served at another's cost; `LockedFunds` under freezes; `DelayHonoured` for requests that are topped up, recalled and settled; `AllowanceSpent` in parts and whole; `WholeDeposits` |
| `token_options` | pause, whitelist and further mints, recallable or not, amounts to 2; 24,310 states | `Custody`; `LockedFunds` under delisting; `ImplementsLedger` |
| `token_schedule` | two tokens with delays 1 and 2 held by one owner, the issuer recalling and freezing, deposits of the contract's balance, clock to 2; 84,480 states | `AlarmSet`: the deferred transaction is lost only for want of the contract's balance; `WithdrawalsSettle` by it alone while that is there |
| `token_fraction` | two units to a whole token, with recalls | finding: `WholeRequests` |
| `token_precision` | two precisions | finding: `OnePrecision` |
| `gacha_core` | two schemes of one partner, two gachas, budgets 3 and 2, grades limited and not, zero seeds, clock to 3; 126,579 states | `TypeOK`; `Escrow`; `PendingCounted`; `AlarmSet`; `LimitsKept`; `GachasDrawn` |
| `gacha_raincheck` | one grade that a score may miss | finding: `RefusedForCause` |
| `gacha_spent` | a budget that one reward uses up | finding: `SettledCloses` |
| `htlc_core` | a sender and the vault, recipients on both chains, two names, every timelock within the clock, a token with deposits; 75,600 states | `Escrow`; `OneOutcome` |
| `bancor_core` | one smart token, with or without a reserve, its issuer, a trader and two administrators, amounts to 4 and underlying assets of -1, 1 and 3, weight 1/2, a charge of one half or none, sales in three precisions; 142,157 states | `TypeOK`; `ReserveCovers`; `ClaimsCovered`; `UnitsHeld`; `BooksBalance`; `NoRoundTripGain`; `AtLeastTheRate` |
| `system_core` | a short and a long name to create, the short one prepaid or not and minting a token, two nicknames of which one is valid, rates 1 and 2, a word of 4 for 2^32, clock to 3; 145,280 states | `TypeOK`; `NicksUnique`; `IdentityKept`; `ShortNamesPrepaid`; `LimitsRestored`; `RamForSale`; `RamOwedInTime` |
| `system_ram` | the RAM alone, clock to 6 | finding: `RamOwed` |

**Bounds.** An amount of two or three units gives every case the code tells
apart: a debit that empties a row and one that does not, a request covered by
deposit in whole, in part or not at all, a maximum that is reached and raised.
The issuer, a holder and the contract are all the roles a transfer has; issuer
and holder ask for withdrawals that one balance backs.
Two tokens are needed for the shared schedule, and more than two would only add
requests of equal standing. A delay of one and two seconds gives requests that
are due together, apart, and overdue at a push. In the gacha, two schemes share
the balance, a budget of 3 is exceeded by two first grades of 2, the other
scheme could pay its only grade twice and may give it once, `MaxIssued` and
`MaxSeeds` let both gachas be issued under one scheme and again after it, and
`Uint32 = 8` keeps the maximum time beyond the clock as in the code. In the lock
contract two locks share one sender's escrow, and time passes, meets and
precedes every timelock; what one sender locked is there for a vault's lock to
take. In the bancor contract a charge of one half (5000 of 10000) shows at
amounts this small, and a deposit of 2 with amounts to 4 reaches purchases at
the curve and at the reserve's rate, sales to both, charges of which a part is
given back, sales of which a part is returned, and the unit lost when an exact
sale is redeemed. A mint of 4 units for 1 or 3 gives rates that do not divide, and one
for -1 a debt. A factor of 2 stands for the ten by which precisions differ, as
much as amounts this small can show; the proofs are about any factor. The weight
is 1/2, at which more may be sold than there is; the proofs are about both.
In the system contract `Uint32 = 4` lets the RAM of two blocks at rate 2
overflow, which takes 65,538 blocks (nine hours) at the highest rate, and the
prepayment of the short name may be there or missing when the account is created,
and is used in part or whole by the mint of its token afterwards. `MaxAmount` is the largest amount an asset holds, not a
bound of the model alone: a mint beyond it is refused by the code too.

**Fairness.** `WF(Tick)`: blocks are produced. `WF(FireDeferred(o))`,
`WF(FireDeferred)`: the chain runs a deferred transaction some time after its
delay. No caller is fair: requests are settled and gachas drawn without anybody
calling anything. `WithdrawalsSettle` holds while the contract's balance
covers what is asked, and on tokens without a whitelist; with one, the contract's payment to an owner who is delisted (or whose row was erased
and who has not the issuer's signature) fails, and the transaction is gone with
all the owner's requests, until the owner or a further push sends it again.
`GachasDrawn` assumes that from some time on what is due can be paid, for one
exhausted scheme stops the resolution of all.

**Partial guarantees worth knowing.**

- *Custody of the token.* The contract's balance backs the requests only as long
  as nobody spends it, and the code does not see to that: `deposit` asks for no
  signature (`token_impl.cpp:226`), so that anybody may turn it into a deposit of
  the contract's own. The models make that call. `Custody` says that nothing else
  takes from what backs the requests, and that such a call leaves the requests
  and all other deposits; `AlarmSet`, that a deferred transaction is lost only by
  a run that finds a due request short of that balance; `WithdrawalsSettle` has the
  balance as its condition, because it is false without. Refused for another
  reason, a deferred transaction is gone too, and set again only by the next call
  that refreshes the schedule: so `AlarmSet` is checked and proved where nothing
  else can be refused (section 5).
- `LockedFunds` lets a frozen account receive back, as deposit, what it asked for
  before, and lets anything happen to a row once it is unfrozen or closed; a
  closed and reopened row is not frozen.
- `LimitsKept` allows for the draw after a missed deadline, which gives the first
  grade whatever its limit.
- *Escrow of the locks.* Two things use what others locked, and `Escrow` names
  them: a lock of the vault for the other chain (`htlc.cpp:18` lets it make one),
  whose opening or refund takes its value from the senders', and an unsigned
  deposit of what the contract holds of a token with deposits. Nothing else does.
- *The reserve.* `mint` does not look at the sign of the underlying asset, so
  that one below zero raises a prepayment or stands for nothing; `ReserveCovers`
  counts it as a debt, and says that nothing but these debts is missing.
  `ClaimsCovered` is about the units the reserve was minted for: after a further
  mint by the token contract there are more, and claims of these are paid at the
  rate from what the reserve holds for others, a debt as well. Claims whose product exceeds a double's
  precision are not covered: there the conversion may round above the exact
  value.
- *Conversions.* `NoRoundTripGain` is about given amounts in the connected
  token's own precision, and `AtLeastTheRate` about purchases. A sale in another
  precision is paid at the reserve's rate times a power of ten
  (`bancor.cpp:159`), and so gains, or goes below the rate. An exact purchase is
  priced as the sale of what it buys, at the supply before it, and so is cheaper
  than the same purchase by amount. `BooksBalance` keeps redemptions off the
  connectors, and does not bound what they cost the contract: a unit if the
  precision is right, any amount if it is not. No property says that a connector
  is not overdrawn. On a curve of weight 1/2 all the smart tokens there are sell
  for up to three times the balance of their connector, and nothing in the
  handler compares the two, so that with several connectors the rest is paid from
  the others.
- *Short names.* `setpartner(n, false)` asks for no signature (`account.cpp:49`),
  so that `ShortNamesPrepaid` speaks of the flag at the end of the transaction
  that creates the account, and not of later.
- *RAM.* `RamOwedInTime` holds until 2^32 bytes wait; what happens then is the
  finding `system_ram`.

## 4. Findings

| run | the code | what says otherwise |
|---|---|---|
| `token_fraction` | a recall that takes a part of a pending withdrawal leaves a fraction in it (`token_impl.cpp:200`); cancelling it is refused afterwards | a withdrawal of a fraction is refused with `not available float` (`tests/token_tests.cpp:816`) |
| `token_precision` | a transfer of a whole balance in another precision erases the row without comparing symbols (`account_impl.cpp:91`) | issue, retire and burn check `symbol precision mismatch` (`token_impl.cpp:94`, `:116`, `:144`) |
| `gacha_raincheck` | a draw that misses every grade leaves `unresolved` as it was (`gacha.cpp:195`) | `unresolved gacha remains` (`gacha.cpp:18`), when none does |
| `gacha_spent` | closing a scheme whose budget is used up sends an empty transfer (`gacha.cpp:20`), which is refused (`token.hpp:14`) | the two conditions a closing is refused for (`gacha.cpp:17`, `:18`) |
| `system_ram` | new RAM is a product of 32 bits, so that multiples of 2^32 bytes are lost when the supply was not updated in time (`system.cpp:62`) | `new ram will be allocated at the old rate up to the present block before switching the rate` (`system.cpp:78`, `:79`) |

## 5. Proofs

`TokenProofs` proves, for any sets of tokens and accounts, any precisions, calls
and bounds that satisfy `ChainAssumption` and `CallAssumption`:

- `TypeCorrect`: `Spec => []TypeOK`;
- `SupplyConserved`: `Spec => []Conservation`.

`Conservation` is not inductive. A row that is not open must hold nothing
(`ClosedEmpty`), or opening it would make units; and a token that was not minted
must have no units and no maximum (`Unminted`), or minting it, which sets both
anew, would lose them. Types are needed throughout, a debit being a natural
number only because its check compares it. The invariant is `IInv`: `TypeOK`,
`Conservation`, `ClosedEmpty`, `Unminted`.

The proof follows the layers of the code. For each row operation a lemma says
what it does to one token's rows: its result is well formed, closed rows stay
empty, and the total of the rows changes by the value and by nothing else. The
handlers compose these, and `RefreshSchedule`, which settles any number of
tokens at once, is handled token by token, since requests of different tokens
touch different rows. Each action of `Next` has its own step.

For `CustodyKept`, what has to be shown of a step is that `Cover` does not fall,
or that the step is a call on the contract's own row (`OwnSpent`). `TInv(k)` says
that the cover of each token is at least k of it, a number that is fixed before
the step: so one invariant serves for any state the contract may be in, short or
not. Three handlers take from the contract's balance for others: a settlement, a
recall that the deposit does not cover, and a cancellation, and in each the
request goes down by what is taken (`OneRequest`); a settlement of many tokens is
taken token by token (`RefreshCustody`). For every other handler it is enough
that the contract's row is not the one debited (`OthersDebited`); where it is,
the handler leaves the requests and, but for the contract's own, the deposits.
That a credit never lowers the contract's balance (`Grows`) needs the row it
opens or reuses to be well formed, hence `TypeOK` and `ClosedEmpty`.

For `DepositsWhole`, `WInv` adds `WholeDeposits` to `IInv`, with what it depends
on: whether a token may be held in fractions is one of its options, so a token
that was not minted must still have those it had at the start (`Uncreated`), and
no later call may make a token with deposits stricter. Each row operation is shown to leave a whole deposit whole. Where a recall takes the
rest from the pending request, the request may be left with a fraction (finding
`token_fraction`) and the deposit not; that is why a cancellation has a check.

`AlarmsAreSet` (`AlarmSet`) has a hypothesis, `Plain`: tokens have one precision,
calls move whole tokens of it, and no token is minted with a whitelist. Each
part excludes a way for a due request to be refused, after which the deferred
transaction is gone: a delisted owner; a row of another precision (finding
`token_precision`); a fraction that a recall left in the request (finding
`token_fraction`) and that cannot come back to a frozen owner as deposit. What
remains is the contract's balance. The invariant `SInv` says that what is pending
is whole and none of it the contract's own, so that `CanClear` holds whenever
the balance pays each due request (`NothingRefused`), and a deferred transaction is
dropped only when nothing is pending or a due request is short. Every other call either leaves the
alarm early enough, or sets it by `HeadTime`. `token_schedule` has such constants.

`TokenSteps` proves four action properties.

- `LockedStay` and `AllowancesSpent` follow from `IInv`. Each row operation is
  shown to leave every row alone that may not be used (`Kept`); that relation is
  transitive, so a handler that composes the operations has it too, and what
  remains is `clear`, which credits a frozen row with its own request and
  nothing else (`SettleBarred`). A push or a recall that goes on to
  `refresh_schedule` with a changed request needs that its owner is not barred,
  which the debit it made first shows (`RefreshStill`). Only a transfer against
  an allowance changes both an allowance and a row.
- `TokenImplementsLedger`: the initial state maps to an empty ledger, and every
  step to a step of it or a stutter. The wealth of an account is three
  holdings in two tables, and that of the contract its balance without what it
  holds for others, a difference that mentions all owners and is below zero when
  some of that was spent: so each settlement is shown to leave every owner's wealth
  and the contract's, token by token, and each handler to change the wealth of
  the accounts it names and of nobody else. The supply bounds come from
  `Conservation`.
- `DelaysHonoured` is proved under `DelaysFit`: the clock's bound and any delay
  together stay below the last time (2^32 - 1 seconds in the code), so that no
  scheduled time wraps. The invariant `DInv` says of every request that its token
  exists and that it is due no later than the token's delay from now, for a
  top-up must never bring a request forward. `token_core` satisfies `DelaysFit`;
  a token of a larger delay exists only if its creator asks for it, and then the
  property is false (section 6).

Sums need induction, which the provers cannot be given as a theorem over an
operator. `TotalsProofs` therefore represents a sum by the set of its coins, the
pairs of an owner and a number below the owner's holding: `Total` is the
cardinality of that set, and `TotalUpdate`, `TotalGroups` and `TotalSum` follow
from the library's theorems about cardinalities and bijections. `LeastNatural` stands for the well-foundedness of the
numbers.

`HtlcProofs` proves both properties of the lock contract, for any tokens,
accounts, names, amounts and times that satisfy `HtlcAssumption`: `EscrowKept` and
`OneOutcomeOnly`. Both are about steps, and the invariant `HInv` they need is that
the tables are well formed. For each action it is shown by how much it changes
what is locked of each token (a sum over the locks, of which one changes) and
what the contract holds; a step that opens or refunds no lock leaves both or adds
to both, unless it is a deposit of the contract's balance.

`GachaProofs` proves `TypeCorrect`, `PendingIsCounted`, `EscrowHeld`, `AlarmIsSet`
and `LimitsAreKept`, for any schemes, accounts, gachas, grades, limits, scores and times that satisfy
`GachaAssumption`; what that asks beyond types is that the contract neither
creates schemes nor plays, that it holds nothing at the start, and that the
bounds of the model are below 2^32, so that no count or clock wraps within them.
The invariant `GInv` strengthens the three together: a gacha with a seed has a
deadline that was set (`Queue`), or a draw could take off a count what was never
counted; the pending gachas of a scheme are no more than its count, and it is
open when there are any (`Counted`); and a scheme that is not open has nothing
left (`Escrowed`), or opening it would lose that. All of it is stated of tables
given as arguments, since a handler changes them and passes them on to
`RefreshSchedule`, which resolves what is due on what it is given. One resolution
pays many owners from many schemes: by `TotalGroups`, which counts a union of
disjoint groups, the prizes by owner are the draws by scheme (`PrizesByScheme`),
and by `TotalSum` they are what all the schemes together have less.

`AlarmIsSet` needs an invariant of its own, `AInv`: either the deferred resolve
is set for the first deadline or earlier, or what is due cannot be paid. That is
not a loophole of the proof but what the code does: a resolution that fails is
dropped, and the next call that refreshes the schedule fails with it. The proof
shows that a call which does not refresh the schedule leaves both the deadlines
and what can be paid as they were, or makes no new deadline. `LimitsAreKept` is
proved under `DeadlinesFit`, the counterpart of `DelaysFit` for the deadlines of
schemes: a deadline that wraps would make a gacha overdue as soon as its seed is
given. A draw by score takes only grades below their limit, and the resolution
counts each grade up by the gachas that drew it, so what is beyond the limit is
among the late ones. `gacha_core` satisfies `DeadlinesFit`.

`BancorProofs` proves all seven properties of `bancor_core`, for any smart tokens,
accounts, amounts, charges and deposits that satisfy `BancorAssumption` and those
of the parts. What it asks beyond types is that the contract is nobody's issuer,
holder or administrator and holds nothing at the start, that charges are rates
of at most 10000, and that weights are 1 or 1/2.

- The curve is made of choices: `Whole` and `Part` choose a number by comparisons
  of products. That the chosen number exists, and is the only one, is proved from
  `LeastNatural` and the growth of those products (`AtLeast` is decreasing in the
  amount); everything else uses only the inequalities that characterise them.
- The reserve's invariants (`ReserveIsCovered`, `ClaimsAreCovered`, `UnitsAreHeld`)
  come from `ReserveProofs`, of which only the calls that conversions make anew
  are left: units issued, retired and claimed by the contract. `IInv` joins them
  with the types; `UnitsHeld` makes what a sale retires part of the supply.
- `BooksAreBalanced` and `RateIsKept` follow the handlers' branches: each
  conversion is booked at one connector, or claims from a reserve and touches
  none, whatever factor of `Scales` it is paid by.
- `NoGain` is an invariant because it is about every state that `IInv` allows, and
  needs no history: with `delta` paid for `n` units, the curve after the purchase
  gives for `n` units, in the connected token's precision, no more than `delta` (by weight, the inequality between the
  products that `Part` and `Whole` were chosen by), the reserve's rate does not
  either, since the purchase was at it or above it, and the charges only widen
  the difference.

`SystemProofs` proves every property that `system_core` checks, for any accounts, tokens, names,
rates and times, and amounts of any sign, that satisfy `AccountAssumption`, `ReserveAssumption` and
`SystemAssumption`: `TypeCorrect`, `NicknamesUnique`, `ReserveIsCovered`,
`ClaimsAreCovered`, `UnitsAreHeld`, `LimitsAreRestored`, `AllRamForSale`,
`RamAccounted`, `IdentitiesKept` and `ShortNamesArePrepaid`. What the
assumptions ask beyond types is that the account of the reserve neither issues
tokens nor calls for itself, so that its balance is custody alone, that it holds
nothing at the start, and that the system account is not created.

The invariant `IInv` has four parts, one for each group of tables, kept
separately because their actions touch different tables, except when an account
is created:

- `AInv`, the table of accounts and its unique nicknames;
- `RInv`, the reserve: `ReserveCovers`, in which a mint of a negative asset adds to
  the debts what it adds to a prepayment, needs the sums of assets, debts and
  prepayments to change by one row (`Totals`); that a claim leaves `ClaimsCovered`
  needs only the upper bound of `Claimed`, so that the unit a double loses does
  not matter; and `UnitsHeld` makes what is burned part of the supply.
  `ReserveProofs` states what the calls keep for any caller (`UnitsIssued` and
  `UnitsClaimed` ask only what happens to the reserve's balance), so that it can
  be used for other compositions;
- `CInv`, limits: a saved row always says what the account was created with, so
  that restoring it does;
- `MInv`, RAM: unless 2^32 bytes ever waited, fewer wait now (`Waiting`), so that
  the remainder that is supplied is the product itself.

**Only model-checked**: `WithdrawalsSettle` and `GachasDrawn`, since liveness and
fairness are out of the prover's reach. What they rest on is proved: the alarm is
set while anything is pending (`AlarmSet` of either contract), and what a token
owes is paid from nobody else's (`Custody`). The findings' properties are false and so not
proved.

## 6. What is not modelled

- **system**: `setparams`, `setpriv`, `setprods`, `setabi`, `setcode` and
  `onblock` check a signature and store their argument or hand it to the chain;
  nothing else in the contracts reads what they store. `buyram`, `buyrambytes`,
  `sellram`, `delegatebw`, `undelegatebw` and `refund` start with a check that
  always fails, so that `changebw`, the exchange state and the tables only they
  write are dead code.
- **account**: `connect` and `signin` check and change nothing. The validity of
  a nickname is a constant set: the UTF-8 decoder is third-party code.
- **token**: withdrawals the contract asks for itself, which it would have to sign:
  its request would be backed by its own row, and a recall of it changes that row
  through two handles, the second of which writes back what the first had read
  (`token_impl.cpp:206`).
- **bancor**: rounding inside doubles, where the exact result is a whole number
  or amounts exceed 2^53; weights other than 1 and 1/2; connected tokens other
  than the system token.
- **reserve**: the options of derivatives, which are those of any token, and
  their retirement by a holder; claims whose product exceeds 2^50.
- The contracts' own keys: `gxc.reserve` and `gxc.bancor` sign their
  administration, and neither they nor `gxc.htlc` sign transfers, issue tokens or
  convert.
- The vendored UTF-8 headers, build files and tests.
- In `Gacha` the token is a ledger of balances, of one token, without options,
  freezes or allowances that run out; in `Htlc` one with deposits, without the
  other options, recalls by the issuer or burns.
- Delays near 2^32 seconds, which wrap `scheduled_time`: the model computes
  modulo `TimeMod`, but the instances do not reach it.
- `basename` of extended names is the constant `Issuer` (and `Creator`).
- Hash collisions: keys of tables are taken to be distinct.

## 7. Plan

Done: `Token`, `Gacha`, `Htlc`, `Account`, `Reserve`, `System` and `Bancor`, the
abstract ledger, and the proofs of all the properties of the passing runs but the
two of liveness.

1. Abstract specifications for a lock (locked, then opened or refunded) and a
   scheme (budget, awards, rest), with `Htlc` and `Gacha` proved to implement
   them; `Gacha` over the token's allowances and freezes.
2. `Bancor` with several connectors in one instance, and a bound of what a
   redemption in the right precision costs the contract.
3. `Plain` weakened to one precision per token.
