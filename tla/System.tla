------------------------------- MODULE System -------------------------------
(***************************************************************************)
(* The gxc system contract, as far as its actions do not start with a      *)
(* check that fails: accounts are created, those of short names as         *)
(* partners by who prepaid for them; their resources are limited and       *)
(* restored; RAM is added.                                                 *)
(*                                                                         *)
(* As no RAM is ever bought, none is reserved, and all of it is free.      *)
(***************************************************************************)
EXTENDS Reserve

CONSTANTS
    Short,          \* names of fewer than six characters
    SystemAccounts, \* gxc.ram, gxc.ramfee and gxc.stake; names with a dot
    Uint32,         \* 2^32
    DefaultRam,     \* RAM at the start
    DefaultGift,    \* bytes given to an account at the start
    StartTime       \* the first block explored

CONSTANTS           \* the calls explored
    NewNames,       \* accounts that are created
    Limited,        \* accounts whose limits are set
    Limits,         \* limits that are set
    RamSizes,       \* sizes of the RAM
    Rates,          \* bytes of RAM per block
    Gifts,          \* bytes given
    MaxTime         \* bound of the clock, in blocks

\* limits of an account; -1 is none
Limit == [ram : Nat \cup {-1}, net : Nat \cup {-1}, cpu : Nat \cup {-1}]

NoResources == [ram |-> 0, net |-> 0, cpu |-> 0]
Unlimited == [ram |-> -1, net |-> -1, cpu |-> -1]

ASSUME SystemAssumption ==
    /\ Short \cup SystemAccounts \cup NewNames \cup Limited \subseteq Account
    /\ SystemAccount \notin NewNames \cup SystemAccounts
    /\ {Uint32, DefaultRam, StartTime} \subseteq Nat \ {0}
    /\ Limits \subseteq Limit
    /\ RamSizes \cup Rates \cup Gifts \cup {DefaultGift, MaxTime} \subseteq Nat

VARIABLES
    chain,          \* the accounts there are
    userres,        \* those with a row of table userres, which says NoResources
    resmod,         \* Account -> the row of table resmod, what was before a change
    limits,         \* Account -> the limits the chain keeps
    market,         \* the row of table rammarket
    global,         \* the RAM in table global, and the gift
    now             \* the slot of the current block

\* history only: every byte that was granted or came with a block, whether 2^32
\* of them ever waited to be supplied, and who created each account
VARIABLES owed, overdue, founder

accountVars == <<chain, userres, resmod, limits, founder>>
ramVars == <<market, global, owed, overdue>>
vars == <<accounts, reserveVars, accountVars, ramVars, now>>

NoRow == [there |-> FALSE]

WithGift(l) == IF l.ram < 0 THEN l ELSE [l EXCEPT !.ram = @ + global.gift]

-----------------------------------------------------------------------------
(* The creation of accounts.                                                *)

Partnered(creator, n) == creator # SystemAccount /\ n \in Short

\* mutation: any prepayment will do
PrepaidByAny(creator, n) == prepaid[n].there

PrepaidBy(creator, n) == prepaid[n].there /\ prepaid[n].creator = creator

\* what newaccount, and the setpartner it sends, ask for
CanCreate(creator, n) ==
    /\ creator \in chain /\ n \notin chain
    /\ Partnered(creator, n) => PrepaidBy(creator, n) /\ CanSetPartner(accounts, n, TRUE)
    /\ creator # SystemAccount => n \notin SystemAccounts /\ market.there

AccountsAfter(creator, n) ==
    IF Partnered(creator, n) THEN PartnerSet(accounts, n, TRUE) ELSE accounts

Created(creator, n) ==
    /\ chain' = chain \cup {n}
    /\ founder' = [founder EXCEPT ![n] = creator]
    /\ IF creator = SystemAccount THEN UNCHANGED <<userres, limits>>
       ELSE /\ userres' = userres \cup {n}
            /\ limits' = [limits EXCEPT ![n] = WithGift(NoResources)]
    /\ UNCHANGED <<resmod, reserveVars, ramVars, now>>

NewAccount(creator, n, auth) ==
    /\ {creator, SystemAccount} \subseteq auth
    /\ CanCreate(creator, n)
    /\ accounts' = AccountsAfter(creator, n)
    /\ Created(creator, n)

\* newaccount, then setnick by the system account
GenAccount(creator, n, nick, auth) ==
    /\ creator \in auth
    /\ CanCreate(creator, n)
    /\ CanSetNick(AccountsAfter(creator, n), n, nick, {SystemAccount})
    /\ accounts' = NickSet(AccountsAfter(creator, n), n, nick)
    /\ Created(creator, n)

-----------------------------------------------------------------------------
(* Limits.                                                                  *)

\* mutation: only the RAM is compared
RestoredByRam(n, l) == resmod[n].there /\ resmod[n].limits.ram = l.ram

Restored(n, l) == resmod[n].there /\ resmod[n].limits = l

\* the limits an account was created with are kept until they are set again
SetALimits(n, l, auth) ==
    /\ SystemAccount \in auth
    /\ n \in chain
    /\ resmod' = IF n \notin userres THEN resmod
                 ELSE IF Restored(n, l) THEN [resmod EXCEPT ![n] = NoRow]
                 ELSE IF resmod[n].there THEN resmod
                 ELSE [resmod EXCEPT ![n] = [there |-> TRUE, limits |-> NoResources]]
    /\ limits' = [limits EXCEPT ![n] = WithGift(l)]
    /\ UNCHANGED <<accounts, reserveVars, chain, userres, founder, ramVars, now>>

SetRamGift(bytes, auth) ==
    /\ SystemAccount \in auth
    /\ global' = [global EXCEPT !.gift = bytes]
    /\ UNCHANGED <<accounts, reserveVars, accountVars, market, owed, overdue, now>>

-----------------------------------------------------------------------------
(* RAM.                                                                     *)

Initialize(auth) ==
    /\ SystemAccount \in auth
    /\ ~market.there
    /\ market' = [there |-> TRUE, base |-> global.max_ram]
    /\ chain' = chain \cup SystemAccounts
    /\ UNCHANGED <<accounts, reserveVars, userres, resmod, limits, founder, global, owed, overdue, now>>

SetRam(size, auth) ==
    /\ SystemAccount \in auth
    /\ size > global.max_ram
    /\ market.there
    /\ market' = [market EXCEPT !.base = @ + size - global.max_ram]
    /\ global' = [global EXCEPT !.max_ram = size]
    /\ owed' = owed + size - global.max_ram
    /\ UNCHANGED <<accounts, reserveVars, accountVars, overdue, now>>

\* mutation: the RAM added is not put up for sale
MarketAsBefore(new_ram) == market

OnSale(new_ram) == [market EXCEPT !.base = @ + new_ram]

\* mutation: the blocks counted are counted again
SuppliedAgain(new_ram) == [global EXCEPT !.max_ram = @ + new_ram]

Supplied(new_ram) == [global EXCEPT !.max_ram = @ + new_ram, !.last = now]

\* mutation: the slots are subtracted the wrong way round
NewRamNegative == (global.last - now) * global.rate

\* slots times bytes, in 32 bits
NewRam == ((now - global.last) * global.rate) % Uint32

\* the RAM of the blocks since the last call is supplied at the rate until now
SetRamRate(rate, auth) ==
    /\ SystemAccount \in auth
    /\ \/ /\ now <= global.last
          /\ global' = [global EXCEPT !.rate = rate]
          /\ UNCHANGED market
       \/ /\ now > global.last
          /\ market.there
          /\ market' = OnSale(NewRam)
          /\ global' = [Supplied(NewRam) EXCEPT !.rate = rate]
    /\ UNCHANGED <<accounts, reserveVars, accountVars, owed, overdue, now>>

Tick ==
    /\ now < MaxTime
    /\ now' = now + 1
    /\ owed' = owed + global.rate
    /\ overdue' = (overdue \/ (now' - global.last) * global.rate >= Uint32)
    /\ UNCHANGED <<accounts, reserveVars, accountVars, market, global>>

-----------------------------------------------------------------------------
Init ==
    /\ AccountInit
    /\ ReserveInit
    /\ chain = Account \ (NewNames \cup SystemAccounts)
    /\ userres = {}
    /\ resmod = [n \in Account |-> NoRow]
    /\ limits = [n \in Account |-> Unlimited]
    /\ market = NoRow
    /\ global = [max_ram |-> DefaultRam, rate |-> 0, last |-> 0, gift |-> DefaultGift]
    /\ now = StartTime
    /\ owed = DefaultRam /\ overdue = FALSE
    /\ founder = [n \in Account |-> SystemAccount]

SystemCall(auth) ==
    \/ \E creator \in auth, n \in NewNames :
          \/ NewAccount(creator, n, auth)
          \/ \E nick \in Nick : GenAccount(creator, n, nick, auth)
    \/ \E n \in Limited, l \in Limits : SetALimits(n, l, auth)
    \/ \E bytes \in Gifts : SetRamGift(bytes, auth)
    \/ Initialize(auth)
    \/ \E size \in RamSizes : SetRam(size, auth)
    \/ \E rate \in Rates : SetRamRate(rate, auth)

\* who signs is there
Next ==
    \/ \E auth \in AuthSets :
          /\ auth \subseteq chain
          /\ \/ AccountCall(auth) /\ UNCHANGED <<reserveVars, accountVars, ramVars, now>>
             \/ ReserveCall(auth) /\ UNCHANGED <<accounts, accountVars, ramVars, now>>
             \/ SystemCall(auth)
    \/ Tick

Spec == Init /\ [][Next]_vars

-----------------------------------------------------------------------------
(* Properties.                                                              *)

TypeOK ==
    /\ AccountTypeOK
    /\ ReserveTypeOK
    /\ SystemAccount \in chain /\ chain \subseteq Account
    /\ userres \subseteq chain \ SystemAccounts
    /\ resmod \in [Account -> [there : {TRUE}, limits : {NoResources}] \cup {NoRow}]
    /\ limits \in [Account -> Limit]
    /\ founder \in [Account -> Account]
    /\ market = NoRow \/ market \in [there : {TRUE}, base : Nat]
    /\ global \in [max_ram : Nat, rate : Nat, last : 0 .. now, gift : Nat]
    /\ {now, owed} \subseteq Nat /\ overdue \in BOOLEAN

\* An account keeps what was written of it: a nickname leaves the partner flag
\* as it is and the flag the nickname, though both rewrite the row, and no
\* nickname is lost or passes with the row.  Both are set at once only when the
\* account is created.
IdentityKept ==
    [][\A n \in Account : accounts[n].there =>
         LET renamed == accounts'[n].nickname # accounts[n].nickname
             flagged == accounts'[n].low # accounts[n].low
         IN  /\ accounts'[n].there
             /\ renamed => accounts'[n].nickname # NoNick
             /\ renamed /\ flagged => n \in chain' \ chain]_vars

\* An account of a short name, unless the system creates it, is created by who
\* paid for the name, and is a partner when the transaction ends, whether it is
\* given a nickname after the flag or not.  What was paid waits for the account
\* undiminished: no mint uses it before, and no other payment replaces it.  (A
\* setpartner, which asks for no signature, may drop the flag later.)
ShortNamesPrepaid ==
    [][\A n \in Account :
         /\ n \in Short \cap (userres' \ userres) =>
              /\ prepaid[n].there /\ prepaid[n].creator = founder'[n]
              /\ IsPartner(n)'
         /\ n \notin chain /\ prepaid[n].there => prepaid'[n] = prepaid[n]]_vars

\* Whatever limits an account was given in between, without a saved row it has
\* those it was created with; a saved row is lost only by restoring them.
LimitsRestored ==
    \A n \in userres : ~resmod[n].there =>
        /\ [limits[n] EXCEPT !.ram = 0] = NoResources
        /\ limits[n].ram \in Gifts \cup {DefaultGift}

\* All RAM is for sale, however it was added.
RamForSale == market.there => market.base = global.max_ram

\* The RAM of every block is supplied at the rate of that block, up to the last
\* block for which it was, and what is still to be supplied is that of the blocks
\* since at the rate there is: "new ram will be allocated at the old rate up to
\* the present block before switching the rate" (system.cpp, setramrate).
RamOwed == owed = global.max_ram + (now - global.last) * global.rate

\* That is so as long as the rate is set, to whatever it is, before 2^32 bytes
\* wait: no block is left out, counted twice or at another block's rate.
RamOwedInTime == ~overdue => RamOwed
=============================================================================
