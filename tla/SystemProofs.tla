---------------------------- MODULE SystemProofs ----------------------------
(***************************************************************************)
(* Theorems of System, and with it of Account and Reserve: what the three  *)
(* contracts keep in any sequence of calls.  Their tables are changed by   *)
(* different actions, except when an account is created, so that the       *)
(* invariant is kept part by part.                                         *)
(***************************************************************************)
EXTENDS System, ReserveProofs

\* The accounts of the chain, and their limits.
CInv ==
    /\ SystemAccount \in chain /\ chain \subseteq Account
    /\ userres \subseteq chain \ SystemAccounts
    /\ resmod \in [Account -> [there : {TRUE}, limits : {NoResources}] \cup {NoRow}]
    /\ limits \in [Account -> Limit]
    /\ founder \in [Account -> Account]
    /\ LimitsRestored

\* What is still to be supplied.
Waiting == (now - global.last) * global.rate

\* The RAM; the gift is the one of the start until another is set.  Unless 2^32
\* bytes ever waited, fewer of them do now.
MInv ==
    /\ market = NoRow \/ market \in [there : {TRUE}, base : Nat]
    /\ global \in [max_ram : Nat, rate : Nat, last : 0 .. now, gift : Nat]
    /\ global.gift \in Gifts \cup {DefaultGift}
    /\ now \in Nat /\ owed \in Nat /\ overdue \in BOOLEAN
    /\ RamForSale
    /\ ~overdue => RamOwed /\ Waiting < Uint32

IInv == AInv /\ RInv /\ CInv /\ MInv

-----------------------------------------------------------------------------
(* Identities.                                                              *)

LEMMA AccountsAfterInv ==
  ASSUME AInv, NEW creator, NEW n \in Account
  PROVE  AccountsAfter(creator, n) \in Sheet /\ Unique(AccountsAfter(creator, n))
  BY PartnerSetUnique DEF AInv, AccountsAfter

LEMMA NewAccountA ==
  ASSUME AInv, NEW creator, NEW n \in Account, NEW auth, NewAccount(creator, n, auth)
  PROVE  AInv'
  BY AccountsAfterInv DEF NewAccount, AInv

LEMMA GenAccountA ==
  ASSUME AInv, NEW creator, NEW n \in Account, NEW nick, NEW auth,
         GenAccount(creator, n, nick, auth)
  PROVE  AInv'
<1> DEFINE table == AccountsAfter(creator, n)
<1>1. table \in Sheet /\ Unique(table)
  BY AccountsAfterInv
<1>2. /\ CanSetNick(table, n, nick, {SystemAccount})
      /\ accounts' = NickSet(table, n, nick)
  BY DEF GenAccount
<1> HIDE DEF table
<1> QED
  BY <1>1, <1>2, NickSetUnique DEF AInv

-----------------------------------------------------------------------------
(* The accounts of the chain.                                               *)

LEMMA LimitFacts ==
  /\ NoResources \in Limit /\ Unlimited \in Limit
  /\ NoResources.ram = 0
  /\ NoRow.there = FALSE
  BY DEF NoResources, Unlimited, Limit, NoRow

LEMMA WithGiftType ==
  ASSUME MInv, NEW l \in Limit
  PROVE  /\ WithGift(l) \in Limit
         /\ [WithGift(NoResources) EXCEPT !.ram = 0] = NoResources
         /\ WithGift(NoResources).ram = global.gift
<1>1. global.gift \in Nat
  BY DEF MInv
<1>2. WithGift(l) \in Limit
  BY <1>1 DEF WithGift, Limit
<1>3. WithGift(NoResources) = [ram |-> global.gift, net |-> 0, cpu |-> 0]
  BY <1>1 DEF WithGift, NoResources
<1> QED
  BY <1>2, <1>3 DEF NoResources

LEMMA CInvUnchanged ==
  ASSUME CInv, UNCHANGED accountVars
  PROVE  CInv'
  BY DEF CInv, accountVars, LimitsRestored

LEMMA CreatedC ==
  ASSUME CInv, MInv, NEW creator, NEW n \in Account, CanCreate(creator, n), Created(creator, n)
  PROVE  CInv'
<1>1. n \notin chain /\ creator \in chain /\ chain' = chain \cup {n} /\ resmod' = resmod
  BY DEF CanCreate, Created
<1>4. founder' \in [Account -> Account]
  <2>1. creator \in Account /\ founder' = [founder EXCEPT ![n] = creator]
    BY <1>1 DEF CInv, Created
  <2> QED
    BY <2>1 DEF CInv
<1>2. CASE creator = SystemAccount
  BY <1>1, <1>2, <1>4 DEF Created, CInv, LimitsRestored
<1>3. CASE creator # SystemAccount
  <2> DEFINE l == WithGift(NoResources)
  <2>1. /\ userres' = userres \cup {n} /\ n \notin SystemAccounts
        /\ limits' = [limits EXCEPT ![n] = l]
    BY <1>3 DEF Created, CanCreate
  <2>2. /\ l \in Limit /\ l.ram \in Gifts \cup {DefaultGift}
        /\ [l EXCEPT !.ram = 0] = NoResources
    BY WithGiftType, LimitFacts DEF MInv
  <2> HIDE DEF l
  <2>3. limits' \in [Account -> Limit] /\ limits'[n] = l /\ \A m \in Account \ {n} : limits'[m] = limits[m]
    BY <2>1, <2>2 DEF CInv
  <2>4. LimitsRestored'
    BY <1>1, <2>1, <2>2, <2>3 DEF LimitsRestored, CInv
  <2>5. SystemAccount \in chain' /\ chain' \subseteq Account /\ userres' \subseteq chain' \ SystemAccounts
    BY <1>1, <2>1 DEF CInv
  <2> QED
    BY <1>1, <1>4, <2>3, <2>4, <2>5 DEF CInv
<1> QED
  BY <1>2, <1>3

LEMMA SetALimitsC ==
  ASSUME CInv, MInv, NEW n \in Account, NEW l \in Limit, NEW auth, SetALimits(n, l, auth)
  PROVE  CInv'
<1> DEFINE saved == [there |-> TRUE, limits |-> NoResources]
           given == WithGift(l)
<1>1. /\ limits' = [limits EXCEPT ![n] = given] /\ UNCHANGED <<chain, userres, founder>>
      /\ resmod' = IF n \notin userres THEN resmod
                   ELSE IF Restored(n, l) THEN [resmod EXCEPT ![n] = NoRow]
                   ELSE IF resmod[n].there THEN resmod
                   ELSE [resmod EXCEPT ![n] = saved]
  BY DEF SetALimits
<1>2. given \in Limit
  BY WithGiftType
<1>3. saved \in [there : {TRUE}, limits : {NoResources}]
  OBVIOUS
<1>4. Restored(n, l) => /\ given.ram \in Gifts \cup {DefaultGift}
                        /\ [given EXCEPT !.ram = 0] = NoResources
  <2> SUFFICES ASSUME Restored(n, l)
               PROVE  /\ given.ram \in Gifts \cup {DefaultGift}
                      /\ [given EXCEPT !.ram = 0] = NoResources
    OBVIOUS
  <2>1. resmod[n] \in [there : {TRUE}, limits : {NoResources}] /\ resmod[n].limits = l
    BY LimitFacts DEF Restored, CInv
  <2>2. l = NoResources
    BY <2>1
  <2> QED
    BY <2>2, WithGiftType DEF MInv
<1> HIDE DEF given
<1>5. /\ limits' \in [Account -> Limit] /\ limits'[n] = given
      /\ \A m \in Account \ {n} : limits'[m] = limits[m]
  BY <1>1, <1>2 DEF CInv
<1>6. /\ resmod' \in [Account -> [there : {TRUE}, limits : {NoResources}] \cup {NoRow}]
      /\ \A m \in Account \ {n} : resmod'[m] = resmod[m]
      /\ n \in userres /\ ~resmod'[n].there => Restored(n, l)
  BY <1>1, <1>3 DEF CInv
<1>7. LimitsRestored'
  <2> SUFFICES ASSUME NEW m \in userres, ~resmod'[m].there
               PROVE  /\ [limits'[m] EXCEPT !.ram = 0] = NoResources
                      /\ limits'[m].ram \in Gifts \cup {DefaultGift}
    BY <1>1 DEF LimitsRestored
  <2>1. CASE m = n
    BY <2>1, <1>4, <1>5, <1>6
  <2>2. CASE m # n
    <3>1. m \in Account
      BY DEF CInv
    <3> QED
      BY <2>2, <3>1, <1>5, <1>6 DEF CInv, LimitsRestored
  <2> QED
    BY <2>1, <2>2
<1> QED
  BY <1>1, <1>5, <1>6, <1>7 DEF CInv

LEMMA InitializeC ==
  ASSUME CInv, NEW auth, Initialize(auth)
  PROVE  CInv'
<1>1. SystemAccounts \subseteq Account
  BY SystemAssumption
<1> QED
  BY <1>1 DEF Initialize, CInv, LimitsRestored

-----------------------------------------------------------------------------
(* RAM.                                                                     *)

\* A product that fits into 32 bits is what is left of it.
LEMMA Fits ==
  ASSUME NEW p \in Nat, NEW w \in Nat, w > 0
  PROVE  p % w \in Nat /\ (p < w => p % w = p)
  OBVIOUS

LEMMA MInvUnchanged ==
  ASSUME MInv, UNCHANGED <<ramVars, now>>
  PROVE  MInv'
  BY DEF MInv, ramVars, RamForSale, RamOwed, Waiting

\* The records of MInv by their fields.
LEMMA Fields ==
  ASSUME MInv
  PROVE  /\ global.max_ram \in Nat /\ global.rate \in Nat /\ global.gift \in Nat
         /\ global.last \in Nat /\ global.last <= now /\ now \in Nat /\ owed \in Nat
         /\ market.there => market.base \in Nat /\ market = [there |-> TRUE, base |-> market.base]
         /\ Uint32 \in Nat /\ Uint32 > 0
<1>1. now \in Nat /\ owed \in Nat /\ global \in [max_ram : Nat, rate : Nat, last : 0 .. now, gift : Nat]
  BY DEF MInv
<1>2. global.last \in 0 .. now /\ global.max_ram \in Nat /\ global.rate \in Nat /\ global.gift \in Nat
  BY <1>1
<1>3. global.last \in Nat /\ global.last <= now
  BY <1>1, <1>2
<1>4. market.there => market \in [there : {TRUE}, base : Nat]
  BY LimitFacts DEF MInv
<1>5. Uint32 \in Nat /\ Uint32 > 0
  BY SystemAssumption
<1> QED
  BY <1>1, <1>2, <1>3, <1>4, <1>5

\* A row of table global from its fields.
LEMMA GlobalRow ==
  ASSUME NEW g \in [max_ram : Nat, rate : Nat, last : 0 .. now, gift : Nat],
         NEW m \in Nat, NEW r \in Nat, NEW l \in 0 .. now
  PROVE  /\ [g EXCEPT !.rate = r] = [max_ram |-> g.max_ram, rate |-> r, last |-> g.last, gift |-> g.gift]
         /\ [g EXCEPT !.max_ram = m] = [max_ram |-> m, rate |-> g.rate, last |-> g.last, gift |-> g.gift]
         /\ [[g EXCEPT !.max_ram = m, !.last = l] EXCEPT !.rate = r]
              = [max_ram |-> m, rate |-> r, last |-> l, gift |-> g.gift]
<1>1. /\ [g EXCEPT !.rate = r] = [max_ram |-> g.max_ram, rate |-> r, last |-> g.last, gift |-> g.gift]
      /\ [g EXCEPT !.max_ram = m] = [max_ram |-> m, rate |-> g.rate, last |-> g.last, gift |-> g.gift]
  OBVIOUS
<1>2. [g EXCEPT !.max_ram = m, !.last = l]
        = [max_ram |-> m, rate |-> g.rate, last |-> l, gift |-> g.gift]
  <2> DEFINE h == [g EXCEPT !.max_ram = m]
  <2>1. [g EXCEPT !.max_ram = m, !.last = l] = [h EXCEPT !.last = l]
    OBVIOUS
  <2>2. h = [max_ram |-> m, rate |-> g.rate, last |-> g.last, gift |-> g.gift]
    BY <1>1
  <2> HIDE DEF h
  <2> QED
    BY <2>1, <2>2
<1>3. [[max_ram |-> m, rate |-> g.rate, last |-> l, gift |-> g.gift] EXCEPT !.rate = r]
        = [max_ram |-> m, rate |-> r, last |-> l, gift |-> g.gift]
  OBVIOUS
<1> QED
  BY <1>1, <1>2, <1>3

LEMMA MarketRow ==
  ASSUME NEW old \in [there : {TRUE}, base : Nat], NEW b \in Nat
  PROVE  [old EXCEPT !.base = b] \in [there : {TRUE}, base : Nat] /\ [old EXCEPT !.base = b].base = b
  OBVIOUS

LEMMA Waits ==
  ASSUME MInv
  PROVE  Waiting \in Nat
<1>1. now - global.last \in Nat /\ global.rate \in Nat
  BY Fields
<1>2. \A a, b \in Nat : a * b \in Nat
  OBVIOUS
<1> QED
  BY <1>1, <1>2 DEF Waiting

\* The invariant of a step that leaves what waits as it is, and grants as many
\* bytes as it adds.
LEMMA SameWaiting ==
  ASSUME MInv,
         Waiting' = Waiting /\ overdue' = overdue,
         owed' \in Nat /\ global'.max_ram \in Nat,
         owed' - global'.max_ram = owed - global.max_ram
  PROVE  ~overdue' => RamOwed' /\ Waiting' < Uint32
<1> SUFFICES ASSUME ~overdue' PROVE RamOwed' /\ Waiting' < Uint32
  OBVIOUS
<1>1. owed = global.max_ram + Waiting /\ Waiting < Uint32
  BY DEF MInv, RamOwed, Waiting
<1>2. owed' = global'.max_ram + Waiting'
  BY <1>1, Waits, Fields
<1> QED
  BY <1>1, <1>2 DEF RamOwed, Waiting

LEMMA SetRamGiftM ==
  ASSUME MInv, NEW bytes \in Gifts, NEW auth, SetRamGift(bytes, auth)
  PROVE  MInv'
<1>1. bytes \in Nat
  BY SystemAssumption
<1>2. /\ global' = [global EXCEPT !.gift = bytes]
      /\ UNCHANGED <<market, owed, overdue, now>>
  BY DEF SetRamGift
<1>3. /\ global' \in [max_ram : Nat, rate : Nat, last : 0 .. now, gift : Nat]
      /\ global'.gift = bytes /\ global'.max_ram = global.max_ram
      /\ global'.rate = global.rate /\ global'.last = global.last
  BY <1>1, <1>2 DEF MInv
<1> QED
  BY <1>2, <1>3 DEF MInv, RamForSale, RamOwed, Waiting

LEMMA InitializeM ==
  ASSUME MInv, NEW auth, Initialize(auth)
  PROVE  MInv'
<1>1. market' = [there |-> TRUE, base |-> global.max_ram] /\ UNCHANGED <<global, owed, overdue, now>>
  BY DEF Initialize
<1>2. market' \in [there : {TRUE}, base : Nat] /\ market'.base = global.max_ram
  BY <1>1, Fields
<1> QED
  BY <1>1, <1>2 DEF MInv, RamForSale, RamOwed, Waiting

LEMMA SetRamM ==
  ASSUME MInv, NEW size \in RamSizes, NEW auth, SetRam(size, auth)
  PROVE  MInv'
<1> DEFINE base == market.base + size - global.max_ram
<1>1. size \in Nat /\ size > global.max_ram /\ market.there
  BY SystemAssumption DEF SetRam
<1>2. market.base = global.max_ram /\ base = size
  BY <1>1, Fields DEF MInv, RamForSale
<1>3. market' \in [there : {TRUE}, base : Nat] /\ market'.base = size
  <2>1. market' = [market EXCEPT !.base = base]
    BY DEF SetRam
  <2>2. market \in [there : {TRUE}, base : Nat]
    BY <1>1, LimitFacts DEF MInv
  <2> HIDE DEF base
  <2> QED
    BY <1>1, <1>2, <2>1, <2>2, MarketRow
<1>4. /\ global' = [global EXCEPT !.max_ram = size]
      /\ owed' = owed + size - global.max_ram
      /\ UNCHANGED <<overdue, now>>
  BY DEF SetRam
<1>5. global' = [max_ram |-> size, rate |-> global.rate, last |-> global.last, gift |-> global.gift]
  BY <1>1, <1>4, Fields, GlobalRow DEF MInv
<1>6. /\ global' \in [max_ram : Nat, rate : Nat, last : 0 .. now', gift : Nat]
      /\ global'.gift = global.gift /\ global'.max_ram = size
      /\ global'.rate = global.rate /\ global'.last = global.last
  <2>1. global.rate \in Nat /\ global.last \in 0 .. now /\ global.gift \in Nat
    BY Fields
  <2> QED
    BY <1>1, <1>4, <1>5, <2>1
<1>7. owed' \in Nat /\ owed' - size = owed - global.max_ram
  BY <1>1, <1>4, Fields
<1>8. ~overdue' => RamOwed' /\ Waiting' < Uint32
  <2>1. Waiting' = Waiting
    BY <1>4, <1>6 DEF Waiting
  <2> QED
    BY <1>1, <1>4, <1>6, <1>7, <2>1, SameWaiting
<1>9. market' \in [there : {TRUE}, base : Nat] /\ RamForSale'
  BY <1>3, <1>6 DEF RamForSale
<1> QED
  BY <1>4, <1>6, <1>7, <1>8, <1>9, Fields DEF MInv

LEMMA OneMore ==
  ASSUME NEW d \in Nat, NEW r \in Nat
  PROVE  (d + 1) * r = d * r + r
  OBVIOUS

\* A block adds its bytes to what is owed and to what waits.
LEMMA TickM ==
  ASSUME MInv, Tick
  PROVE  MInv'
<1>1. /\ now' = now + 1 /\ owed' = owed + global.rate /\ UNCHANGED <<market, global>>
      /\ overdue' = (overdue \/ (now' - global.last) * global.rate >= Uint32)
  BY DEF Tick
<1>2. /\ now - global.last \in Nat /\ global.rate \in Nat /\ owed \in Nat /\ now \in Nat
      /\ global.max_ram \in Nat /\ Waiting \in Nat
      /\ now' - global.last = (now - global.last) + 1
  BY <1>1, Fields, Waits
<1>3. Waiting' = Waiting + global.rate
  <2>1. Waiting' = ((now - global.last) + 1) * global.rate
    BY <1>1, <1>2 DEF Waiting
  <2> QED
    BY <1>2, <2>1, OneMore DEF Waiting
<1>4. ~overdue' => RamOwed' /\ Waiting' < Uint32
  <2> SUFFICES ASSUME ~overdue' PROVE RamOwed' /\ Waiting' < Uint32
    OBVIOUS
  <2>1. ~overdue /\ ~(Waiting' >= Uint32)
    BY <1>1 DEF Waiting
  <2>2. owed = global.max_ram + Waiting
    BY <2>1 DEF MInv, RamOwed, Waiting
  <2>3. owed' = global'.max_ram + Waiting'
    BY <1>1, <1>2, <1>3, <2>2
  <2>4. Waiting' < Uint32
    BY <1>2, <1>3, <2>1, Fields
  <2> QED
    BY <2>3, <2>4 DEF RamOwed, Waiting
<1>5. global' \in [max_ram : Nat, rate : Nat, last : 0 .. now', gift : Nat]
  <2>1. 0 .. now \subseteq 0 .. now'
    BY <1>1, <1>2
  <2> QED
    BY <1>1, <2>1 DEF MInv
<1>6. now' \in Nat /\ owed' \in Nat /\ overdue' \in BOOLEAN
  BY <1>1, <1>2 DEF MInv
<1> QED
  BY <1>1, <1>4, <1>5, <1>6 DEF MInv, RamForSale

LEMMA SetRamRateM ==
  ASSUME MInv, NEW rate \in Rates, NEW auth, SetRamRate(rate, auth)
  PROVE  MInv'
<1>1. rate \in Nat /\ owed' = owed /\ now' = now /\ overdue' = overdue
  BY SystemAssumption DEF SetRamRate
<1>2. CASE now <= global.last /\ global' = [global EXCEPT !.rate = rate] /\ UNCHANGED market
  <2>1. global' = [max_ram |-> global.max_ram, rate |-> rate, last |-> global.last, gift |-> global.gift]
    BY <1>1, <1>2, Fields, GlobalRow DEF MInv
  <2>2. /\ global' \in [max_ram : Nat, rate : Nat, last : 0 .. now', gift : Nat]
        /\ global'.gift = global.gift /\ global'.max_ram = global.max_ram
        /\ global'.rate = rate /\ global'.last = global.last
    BY <1>1, <2>1, Fields
  <2>3. now - global.last = 0
    BY <1>2, Fields
  <2>4. 0 * rate = 0 * global.rate
    BY <1>1, Fields
  <2>5. Waiting' = Waiting
    BY <1>1, <2>2, <2>3, <2>4 DEF Waiting
  <2>6. ~overdue' => RamOwed' /\ Waiting' < Uint32
    BY <1>1, <2>2, <2>5, Fields, SameWaiting
  <2> QED
    BY <1>1, <1>2, <2>2, <2>6 DEF MInv, RamForSale
<1>3. CASE /\ now > global.last /\ market.there
           /\ market' = OnSale(NewRam)
           /\ global' = [Supplied(NewRam) EXCEPT !.rate = rate]
  <2>1. NewRam \in Nat /\ (Waiting < Uint32 => NewRam = Waiting)
    BY Waits, Fields, Fits DEF NewRam, Waiting
  <2> DEFINE new == global.max_ram + NewRam
  <2>2. new \in Nat
    BY <2>1, Fields
  <2>3. global' = [max_ram |-> new, rate |-> rate, last |-> now, gift |-> global.gift]
    <3>1. Supplied(NewRam) = [global EXCEPT !.max_ram = new, !.last = now]
      BY DEF Supplied
    <3>2. now \in 0 .. now
      BY Fields
    <3> HIDE DEF new
    <3> QED
      BY <1>1, <1>3, <2>2, <3>1, <3>2, GlobalRow DEF MInv
  <2>4. market.base = global.max_ram
    BY <1>3 DEF MInv, RamForSale
  <2>5. market' = [market EXCEPT !.base = new]
    BY <1>3, <2>4 DEF OnSale
  <2>6. market' \in [there : {TRUE}, base : Nat] /\ market'.base = new
    <3>1. market \in [there : {TRUE}, base : Nat]
      BY <1>3, LimitFacts DEF MInv
    <3> HIDE DEF new
    <3> QED
      BY <2>2, <2>5, <3>1, MarketRow
  <2>7. ~overdue => owed = new
    BY <2>1 DEF MInv, RamOwed, Waiting
  <2> HIDE DEF new
  <2>8. /\ global' \in [max_ram : Nat, rate : Nat, last : 0 .. now', gift : Nat]
        /\ global'.gift = global.gift /\ global'.max_ram = new
        /\ global'.rate = rate /\ global'.last = now
    BY <1>1, <2>2, <2>3, Fields
  <2>9. Waiting' = 0
    <3>1. now' - global'.last = 0
      BY <1>1, <2>8, Fields
    <3> QED
      BY <1>1, <2>8, <3>1 DEF Waiting
  <2>10. ~overdue' => RamOwed' /\ Waiting' < Uint32
    <3> SUFFICES ASSUME ~overdue' PROVE RamOwed' /\ Waiting' < Uint32
      OBVIOUS
    <3>1. owed' = global'.max_ram + Waiting'
      BY <1>1, <2>2, <2>7, <2>8, <2>9
    <3> QED
      BY <2>9, <3>1, Fields DEF RamOwed, Waiting
  <2> QED
    BY <1>1, <2>6, <2>8, <2>10, Fields DEF MInv, RamForSale
<1> QED
  BY <1>2, <1>3 DEF SetRamRate

-----------------------------------------------------------------------------
(* The invariant.                                                           *)

LEMMA AInvUnchanged ==
  ASSUME AInv, UNCHANGED accounts
  PROVE  AInv'
  BY DEF AInv, Unique

LEMMA InitIInv == Init => IInv
<1> SUFFICES ASSUME Init PROVE IInv
  OBVIOUS
<1>1. AInv
  BY NoAccountType DEF Init, AccountInit, AInv, Sheet, Unique
<1>2. RInv
  BY ReserveInitInv DEF Init
<1>3. CInv
  <2>1. /\ SystemAccount \in chain /\ chain \subseteq Account
        /\ userres \subseteq chain \ SystemAccounts
    BY SystemAssumption, AccountAssumption DEF Init
  <2>2. /\ resmod \in [Account -> [there : {TRUE}, limits : {NoResources}] \cup {NoRow}]
        /\ limits \in [Account -> Limit]
        /\ founder \in [Account -> Account]
    BY LimitFacts, AccountAssumption DEF Init
  <2>3. LimitsRestored
    BY DEF Init, LimitsRestored
  <2> QED
    BY <2>1, <2>2, <2>3 DEF CInv
<1>4. MInv
  <2>1. DefaultRam \in Nat /\ StartTime \in Nat /\ DefaultGift \in Nat /\ Uint32 \in Nat /\ Uint32 > 0
    BY SystemAssumption
  <2>2. /\ market = NoRow /\ now = StartTime /\ owed = DefaultRam /\ overdue = FALSE
        /\ global = [max_ram |-> DefaultRam, rate |-> 0, last |-> 0, gift |-> DefaultGift]
    BY DEF Init
  <2>3. /\ global \in [max_ram : Nat, rate : Nat, last : 0 .. now, gift : Nat]
        /\ global.gift = DefaultGift /\ global.max_ram = owed
        /\ global.rate = 0 /\ global.last = 0
    BY <2>1, <2>2
  <2>4. RamForSale
    BY <2>2, LimitFacts DEF RamForSale
  <2>5. Waiting = 0
    BY <2>1, <2>2, <2>3 DEF Waiting
  <2>6. RamOwed
    BY <2>1, <2>2, <2>3, <2>5 DEF RamOwed, Waiting
  <2> QED
    BY <2>1, <2>2, <2>3, <2>4, <2>5, <2>6 DEF MInv
<1> QED
  BY <1>1, <1>2, <1>3, <1>4 DEF IInv

LEMMA CreateStep ==
  ASSUME IInv, NEW creator, NEW n \in NewNames, NEW auth,
         \/ NewAccount(creator, n, auth)
         \/ \E nick \in Nick : GenAccount(creator, n, nick, auth)
  PROVE  IInv'
<1>1. n \in Account
  BY SystemAssumption
<1>2. CanCreate(creator, n) /\ Created(creator, n)
  BY DEF NewAccount, GenAccount
<1>3. AInv'
  BY <1>1, NewAccountA, GenAccountA DEF IInv
<1>4. CInv'
  BY <1>1, <1>2, CreatedC DEF IInv
<1>5. RInv' /\ MInv'
  BY <1>2, RInvUnchanged, MInvUnchanged DEF Created, IInv
<1> QED
  BY <1>3, <1>4, <1>5 DEF IInv

LEMMA SystemStep ==
  ASSUME IInv, NEW auth, SystemCall(auth)
  PROVE  IInv'
<1> USE DEF IInv
<1>1. ASSUME NEW creator \in auth, NEW n \in NewNames,
             \/ NewAccount(creator, n, auth)
             \/ \E nick \in Nick : GenAccount(creator, n, nick, auth)
      PROVE  IInv'
  BY <1>1, CreateStep
<1>2. ASSUME NEW n \in Limited, NEW l \in Limits, SetALimits(n, l, auth)
      PROVE  IInv'
  <2>1. n \in Account /\ l \in Limit
    BY SystemAssumption
  <2>2. CInv'
    BY <1>2, <2>1, SetALimitsC
  <2>3. UNCHANGED <<accounts, reserveVars, ramVars, now>>
    BY <1>2 DEF SetALimits
  <2> QED
    BY <2>2, <2>3, AInvUnchanged, RInvUnchanged, MInvUnchanged
<1>3. ASSUME NEW bytes \in Gifts, SetRamGift(bytes, auth)
      PROVE  IInv'
  <2>1. MInv'
    BY <1>3, SetRamGiftM
  <2>2. UNCHANGED <<accounts, reserveVars, accountVars>>
    BY <1>3 DEF SetRamGift
  <2> QED
    BY <2>1, <2>2, AInvUnchanged, RInvUnchanged, CInvUnchanged
<1>4. ASSUME Initialize(auth)
      PROVE  IInv'
  <2>1. MInv' /\ CInv'
    BY <1>4, InitializeM, InitializeC
  <2>2. UNCHANGED <<accounts, reserveVars>>
    BY <1>4 DEF Initialize
  <2> QED
    BY <2>1, <2>2, AInvUnchanged, RInvUnchanged
<1>5. ASSUME NEW size \in RamSizes, SetRam(size, auth)
      PROVE  IInv'
  <2>1. MInv'
    BY <1>5, SetRamM
  <2>2. UNCHANGED <<accounts, reserveVars, accountVars>>
    BY <1>5 DEF SetRam
  <2> QED
    BY <2>1, <2>2, AInvUnchanged, RInvUnchanged, CInvUnchanged
<1>6. ASSUME NEW rate \in Rates, SetRamRate(rate, auth)
      PROVE  IInv'
  <2>1. MInv'
    BY <1>6, SetRamRateM
  <2>2. UNCHANGED <<accounts, reserveVars, accountVars>>
    BY <1>6 DEF SetRamRate
  <2> QED
    BY <2>1, <2>2, AInvUnchanged, RInvUnchanged, CInvUnchanged
<1> QED
  BY <1>1, <1>2, <1>3, <1>4, <1>5, <1>6 DEF SystemCall

LEMMA NextIInv == IInv /\ [Next]_vars => IInv'
<1> SUFFICES ASSUME IInv, [Next]_vars PROVE IInv'
  OBVIOUS
<1> USE DEF IInv
<1>1. ASSUME NEW auth \in AuthSets, AccountCall(auth),
             UNCHANGED <<reserveVars, accountVars, ramVars, now>>
      PROVE  IInv'
  BY <1>1, AccountCallInv, RInvUnchanged, CInvUnchanged, MInvUnchanged
<1>2. ASSUME NEW auth \in AuthSets, ReserveCall(auth),
             UNCHANGED <<accounts, accountVars, ramVars, now>>
      PROVE  IInv'
  BY <1>2, ReserveCallInv, AInvUnchanged, CInvUnchanged, MInvUnchanged
<1>3. ASSUME NEW auth \in AuthSets, SystemCall(auth)
      PROVE  IInv'
  BY <1>3, SystemStep
<1>4. CASE Tick
  <2>1. UNCHANGED <<accounts, reserveVars, accountVars>>
    BY <1>4 DEF Tick
  <2> QED
    BY <1>4, <2>1, TickM, AInvUnchanged, RInvUnchanged, CInvUnchanged
<1>5. CASE UNCHANGED vars
  <2>1. UNCHANGED <<accounts, reserveVars, accountVars, ramVars, now>>
    BY <1>5 DEF vars
  <2> QED
    BY <2>1, AInvUnchanged, RInvUnchanged, CInvUnchanged, MInvUnchanged
<1> QED
  BY <1>1, <1>2, <1>3, <1>4, <1>5 DEF Next

LEMMA Invariance == Spec => []IInv
<1>1. Init => IInv
  BY InitIInv
<1>2. IInv /\ [Next]_vars => IInv'
  BY NextIInv
<1> QED
  BY <1>1, <1>2, PTL DEF Spec

-----------------------------------------------------------------------------
(* The theorems.                                                            *)

\* Every table keeps its form: what is left of a balance, of a reserve or of
\* the RAM is never below zero, and only accounts of the chain have resources.
THEOREM TypeCorrect == Spec => []TypeOK
<1>1. IInv => TypeOK
  <2> SUFFICES ASSUME IInv PROVE TypeOK
    OBVIOUS
  <2>1. AccountTypeOK /\ ReserveTypeOK
    BY DEF IInv, AInv, RInv, Sheet, AccountTypeOK
  <2> QED
    BY <2>1 DEF IInv, CInv, MInv, TypeOK
<1> QED
  BY <1>1, Invariance, PTL

\* A nickname names one account, whichever contract set it and in whatever
\* order nicknames and flags are set.
THEOREM NicknamesUnique == Spec => []NicksUnique
<1>1. IInv => NicksUnique
  BY DEF IInv, AInv, Unique, NicksUnique
<1> QED
  BY <1>1, Invariance, PTL

\* The system tokens of the reserve cover the prepayments and what underlies
\* the derivatives, but for the debts of negative assets: for any tokens, names
\* and amounts of any sign.
THEOREM ReserveIsCovered == Spec => []ReserveCovers
<1>1. IInv => ReserveCovers
  BY DEF IInv, RInv
<1> QED
  BY <1>1, Invariance, PTL

\* The units that are left can be claimed at the rate of the mint, however
\* many claims were rounded before, and whatever was minted or burned besides.
THEOREM ClaimsAreCovered == Spec => []ClaimsCovered
<1>1. IInv => ClaimsCovered
  BY DEF IInv, RInv
<1> QED
  BY <1>1, Invariance, PTL

\* The supply of a derivative is what its holders have, and within what it was
\* minted for.
THEOREM UnitsAreHeld == Spec => []UnitsHeld
<1>1. IInv => UnitsHeld
  BY DEF IInv, RInv
<1> QED
  BY <1>1, Invariance, PTL

\* An account without a saved row has the limits it was created with.
THEOREM LimitsAreRestored == Spec => []LimitsRestored
<1>1. IInv => LimitsRestored
  BY DEF IInv, CInv
<1> QED
  BY <1>1, Invariance, PTL

\* What is for sale is all the RAM there is.
THEOREM AllRamForSale == Spec => []RamForSale
<1>1. IInv => RamForSale
  BY DEF IInv, MInv
<1> QED
  BY <1>1, Invariance, PTL

\* The RAM of every block is supplied once, at the rate of that block, unless
\* 2^32 bytes ever waited: for any rates, and any times between the calls.
THEOREM RamAccounted == Spec => []RamOwedInTime
<1>1. IInv => RamOwedInTime
  BY DEF IInv, MInv, RamOwedInTime
<1> QED
  BY <1>1, Invariance, PTL

-----------------------------------------------------------------------------
(* What a step may not do.                                                  *)

KeptOf(n) ==
    accounts[n].there =>
        LET renamed == accounts'[n].nickname # accounts[n].nickname
            flagged == accounts'[n].low # accounts[n].low
        IN  /\ accounts'[n].there
            /\ renamed => accounts'[n].nickname # NoNick
            /\ renamed /\ flagged => n \in chain' \ chain

LEMMA SameRow ==
  ASSUME NEW n, accounts'[n] = accounts[n]
  PROVE  KeptOf(n)
  BY DEF KeptOf

LEMMA ValidNickFacts ==
  ASSUME NEW table, NEW n, NEW nick, NEW auth, CanSetNick(table, n, nick, auth)
  PROVE  nick \in Nick /\ nick # NoNick
  BY AccountAssumption DEF CanSetNick

LEMMA SetNickKept ==
  ASSUME AInv, NEW n \in Account, NEW nick, NEW auth, SetNick(n, nick, auth), NEW m \in Account
  PROVE  KeptOf(m)
<1>1. nick \in Nick /\ nick # NoNick /\ accounts' = NickSet(accounts, n, nick)
  BY ValidNickFacts DEF SetNick
<1>2. /\ \A k \in Account \ {n} : accounts'[k] = accounts[k]
      /\ accounts'[n].there /\ accounts'[n].nickname = nick
      /\ accounts[n].there => accounts'[n].low = accounts[n].low
  BY <1>1, NickSetType DEF AInv
<1>3. CASE m = n
  BY <1>1, <1>2, <1>3 DEF KeptOf
<1>4. CASE m # n
  BY <1>2, <1>4, SameRow
<1> QED
  BY <1>3, <1>4

LEMMA SetPartnerKept ==
  ASSUME AInv, NEW n \in Account, NEW flag \in BOOLEAN, NEW m \in Account,
         accounts' = PartnerSet(accounts, n, flag)
  PROVE  KeptOf(m)
<1>1. /\ \A k \in Account \ {n} : accounts'[k] = accounts[k]
      /\ accounts'[n].there
      /\ accounts[n].there => accounts'[n].nickname = accounts[n].nickname
  BY PartnerSetType DEF AInv
<1>2. CASE m = n
  BY <1>1, <1>2 DEF KeptOf
<1>3. CASE m # n
  BY <1>1, <1>3, SameRow
<1> QED
  BY <1>2, <1>3

LEMMA NewAccountKept ==
  ASSUME AInv, NEW creator, NEW n \in Account, NEW auth, NewAccount(creator, n, auth),
         NEW m \in Account
  PROVE  KeptOf(m)
<1>1. accounts' = accounts \/ accounts' = PartnerSet(accounts, n, TRUE)
  BY DEF NewAccount, AccountsAfter
<1> QED
  BY <1>1, SetPartnerKept, SameRow

LEMMA GenAccountKept ==
  ASSUME AInv, NEW creator, NEW n \in Account, NEW nick, NEW auth,
         GenAccount(creator, n, nick, auth), NEW m \in Account
  PROVE  KeptOf(m)
<1> DEFINE table == AccountsAfter(creator, n)
<1>1. table \in Sheet
  BY AccountsAfterInv
<1>2. \A k \in Account \ {n} : table[k] = accounts[k]
  BY PartnerSetType DEF AccountsAfter, AInv
<1>3. /\ CanSetNick(table, n, nick, {SystemAccount}) /\ accounts' = NickSet(table, n, nick)
      /\ n \in chain' \ chain
  BY DEF GenAccount, CanCreate, Created
<1> HIDE DEF table
<1>4. nick \in Nick /\ nick # NoNick
  BY <1>3, ValidNickFacts
<1>5. /\ \A k \in Account \ {n} : accounts'[k] = accounts[k]
      /\ accounts'[n].there /\ accounts'[n].nickname = nick
  BY <1>1, <1>2, <1>3, <1>4, NickSetType
<1>6. CASE m = n
  BY <1>3, <1>4, <1>5, <1>6 DEF KeptOf
<1>7. CASE m # n
  BY <1>5, <1>7, SameRow
<1> QED
  BY <1>6, <1>7

LEMMA NextKept ==
  ASSUME IInv, [Next]_vars, NEW m \in Account
  PROVE  KeptOf(m)
<1>1. AInv
  BY DEF IInv
<1>2. ASSUME NEW auth, AccountCall(auth)
      PROVE  KeptOf(m)
  <2>1. Named \subseteq Account /\ Flags \subseteq BOOLEAN
    BY AccountAssumption
  <2>2. ASSUME NEW n \in Named, NEW nick \in Nick, SetNick(n, nick, auth)
        PROVE  KeptOf(m)
    BY <1>1, <2>1, <2>2, SetNickKept
  <2>3. ASSUME NEW n \in Named, NEW flag \in Flags, SetPartner(n, flag)
        PROVE  KeptOf(m)
    BY <1>1, <2>1, <2>3, SetPartnerKept DEF SetPartner
  <2> QED
    BY <1>2, <2>2, <2>3 DEF AccountCall
<1>3. ASSUME NEW creator, NEW n \in NewNames, NEW auth,
             \/ NewAccount(creator, n, auth)
             \/ \E nick \in Nick : GenAccount(creator, n, nick, auth)
      PROVE  KeptOf(m)
  <2>1. n \in Account
    BY SystemAssumption
  <2> QED
    BY <1>1, <1>3, <2>1, NewAccountKept, GenAccountKept
<1>4. CASE UNCHANGED accounts
  BY <1>4, SameRow
<1>5. ASSUME NEW auth, SystemCall(auth)
      PROVE  KeptOf(m)
  BY <1>3, <1>4, <1>5 DEF SystemCall, SetALimits, SetRamGift, Initialize, SetRam, SetRamRate
<1>6. CASE Tick \/ UNCHANGED vars
  BY <1>4, <1>6 DEF Tick, vars
<1> QED
  BY <1>2, <1>4, <1>5, <1>6 DEF Next

\* No step loses a nickname or passes it with the row: whatever nicknames and
\* flags are set, in any order and by any contract.
THEOREM IdentitiesKept == Spec => IdentityKept
<1>1. IInv /\ [Next]_vars =>
        [\A n \in Account : accounts[n].there =>
           LET renamed == accounts'[n].nickname # accounts[n].nickname
               flagged == accounts'[n].low # accounts[n].low
           IN  /\ accounts'[n].there
               /\ renamed => accounts'[n].nickname # NoNick
               /\ renamed /\ flagged => n \in chain' \ chain]_vars
  BY NextKept DEF KeptOf
<1> QED
  BY <1>1, Invariance, PTL DEF Spec, IdentityKept

ShortPrepaid(n) ==
    n \in Short \cap (userres' \ userres) =>
        prepaid[n].there /\ prepaid[n].creator = founder'[n] /\ IsPartner(n)'

WaitsFor(n) == n \notin chain /\ prepaid[n].there => prepaid'[n] = prepaid[n]

LEMMA CreatedPrepaid ==
  ASSUME AInv, CInv, NEW creator, NEW n \in Account, CanCreate(creator, n), Created(creator, n),
         NEW m \in Short \cap (userres' \ userres)
  PROVE  /\ m = n /\ prepaid[n].there /\ prepaid[n].creator = founder'[n]
         /\ AccountsAfter(creator, n) \in Sheet
         /\ AccountsAfter(creator, n)[n].there /\ AccountsAfter(creator, n)[n].low = 1
<1>1. m = n /\ creator # SystemAccount
  BY DEF Created
<1>2. Partnered(creator, n)
  BY <1>1 DEF Partnered
<1>3. prepaid[n].there /\ prepaid[n].creator = creator
  BY <1>2 DEF CanCreate, PrepaidBy
<1>4. AccountsAfter(creator, n) = PartnerSet(accounts, n, TRUE)
  BY <1>2 DEF AccountsAfter
<1>5. Flag(TRUE) = 1
  BY DEF Flag
<1>6. founder'[n] = creator
  <2>1. founder' = [founder EXCEPT ![n] = creator] /\ founder \in [Account -> Account]
    BY DEF Created, CInv
  <2> QED
    BY <2>1
<1>7. /\ AccountsAfter(creator, n) \in Sheet
      /\ AccountsAfter(creator, n)[n].there /\ AccountsAfter(creator, n)[n].low = 1
  <2> DEFINE table == PartnerSet(accounts, n, TRUE)
  <2>1. table \in Sheet /\ table[n].there /\ table[n].low = Flag(TRUE)
    BY PartnerSetType DEF AInv
  <2> HIDE DEF table
  <2> QED
    BY <1>4, <1>5, <2>1 DEF table
<1> QED
  BY <1>1, <1>3, <1>6, <1>7

LEMMA CreateShort ==
  ASSUME AInv, CInv, NEW creator, NEW n \in Account, NEW auth,
         \/ NewAccount(creator, n, auth)
         \/ \E nick \in Nick : GenAccount(creator, n, nick, auth),
         NEW m
  PROVE  ShortPrepaid(m) /\ WaitsFor(m)
<1> DEFINE table == AccountsAfter(creator, n)
<1>1. CanCreate(creator, n) /\ Created(creator, n)
  BY DEF NewAccount, GenAccount
<1>2. WaitsFor(m)
  BY <1>1 DEF Created, reserveVars, WaitsFor
<1>3. ASSUME m \in Short \cap (userres' \ userres)
      PROVE  ShortPrepaid(m)
  <2>1. /\ m = n /\ prepaid[n].there /\ prepaid[n].creator = founder'[n]
        /\ table \in Sheet /\ table[n].there /\ table[n].low = 1
    BY <1>1, <1>3, CreatedPrepaid
  <2>2. CASE accounts' = table
    <3> HIDE DEF table
    <3> QED
      BY <2>1, <2>2 DEF ShortPrepaid, IsPartner
  <2>3. ASSUME NEW nick \in Nick, accounts' = NickSet(table, n, nick)
        PROVE  ShortPrepaid(m)
    <3> HIDE DEF table
    <3>1. accounts'[n].there /\ accounts'[n].low = 1
      BY <2>1, <2>3, NickSetType
    <3> QED
      BY <2>1, <3>1 DEF ShortPrepaid, IsPartner
  <2> QED
    BY <2>2, <2>3 DEF NewAccount, GenAccount
<1> QED
  BY <1>2, <1>3 DEF ShortPrepaid

\* Who is not there signs nothing: nothing of a prepayment for it is used.
LEMMA ReserveCallWaits ==
  ASSUME RInv, NEW auth, auth \subseteq chain, ReserveCall(auth), NEW m \in Account
  PROVE  WaitsFor(m)
<1>1. prepaid \in [Account -> PrepaidRow \cup {NoPrepaid}]
  BY DEF RInv, ReserveTypeOK
<1>2. CASE UNCHANGED prepaid
  BY <1>2 DEF WaitsFor
<1>3. ASSUME NEW creator, NEW n \in PrepaidNames, NEW v, Prepay(creator, n, v, auth)
      PROVE  WaitsFor(m)
  <2>1. /\ ~prepaid[n].there
        /\ prepaid' = [prepaid EXCEPT ![n] = [there |-> TRUE, creator |-> creator, value |-> v]]
    BY <1>3 DEF Prepay
  <2> QED
    BY <1>1, <2>1 DEF WaitsFor
<1>4. ASSUME NEW t \in Token, NEW d, NEW u, ReserveMint(t, d, u, auth)
      PROVE  WaitsFor(m)
  <2>1. Issuer[t] \in chain /\ prepaid' = PrepaidUsed(Issuer[t], u)
    BY <1>4 DEF ReserveMint
  <2> QED
    BY <1>1, <2>1 DEF WaitsFor, PrepaidUsed
<1> QED
  BY <1>2, <1>3, <1>4
     DEF ReserveCall, SetMinAmount, Send, MintToken, Issue, Burn, Claim

LEMMA NextShort ==
  ASSUME IInv, [Next]_vars, NEW m \in Account
  PROVE  ShortPrepaid(m) /\ WaitsFor(m)
<1>1. AInv /\ CInv /\ RInv
  BY DEF IInv
<1>2. ASSUME NEW creator, NEW n \in NewNames, NEW auth,
             \/ NewAccount(creator, n, auth)
             \/ \E nick \in Nick : GenAccount(creator, n, nick, auth)
      PROVE  ShortPrepaid(m) /\ WaitsFor(m)
  <2>1. n \in Account
    BY SystemAssumption
  <2> QED
    BY <1>1, <1>2, <2>1, CreateShort
<1>3. UNCHANGED userres => ShortPrepaid(m)
  BY DEF ShortPrepaid
<1>4. UNCHANGED prepaid => WaitsFor(m)
  BY DEF WaitsFor
<1>5. ASSUME NEW auth, SystemCall(auth)
      PROVE  ShortPrepaid(m) /\ WaitsFor(m)
  BY <1>2, <1>3, <1>4, <1>5
     DEF SystemCall, SetALimits, SetRamGift, Initialize, SetRam, SetRamRate, accountVars, reserveVars
<1>6. ASSUME NEW auth, auth \subseteq chain, ReserveCall(auth), UNCHANGED accountVars
      PROVE  ShortPrepaid(m) /\ WaitsFor(m)
  <2>1. UNCHANGED userres
    BY <1>6 DEF accountVars
  <2> QED
    BY <1>1, <1>3, <1>6, <2>1, ReserveCallWaits
<1>7. CASE UNCHANGED <<reserveVars, accountVars>>
  BY <1>3, <1>4, <1>7 DEF reserveVars, accountVars
<1>8. CASE Tick \/ UNCHANGED vars
  BY <1>7, <1>8 DEF Tick, vars
<1> QED
  BY <1>5, <1>6, <1>7, <1>8 DEF Next

\* An account of a short name is created by who prepaid for it, is a partner
\* when the transaction ends, and nothing uses or replaces the prepayment before.
THEOREM ShortNamesArePrepaid == Spec => ShortNamesPrepaid
<1>1. IInv /\ [Next]_vars =>
        [\A n \in Account :
           /\ n \in Short \cap (userres' \ userres) =>
                /\ prepaid[n].there /\ prepaid[n].creator = founder'[n]
                /\ IsPartner(n)'
           /\ n \notin chain /\ prepaid[n].there => prepaid'[n] = prepaid[n]]_vars
  BY NextShort DEF ShortPrepaid, WaitsFor
<1> QED
  BY <1>1, Invariance, PTL DEF Spec, ShortNamesPrepaid
=============================================================================
