---------------------------- MODULE ReserveProofs ----------------------------
(***************************************************************************)
(* What the calls of the reserve and of the account contract keep,         *)
(* whatever the contract they are composed with.  The parts rest on each   *)
(* other: that a supply and a maximum stay natural numbers when units are  *)
(* burned or claimed follows from these units being part of the supply.    *)
(***************************************************************************)
EXTENDS Reserve, TotalsProofs

\* A token that does not exist has neither units nor a reserve.
Unminted ==
    \A t \in Token : /\ ~stat[t].there => stat[t] = NoStat
                     /\ reserves[t].there => stat[t].there

RInv == ReserveTypeOK /\ Unminted /\ ReserveCovers /\ ClaimsCovered /\ UnitsHeld

Prepayments(rows) == [n \in Account |-> rows[n].value]
Assets(rows) == [t \in Token |-> Positive(rows[t].underlying)]
Debts(rows) == [t \in Token |-> Positive(-rows[t].underlying)]

-----------------------------------------------------------------------------
(* Helpers.                                                                 *)

\* A payment between two accounts takes from the one what it gives the other.
LEMMA MovedType ==
  ASSUME NEW bank \in [Account -> Nat], NEW from \in Account, NEW to \in Account,
         NEW v \in Nat, v <= bank[from], from # to
  PROVE  /\ Moved(bank, from, to, v) \in [Account -> Nat]
         /\ Moved(bank, from, to, v)[from] = bank[from] - v
         /\ Moved(bank, from, to, v)[to] = bank[to] + v
  BY DEF Moved

\* An amount is what it is above zero, less what it is below.
LEMMA PositiveType ==
  ASSUME NEW n \in Int
  PROVE  /\ Positive(n) \in Nat /\ Positive(-n) \in Nat
         /\ Positive(n) - Positive(-n) = n
<1>1. CASE n > 0
  BY <1>1 DEF Positive
<1>2. CASE n = 0
  BY <1>2 DEF Positive
<1>3. CASE n < 0
  BY <1>3 DEF Positive
<1> QED
  BY <1>1, <1>2, <1>3

\* The whole part of a fraction is not above it.
LEMMA DivBelow ==
  ASSUME NEW a \in Int, NEW b \in Nat \ {0}
  PROVE  (a \div b) \in Int /\ (a \div b) * b <= a
  BY SMT

LEMMA NoRows ==
  /\ NoPrepaid.there = FALSE /\ NoPrepaid.value = 0
  /\ NoReserve.there = FALSE /\ NoReserve.underlying = 0
  /\ NoStat \in StatRow /\ NoStat.there = FALSE
  /\ NoStat.supply = 0 /\ NoStat.max = 0
  BY DEF NoPrepaid, NoReserve, NoStat, StatRow

LEMMA PrepaymentsType ==
  ASSUME NEW rows \in [Account -> PrepaidRow \cup {NoPrepaid}]
  PROVE  Prepayments(rows) \in [Account -> Nat]
<1>1. \A n \in Account : rows[n].value \in Nat
  <2> TAKE n \in Account
  <2>1. CASE rows[n] \in PrepaidRow
    BY <2>1 DEF PrepaidRow
  <2>2. CASE rows[n] = NoPrepaid
    BY <2>2, NoRows
  <2> QED
    BY <2>1, <2>2
<1> QED
  BY <1>1 DEF Prepayments

LEMMA UnderlyingsType ==
  ASSUME NEW rows \in [Token -> ReserveRow \cup {NoReserve}]
  PROVE  /\ \A t \in Token : rows[t].underlying \in Int
         /\ Assets(rows) \in [Token -> Nat] /\ Debts(rows) \in [Token -> Nat]
<1>1. \A t \in Token : rows[t].underlying \in Int
  <2> TAKE t \in Token
  <2>1. CASE rows[t] \in ReserveRow
    BY <2>1 DEF ReserveRow
  <2>2. CASE rows[t] = NoReserve
    BY <2>2, NoRows
  <2> QED
    BY <2>1, <2>2
<1>2. \A t \in Token : Positive(rows[t].underlying) \in Nat /\ Positive(-rows[t].underlying) \in Nat
  BY <1>1, PositiveType
<1> QED
  BY <1>1, <1>2 DEF Assets, Debts

\* The change of one prepayment.
LEMMA PrepaymentsUpdate ==
  ASSUME NEW old \in [Account -> PrepaidRow \cup {NoPrepaid}],
         NEW new \in [Account -> PrepaidRow \cup {NoPrepaid}],
         NEW n \in Account, \A m \in Account \ {n} : new[m] = old[m]
  PROVE  Total(Prepayments(new)) = Total(Prepayments(old)) - old[n].value + new[n].value
<1>1. Prepayments(old) \in [Account -> Nat] /\ Prepayments(new) \in [Account -> Nat]
  BY PrepaymentsType
<1>2. \A m \in Account \ {n} : Prepayments(new)[m] = Prepayments(old)[m]
  BY DEF Prepayments
<1>3. Prepayments(old)[n] = old[n].value /\ Prepayments(new)[n] = new[n].value
  BY DEF Prepayments
<1> QED
  BY <1>1, <1>2, <1>3, TotalUpdate, ReserveAssumption

\* The change of one reserve: assets less debts change by what the one does.
LEMMA UnderlyingsUpdate ==
  ASSUME NEW old \in [Token -> ReserveRow \cup {NoReserve}],
         NEW new \in [Token -> ReserveRow \cup {NoReserve}],
         NEW t \in Token, \A s \in Token \ {t} : new[s] = old[s]
  PROVE  Total(Assets(new)) - Total(Debts(new)) =
           Total(Assets(old)) - Total(Debts(old)) - old[t].underlying + new[t].underlying
<1>1. /\ Assets(old) \in [Token -> Nat] /\ Assets(new) \in [Token -> Nat]
      /\ Debts(old) \in [Token -> Nat] /\ Debts(new) \in [Token -> Nat]
      /\ old[t].underlying \in Int /\ new[t].underlying \in Int
  BY UnderlyingsType
<1>2. \A s \in Token \ {t} : Assets(new)[s] = Assets(old)[s] /\ Debts(new)[s] = Debts(old)[s]
  BY DEF Assets, Debts
<1>3. Total(Assets(new)) = Total(Assets(old)) - Assets(old)[t] + Assets(new)[t]
  BY <1>1, <1>2, TotalUpdate, ReserveAssumption
<1>4. Total(Debts(new)) = Total(Debts(old)) - Debts(old)[t] + Debts(new)[t]
  BY <1>1, <1>2, TotalUpdate, ReserveAssumption
<1>5. Assets(old)[t] - Debts(old)[t] = old[t].underlying
  BY <1>1, PositiveType DEF Assets, Debts
<1>6. Assets(new)[t] - Debts(new)[t] = new[t].underlying
  BY <1>1, PositiveType DEF Assets, Debts
<1>7. /\ Total(Assets(old)) \in Nat /\ Total(Debts(old)) \in Nat
      /\ Assets(old)[t] \in Nat /\ Debts(old)[t] \in Nat
      /\ Assets(new)[t] \in Nat /\ Debts(new)[t] \in Nat
  BY <1>1, CoinsFinite, ReserveAssumption
<1> QED
  BY <1>1, <1>3, <1>4, <1>5, <1>6, <1>7

LEMMA CoversTotals ==
  /\ ReserveCovers <=>
       core[ReserveAccount] + Total(Debts(reserves))
         >= Total(Prepayments(prepaid)) + Total(Assets(reserves))
  /\ ReserveCovers' <=>
       core'[ReserveAccount] + Total(Debts(reserves'))
         >= Total(Prepayments(prepaid')) + Total(Assets(reserves'))
  BY DEF ReserveCovers, Prepayments, Assets, Debts

LEMMA TotalsType ==
  /\ ReserveTypeOK => /\ Total(Prepayments(prepaid)) \in Nat
                      /\ Total(Assets(reserves)) \in Nat /\ Total(Debts(reserves)) \in Nat
  /\ ReserveTypeOK' => /\ Total(Prepayments(prepaid')) \in Nat
                       /\ Total(Assets(reserves')) \in Nat /\ Total(Debts(reserves')) \in Nat
  BY PrepaymentsType, UnderlyingsType, CoinsFinite, ReserveAssumption DEF ReserveTypeOK

-----------------------------------------------------------------------------
(* The steps.                                                               *)

LEMMA ReserveInitInv == ReserveInit => RInv
<1> SUFFICES ASSUME ReserveInit PROVE RInv
  OBVIOUS
<1>1. ReserveTypeOK
  BY NoRows, ReserveAssumption DEF ReserveInit, ReserveTypeOK
<1>2. Unminted /\ ClaimsCovered
  BY NoRows DEF ReserveInit, Unminted, ClaimsCovered
<1>3. ReserveCovers
  <2>1. Prepayments(prepaid) \in [Account -> Nat] /\ \A n \in Account : Prepayments(prepaid)[n] = 0
    BY NoRows DEF ReserveInit, Prepayments
  <2>2. Positive(0) = 0 /\ Positive(-0) = 0
    BY DEF Positive
  <2>3. /\ Assets(reserves) \in [Token -> Nat] /\ \A t \in Token : Assets(reserves)[t] = 0
        /\ Debts(reserves) \in [Token -> Nat] /\ \A t \in Token : Debts(reserves)[t] = 0
    BY <2>2, NoRows DEF ReserveInit, Assets, Debts
  <2>4. /\ Total(Prepayments(prepaid)) = 0
        /\ Total(Assets(reserves)) = 0 /\ Total(Debts(reserves)) = 0
    BY <2>1, <2>3, TotalZero
  <2> QED
    BY <2>4, CoversTotals, ReserveAssumption DEF ReserveInit
<1>4. UnitsHeld
  <2> SUFFICES ASSUME NEW t \in Token
               PROVE  Total(held[t]) = stat[t].supply /\ stat[t].supply <= stat[t].max
    BY DEF UnitsHeld
  <2>1. held[t] \in [Account -> Nat] /\ \A a \in Account : held[t][a] = 0
    BY DEF ReserveInit
  <2>2. Total(held[t]) = 0
    BY <2>1, TotalZero
  <2> QED
    BY <2>2, NoRows DEF ReserveInit
<1> QED
  BY <1>1, <1>2, <1>3, <1>4 DEF RInv

LEMMA RInvUnchanged == RInv /\ UNCHANGED reserveVars => RInv'
  BY DEF RInv, reserveVars, ReserveTypeOK, Unminted, ReserveCovers, ClaimsCovered, UnitsHeld

LEMMA SetMinAmountStep ==
  ASSUME RInv, NEW v \in Nat, NEW auth, SetMinAmount(v, auth)
  PROVE  RInv'
  BY DEF SetMinAmount, RInv, ReserveTypeOK, Unminted, ReserveCovers, ClaimsCovered, UnitsHeld

LEMMA SendStep ==
  ASSUME RInv, NEW from \in Holders, NEW to \in Payees, NEW v \in Int, NEW auth,
         Send(from, to, v, auth)
  PROVE  RInv'
<1> USE DEF RInv
<1>1. /\ from \in Account /\ to \in Account /\ from # ReserveAccount /\ from # to
      /\ v \in Nat /\ v <= core[from] /\ core \in [Account -> Nat]
      /\ core' = Moved(core, from, to, v)
      /\ ReserveAccount \in Account
      /\ UNCHANGED <<minAmount, prepaid, reserves, stat, held>>
  BY ReserveAssumption DEF Send, ReserveTypeOK
<1>2. /\ core' \in [Account -> Nat]
      /\ core'[to] = core[to] + v
  BY <1>1, MovedType
<1>3. core'[ReserveAccount] >= core[ReserveAccount]
  <2>1. CASE to = ReserveAccount
    BY <1>1, <1>2, <2>1
  <2>2. CASE to # ReserveAccount
    BY <1>1, <2>2 DEF Moved
  <2> QED
    BY <2>1, <2>2
<1>4. ReserveTypeOK' /\ Unminted' /\ ClaimsCovered' /\ UnitsHeld'
  BY <1>1, <1>2 DEF ReserveTypeOK, Unminted, ClaimsCovered, UnitsHeld
<1>5. ReserveCovers'
  <2>1. /\ Total(Prepayments(prepaid')) = Total(Prepayments(prepaid))
        /\ Total(Assets(reserves')) = Total(Assets(reserves))
        /\ Total(Debts(reserves')) = Total(Debts(reserves))
    BY <1>1
  <2> QED
    BY <2>1, <1>1, <1>2, <1>3, TotalsType, CoversTotals
<1> QED
  BY <1>4, <1>5

\* A mint makes a token without units, or raises its maximum.
LEMMA MintedType ==
  ASSUME stat \in [Token -> StatRow], Unminted, NEW t \in Token, NEW d \in Nat,
         NEW mintable \in BOOLEAN
  PROVE  /\ Minted(t, d, mintable) \in [Token -> StatRow]
         /\ \A x \in Token \ {t} : Minted(t, d, mintable)[x] = stat[x]
         /\ Minted(t, d, mintable)[t].there
         /\ Minted(t, d, mintable)[t].supply = stat[t].supply
         /\ Minted(t, d, mintable)[t].max >= stat[t].max
<1>1. CASE ~stat[t].there
  <2> DEFINE row == [there |-> TRUE, mintable |-> mintable, supply |-> 0, max |-> d]
  <2>1. row \in StatRow /\ row.there /\ row.supply = 0 /\ row.max = d
    BY DEF StatRow
  <2>2. Minted(t, d, mintable) = [stat EXCEPT ![t] = row]
    BY <1>1 DEF Minted
  <2> HIDE DEF row
  <2>3. stat[t].supply = 0 /\ stat[t].max = 0
    BY <1>1, NoRows DEF Unminted
  <2> QED
    BY <2>1, <2>2, <2>3
<1>2. CASE stat[t].there
  <2> DEFINE row == [stat[t] EXCEPT !.max = @ + d]
  <2>1. /\ row \in StatRow /\ row.there /\ row.supply = stat[t].supply
        /\ row.max = stat[t].max + d /\ stat[t].max \in Nat
    BY <1>2 DEF StatRow
  <2>2. Minted(t, d, mintable) = [stat EXCEPT ![t] = row]
    BY <1>2 DEF Minted
  <2> HIDE DEF row
  <2> QED
    BY <2>1, <2>2
<1> QED
  BY <1>1, <1>2

LEMMA MintTokenStep ==
  ASSUME RInv, NEW t \in Token, NEW d \in Nat, NEW mintable \in BOOLEAN, NEW auth,
         MintToken(t, d, mintable, auth)
  PROVE  RInv'
<1> USE DEF RInv
<1>1. /\ stat \in [Token -> StatRow]
      /\ stat' = Minted(t, d, mintable)
      /\ UNCHANGED <<minAmount, prepaid, reserves, core, held>>
  BY DEF MintToken, ReserveTypeOK
<1>2. /\ stat' \in [Token -> StatRow]
      /\ \A x \in Token \ {t} : stat'[x] = stat[x]
      /\ stat'[t].there /\ stat'[t].supply = stat[t].supply /\ stat'[t].max >= stat[t].max
  BY <1>1, MintedType
<1>3. ReserveTypeOK'
  BY <1>1, <1>2 DEF ReserveTypeOK
<1>4. Unminted' /\ ClaimsCovered'
  BY <1>1, <1>2 DEF Unminted, ClaimsCovered
<1>5. ReserveCovers'
  BY <1>1 DEF ReserveCovers
<1>6. UnitsHeld'
  <2> SUFFICES ASSUME NEW x \in Token
               PROVE  Total(held[x]) = stat'[x].supply /\ stat'[x].supply <= stat'[x].max
    BY <1>1 DEF UnitsHeld
  <2>1. /\ stat[x].supply \in Nat /\ stat[x].max \in Nat /\ stat'[x].max \in Nat
        /\ Total(held[x]) = stat[x].supply /\ stat[x].supply <= stat[x].max
    BY <1>1, <1>2 DEF UnitsHeld, StatRow
  <2>2. stat'[x].supply = stat[x].supply /\ stat'[x].max >= stat[x].max
    BY <1>2, <2>1
  <2> QED
    BY <2>1, <2>2
<1> QED
  BY <1>3, <1>4, <1>5, <1>6

LEMMA PrepayStep ==
  ASSUME RInv, NEW creator \in Holders, NEW n \in Account, NEW v \in Int, NEW auth,
         Prepay(creator, n, v, auth)
  PROVE  RInv'
<1> USE DEF RInv
<1> DEFINE row == [there |-> TRUE, creator |-> creator, value |-> v]
<1>1. /\ prepaid' = [prepaid EXCEPT ![n] = row]
      /\ core' = Moved(core, creator, ReserveAccount, v)
      /\ v \in Nat /\ v <= core[creator] /\ ~prepaid[n].there
      /\ UNCHANGED <<minAmount, reserves, stat, held>>
  BY DEF Prepay
<1>2. /\ creator \in Account /\ ReserveAccount \in Account /\ creator # ReserveAccount
      /\ core \in [Account -> Nat]
      /\ prepaid \in [Account -> PrepaidRow \cup {NoPrepaid}]
  BY ReserveAssumption DEF ReserveTypeOK
<1>3. /\ core' \in [Account -> Nat]
      /\ core'[ReserveAccount] = core[ReserveAccount] + v
  BY <1>1, <1>2, MovedType
<1>4. prepaid[n] = NoPrepaid
  BY <1>1, <1>2 DEF PrepaidRow
<1>5. row \in PrepaidRow
  BY <1>1, <1>2 DEF PrepaidRow
<1>6. /\ prepaid' \in [Account -> PrepaidRow \cup {NoPrepaid}]
      /\ prepaid'[n] = row /\ \A m \in Account \ {n} : prepaid'[m] = prepaid[m]
  BY <1>1, <1>2, <1>5
<1>7. ReserveTypeOK' /\ Unminted' /\ ClaimsCovered' /\ UnitsHeld'
  BY <1>1, <1>3, <1>6 DEF ReserveTypeOK, Unminted, ClaimsCovered, UnitsHeld
<1>8. Total(Prepayments(prepaid')) = Total(Prepayments(prepaid)) - 0 + v
  BY <1>2, <1>4, <1>6, NoRows, PrepaymentsUpdate
<1>9. ReserveCovers'
  <2>1. /\ Total(Assets(reserves')) = Total(Assets(reserves))
        /\ Total(Debts(reserves')) = Total(Debts(reserves))
    BY <1>1
  <2> QED
    BY <2>1, <1>1, <1>2, <1>3, <1>8, TotalsType, CoversTotals
<1> QED
  BY <1>7, <1>9

\* What is taken of a prepayment and what is transferred make up what is
\* reserved, or more than a negative amount.
LEMMA PrepaidUsedType ==
  ASSUME ReserveTypeOK, NEW n \in Account, NEW u \in Int
  PROVE  /\ PrepaidUsed(n, u) \in [Account -> PrepaidRow \cup {NoPrepaid}]
         /\ \A m \in Account \ {n} : PrepaidUsed(n, u)[m] = prepaid[m]
         /\ prepaid[n].value \in Nat /\ PrepaidUsed(n, u)[n].value \in Nat
         /\ Leftover(n, u) \in Nat
         /\ PrepaidUsed(n, u)[n].value + u <= prepaid[n].value + Leftover(n, u)
<1>1. prepaid \in [Account -> PrepaidRow \cup {NoPrepaid}]
  BY DEF ReserveTypeOK
<1>2. CASE prepaid[n] = NoPrepaid
  <2>1. PrepaidUsed(n, u) = prepaid /\ prepaid[n].value = 0
    BY <1>2, NoRows DEF PrepaidUsed
  <2>2. CASE u >= 0
    BY <1>1, <2>1, <2>2 DEF Leftover
  <2>3. CASE u < 0
    BY <1>1, <2>1, <2>3 DEF Leftover
  <2> QED
    BY <2>2, <2>3
<1>3. CASE prepaid[n] \in PrepaidRow /\ u >= prepaid[n].value
  <2>1. PrepaidUsed(n, u) = [prepaid EXCEPT ![n] = NoPrepaid]
    BY <1>3 DEF PrepaidUsed, PrepaidRow
  <2>2. prepaid[n].value \in Nat
    BY <1>3 DEF PrepaidRow
  <2> QED
    BY <1>1, <1>3, <2>1, <2>2, NoRows DEF Leftover
<1>4. CASE prepaid[n] \in PrepaidRow /\ ~(u >= prepaid[n].value)
  <2>1. PrepaidUsed(n, u) = [prepaid EXCEPT ![n].value = @ - u] /\ Leftover(n, u) = 0
    BY <1>4 DEF PrepaidUsed, Leftover, PrepaidRow
  <2>2. PICK c \in Account, v \in Nat : prepaid[n] = [there |-> TRUE, creator |-> c, value |-> v]
    BY <1>4 DEF PrepaidRow
  <2>3. prepaid[n].value = v /\ v - u \in Nat
    BY <1>4, <2>2
  <2>4. PrepaidUsed(n, u)[n] = [there |-> TRUE, creator |-> c, value |-> v - u]
    <3>1. PrepaidUsed(n, u)[n] = [prepaid[n] EXCEPT !.value = prepaid[n].value - u]
      BY <1>1, <2>1
    <3>2. PrepaidUsed(n, u)[n] = [[there |-> TRUE, creator |-> c, value |-> v] EXCEPT !.value = v - u]
      BY <2>2, <2>3, <3>1
    <3> QED
      BY <3>2
  <2>5. PrepaidUsed(n, u)[n] \in PrepaidRow /\ PrepaidUsed(n, u)[n].value = v - u
    BY <2>3, <2>4 DEF PrepaidRow
  <2>6. /\ DOMAIN PrepaidUsed(n, u) = Account
        /\ \A m \in Account \ {n} : PrepaidUsed(n, u)[m] = prepaid[m]
        /\ PrepaidUsed(n, u) = [m \in Account |-> PrepaidUsed(n, u)[m]]
    BY <1>1, <2>1
  <2>7. PrepaidUsed(n, u) \in [Account -> PrepaidRow \cup {NoPrepaid}]
    BY <1>1, <2>5, <2>6
  <2> QED
    BY <2>1, <2>3, <2>5, <2>6, <2>7
<1> QED
  BY <1>1, <1>2, <1>3, <1>4

LEMMA ReserveMintStep ==
  ASSUME RInv, NEW t \in Token, NEW d \in Nat, NEW u \in Int, NEW auth,
         ReserveMint(t, d, u, auth)
  PROVE  RInv'
<1> USE DEF RInv
<1> DEFINE issuer == Issuer[t]
           row == [there |-> TRUE, derivative |-> d, underlying |-> u, rate |-> <<u, d>>]
<1>1. /\ d > 0 /\ ~reserves[t].there
      /\ Leftover(issuer, u) <= core[issuer]
      /\ reserves' = [reserves EXCEPT ![t] = row]
      /\ prepaid' = PrepaidUsed(issuer, u)
      /\ core' = Moved(core, issuer, ReserveAccount, Leftover(issuer, u))
      /\ stat' = Minted(t, d, TRUE)
      /\ UNCHANGED <<minAmount, held>>
  BY DEF ReserveMint, CanMint
<1>2. /\ issuer \in Account /\ ReserveAccount \in Account /\ issuer # ReserveAccount
      /\ core \in [Account -> Nat]
      /\ prepaid \in [Account -> PrepaidRow \cup {NoPrepaid}]
      /\ reserves \in [Token -> ReserveRow \cup {NoReserve}]
      /\ stat \in [Token -> StatRow]
  BY ReserveAssumption DEF ReserveTypeOK
<1>3. /\ Leftover(issuer, u) \in Nat
      /\ prepaid' \in [Account -> PrepaidRow \cup {NoPrepaid}]
      /\ \A m \in Account \ {issuer} : prepaid'[m] = prepaid[m]
      /\ prepaid[issuer].value \in Nat /\ prepaid'[issuer].value \in Nat
      /\ prepaid'[issuer].value + u <= prepaid[issuer].value + Leftover(issuer, u)
  BY <1>1, <1>2, PrepaidUsedType
<1>4. /\ core' \in [Account -> Nat]
      /\ core'[ReserveAccount] = core[ReserveAccount] + Leftover(issuer, u)
  BY <1>1, <1>2, <1>3, MovedType
<1>5. reserves[t] = NoReserve
  BY <1>1, <1>2 DEF ReserveRow
<1>6. row \in ReserveRow
  BY <1>1 DEF ReserveRow
<1>7. /\ reserves' \in [Token -> ReserveRow \cup {NoReserve}]
      /\ reserves'[t] = row /\ \A s \in Token \ {t} : reserves'[s] = reserves[s]
  BY <1>1, <1>2, <1>6
<1>8. /\ stat' \in [Token -> StatRow]
      /\ stat'[t].there /\ stat'[t].supply = stat[t].supply /\ stat'[t].max >= stat[t].max
      /\ \A s \in Token \ {t} : stat'[s] = stat[s]
  BY <1>1, <1>2, MintedType
<1>9. ReserveTypeOK'
  BY <1>1, <1>3, <1>4, <1>7, <1>8 DEF ReserveTypeOK
<1>10. Unminted'
  BY <1>7, <1>8 DEF Unminted
<1>11. ClaimsCovered'
  <2>1. d * u <= u * d
    OBVIOUS
  <2> QED
    BY <2>1, <1>7 DEF ClaimsCovered
<1>12. UnitsHeld'
  <2> SUFFICES ASSUME NEW x \in Token
               PROVE  Total(held[x]) = stat'[x].supply /\ stat'[x].supply <= stat'[x].max
    BY <1>1 DEF UnitsHeld
  <2>1. /\ stat[x].supply \in Nat /\ stat[x].max \in Nat /\ stat'[x].max \in Nat
        /\ Total(held[x]) = stat[x].supply /\ stat[x].supply <= stat[x].max
    BY <1>2, <1>8 DEF UnitsHeld, StatRow
  <2>2. stat'[x].supply = stat[x].supply /\ stat'[x].max >= stat[x].max
    BY <1>8, <2>1
  <2> QED
    BY <2>1, <2>2
<1>13. ReserveCovers'
  <2>1. Total(Prepayments(prepaid')) =
          Total(Prepayments(prepaid)) - prepaid[issuer].value + prepaid'[issuer].value
    BY <1>2, <1>3, PrepaymentsUpdate
  <2>2. Total(Assets(reserves')) - Total(Debts(reserves')) =
          Total(Assets(reserves)) - Total(Debts(reserves)) - 0 + u
    BY <1>2, <1>5, <1>7, NoRows, UnderlyingsUpdate
  <2>3. /\ Total(Prepayments(prepaid)) \in Nat
        /\ Total(Assets(reserves)) \in Nat /\ Total(Debts(reserves)) \in Nat
        /\ Total(Assets(reserves')) \in Nat /\ Total(Debts(reserves')) \in Nat
    BY <1>9, TotalsType
  <2>4. core[ReserveAccount] \in Nat
    BY <1>2
  <2>5. core[ReserveAccount] + Total(Debts(reserves))
          >= Total(Prepayments(prepaid)) + Total(Assets(reserves))
    BY CoversTotals
  <2>6. core'[ReserveAccount] + Total(Debts(reserves'))
          >= Total(Prepayments(prepaid')) + Total(Assets(reserves'))
    BY <2>1, <2>2, <2>3, <2>4, <2>5, <1>3, <1>4
  <2> QED
    BY <2>6, CoversTotals
<1> QED
  BY <1>9, <1>10, <1>11, <1>12, <1>13

HeldWith(t, a, w) == [held EXCEPT ![t][a] = w]
Raised(t, v) == [stat EXCEPT ![t].supply = @ + v]

\* Changing one holding changes the total of its token by as much.
LEMMA HeldUpdate ==
  ASSUME held \in [Token -> [Account -> Nat]], NEW t \in Token, NEW a \in Account,
         NEW w \in Nat
  PROVE  /\ HeldWith(t, a, w) \in [Token -> [Account -> Nat]]
         /\ \A x \in Token \ {t} : HeldWith(t, a, w)[x] = held[x]
         /\ Total(HeldWith(t, a, w)[t]) = Total(held[t]) - held[t][a] + w
<1> DEFINE new == HeldWith(t, a, w)
<1>1. /\ new \in [Token -> [Account -> Nat]]
      /\ \A x \in Token \ {t} : new[x] = held[x]
      /\ held[t] \in [Account -> Nat] /\ new[t] \in [Account -> Nat]
      /\ new[t][a] = w /\ \A b \in Account \ {a} : new[t][b] = held[t][b]
  BY DEF HeldWith
<1>2. IsFiniteSet(Account)
  BY ReserveAssumption
<1> HIDE DEF new
<1>3. Total(new[t]) = Total(held[t]) - held[t][a] + new[t][a]
  BY <1>1, <1>2, TotalUpdate
<1> QED
  BY <1>1, <1>3 DEF new

LEMMA HeldLessened ==
  ASSUME held \in [Token -> [Account -> Nat]], NEW t \in Token, NEW a \in Account,
         NEW v \in Nat, v <= held[t][a], held' = HeldWith(t, a, held[t][a] - v)
  PROVE  /\ held' \in [Token -> [Account -> Nat]]
         /\ \A x \in Token \ {t} : held'[x] = held[x]
         /\ Total(held'[t]) = Total(held[t]) - held[t][a] + (held[t][a] - v)
<1> DEFINE w == held[t][a] - v
<1>1. w \in Nat
  OBVIOUS
<1> HIDE DEF w
<1>2. held' = HeldWith(t, a, w)
  BY DEF w
<1>3. /\ HeldWith(t, a, w) \in [Token -> [Account -> Nat]]
      /\ \A x \in Token \ {t} : HeldWith(t, a, w)[x] = held[x]
      /\ Total(HeldWith(t, a, w)[t]) = Total(held[t]) - held[t][a] + w
  BY <1>1, HeldUpdate
<1> QED
  BY <1>2, <1>3 DEF w

LEMMA RaisedType ==
  ASSUME stat \in [Token -> StatRow], NEW t \in Token, NEW v \in Nat
  PROVE  /\ Raised(t, v) \in [Token -> StatRow]
         /\ \A x \in Token \ {t} : Raised(t, v)[x] = stat[x]
         /\ Raised(t, v)[t].there = stat[t].there /\ Raised(t, v)[t].max = stat[t].max
         /\ Raised(t, v)[t].supply = stat[t].supply + v
  BY DEF Raised, StatRow

\* Units are issued, by whoever pays for them.
LEMMA UnitsIssued ==
  ASSUME RInv, NEW t \in Token, NEW a \in Account, NEW v \in Nat,
         stat[t].there, stat[t].supply + v <= stat[t].max,
         stat' = Raised(t, v), held' = HeldWith(t, a, held[t][a] + v),
         UNCHANGED <<minAmount, prepaid, reserves>>,
         core' \in [Account -> Nat], core'[ReserveAccount] = core[ReserveAccount]
  PROVE  RInv'
<1> USE DEF RInv
<1>1. /\ stat \in [Token -> StatRow] /\ held \in [Token -> [Account -> Nat]]
      /\ held[t][a] \in Nat
  BY DEF ReserveTypeOK
<1>2. /\ stat' \in [Token -> StatRow]
      /\ \A x \in Token \ {t} : stat'[x] = stat[x]
      /\ stat'[t].there = stat[t].there /\ stat'[t].max = stat[t].max
      /\ stat'[t].supply = stat[t].supply + v
  BY <1>1, RaisedType
<1>3. /\ held' \in [Token -> [Account -> Nat]]
      /\ \A x \in Token \ {t} : held'[x] = held[x]
      /\ Total(held'[t]) = Total(held[t]) - held[t][a] + (held[t][a] + v)
  <2> DEFINE w == held[t][a] + v
  <2>1. w \in Nat
    BY <1>1
  <2>2. held' = HeldWith(t, a, w)
    OBVIOUS
  <2> HIDE DEF w
  <2>3. /\ HeldWith(t, a, w) \in [Token -> [Account -> Nat]]
        /\ \A x \in Token \ {t} : HeldWith(t, a, w)[x] = held[x]
        /\ Total(HeldWith(t, a, w)[t]) = Total(held[t]) - held[t][a] + w
    BY <1>1, <2>1, HeldUpdate
  <2> QED
    BY <2>2, <2>3 DEF w
<1>4. ReserveTypeOK'
  BY <1>2, <1>3 DEF ReserveTypeOK
<1>5. Unminted'
  BY <1>2 DEF Unminted
<1>6. ClaimsCovered'
  BY <1>2 DEF ClaimsCovered
<1>7. ReserveCovers'
  BY DEF ReserveCovers
<1>8. UnitsHeld'
  <2>1. /\ Total(held[t]) = stat[t].supply
        /\ stat[t].supply \in Nat
    BY <1>1 DEF UnitsHeld, StatRow
  <2> QED
    BY <1>1, <1>2, <1>3, <2>1 DEF UnitsHeld
<1> QED
  BY <1>4, <1>5, <1>6, <1>7, <1>8

LEMMA IssueStep ==
  ASSUME RInv, NEW t \in Token, NEW a \in Account, NEW v \in Nat, NEW auth,
         Issue(t, a, v, auth)
  PROVE  RInv'
<1>1. a \in Account /\ core \in [Account -> Nat]
  BY ReserveAssumption DEF RInv, ReserveTypeOK
<1> QED
  BY <1>1, UnitsIssued DEF Issue, Raised, HeldWith

\* The arithmetic of a claim: v of d units take c of the underlying asset u, no
\* more than the rate r1/r2, and leave enough for the others.
LEMMA ClaimLeaves ==
  ASSUME NEW d \in Int, NEW v \in Nat, NEW u \in Int,
         NEW r1 \in Int, NEW r2 \in Nat \ {0}, d * r1 <= u * r2,
         NEW c \in Nat, c * r2 <= v * r1
  PROVE  (d - v) * r1 <= (u - c) * r2
<1>1. (d - v) * r1 = d * r1 - v * r1
  OBVIOUS
<1>2. (u - c) * r2 = u * r2 - c * r2
  OBVIOUS
<1>3. d * r1 \in Int /\ v * r1 \in Int /\ u * r2 \in Int /\ c * r2 \in Int
  OBVIOUS
<1> QED
  BY <1>1, <1>2, <1>3

LEMMA RowType ==
  ASSUME NEW row \in ReserveRow
  PROVE  /\ row.derivative \in Int /\ row.underlying \in Int
         /\ \E r1 \in Int, r2 \in Nat \ {0} : row.rate = <<r1, r2>>
<1>1. row.derivative \in Int /\ row.underlying \in Int /\ row.rate \in Int \X (Nat \ {0})
  BY DEF ReserveRow
<1> QED
  BY <1>1

\* What is paid for a claim is not above its worth.
LEMMA ClaimedBelow ==
  ASSUME NEW t \in Token, NEW v \in Nat, reserves[t] \in ReserveRow,
         NEW c \in Claimed(t, v)
  PROVE  /\ c \in Nat /\ c <= core[ReserveAccount]
         /\ c * reserves[t].rate[2] <= v * reserves[t].rate[1]
<1>1. PICK r1 \in Int, r2 \in Nat \ {0} : reserves[t].rate = <<r1, r2>>
  BY RowType
<1> DEFINE worth == v * r1
           whole == worth \div r2
<1>2. worth \in Int
  OBVIOUS
<1> HIDE DEF worth
<1>3. whole \in Int /\ whole * r2 <= worth
  BY <1>2, DivBelow
<1> HIDE DEF whole
<1>4. /\ c \in (IF whole * r2 = worth THEN whole - 1 ELSE whole) .. whole
      /\ c > 0 /\ c <= core[ReserveAccount]
  BY <1>1 DEF Claimed, worth, whole
<1>5. c \in Nat /\ c <= whole
  <2>1. (IF whole * r2 = worth THEN whole - 1 ELSE whole) \in Int
    BY <1>3
  <2> QED
    BY <1>3, <1>4, <2>1
<1>6. c * r2 <= whole * r2
  <2>1. PICK k \in Nat : whole = c + k
    <3>1. whole - c \in Nat /\ whole = c + (whole - c)
      BY <1>3, <1>5
    <3> QED
      BY <3>1
  <2>2. whole * r2 = c * r2 + k * r2 /\ k * r2 \in Nat /\ c * r2 \in Nat
    BY <2>1, <1>5
  <2> QED
    BY <2>2
<1>7. c * r2 <= worth
  <2>1. c * r2 \in Int /\ whole * r2 \in Int
    BY <1>3, <1>5
  <2> QED
    BY <2>1, <1>2, <1>3, <1>6
<1> QED
  BY <1>1, <1>4, <1>5, <1>7 DEF worth

LEMMA BurnedType ==
  ASSUME stat \in [Token -> StatRow], NEW t \in Token, NEW v \in Nat,
         v <= stat[t].supply, v <= stat[t].max
  PROVE  /\ Burned(t, v) \in [Token -> StatRow]
         /\ \A x \in Token \ {t} : Burned(t, v)[x] = stat[x]
         /\ Burned(t, v)[t].there = stat[t].there
         /\ Burned(t, v)[t].max = stat[t].max - v
         /\ Burned(t, v)[t].supply = stat[t].supply - v
<1> DEFINE row == stat[t]
           one == [row EXCEPT !.supply = @ - v]
           two == [one EXCEPT !.max = @ - v]
<1>1. row \in StatRow /\ row.supply - v \in Nat /\ row.max - v \in Nat
  BY DEF StatRow
<1> HIDE DEF row
<1>2. one \in StatRow /\ one.there = row.there /\ one.max = row.max /\ one.supply = row.supply - v
  BY <1>1 DEF StatRow
<1> HIDE DEF one
<1>3. two \in StatRow /\ two.there = one.there /\ two.supply = one.supply /\ two.max = one.max - v
  BY <1>1, <1>2 DEF StatRow
<1>4. Burned(t, v) = [stat EXCEPT ![t] = two]
  BY <1>1 DEF Burned, one, row, StatRow
<1> HIDE DEF two
<1> QED
  BY <1>1, <1>2, <1>3, <1>4 DEF row

\* Some of the units an account has are burned: they are part of the supply.
LEMMA UnitsLess ==
  ASSUME RInv, NEW t \in Token, NEW a \in Account, NEW v \in Nat,
         v > 0, v <= held[t][a],
         stat' = Burned(t, v), held' = HeldWith(t, a, held[t][a] - v)
  PROVE  /\ stat' \in [Token -> StatRow] /\ held' \in [Token -> [Account -> Nat]]
         /\ \A x \in Token \ {t} : stat'[x] = stat[x]
         /\ stat[t].there /\ stat'[t].there
         /\ UnitsHeld'
<1> USE DEF RInv
<1>1. /\ IsFiniteSet(Account)
      /\ stat \in [Token -> StatRow] /\ held \in [Token -> [Account -> Nat]]
      /\ held[t] \in [Account -> Nat] /\ held[t][a] \in Nat
  BY ReserveAssumption DEF ReserveTypeOK
<1>2. /\ stat[t].supply \in Nat /\ stat[t].max \in Nat
      /\ Total(held[t]) = stat[t].supply /\ stat[t].supply <= stat[t].max
  BY <1>1 DEF UnitsHeld, StatRow
<1>3. held[t][a] <= Total(held[t])
  BY <1>1, TotalBounds
<1>4. v <= stat[t].supply /\ v <= stat[t].max
  BY <1>1, <1>2, <1>3
<1>5. stat[t].there
  <2>1. ASSUME ~stat[t].there PROVE FALSE
    <3>1. stat[t].supply = 0
      BY <2>1, NoRows DEF Unminted
    <3> QED
      BY <3>1, <1>4
  <2> QED
    BY <2>1
<1>6. /\ stat' \in [Token -> StatRow]
      /\ \A x \in Token \ {t} : stat'[x] = stat[x]
      /\ stat'[t].there = stat[t].there
      /\ stat'[t].max = stat[t].max - v /\ stat'[t].supply = stat[t].supply - v
  BY <1>1, <1>4, BurnedType
<1>7. /\ held' \in [Token -> [Account -> Nat]]
      /\ \A x \in Token \ {t} : held'[x] = held[x]
      /\ Total(held'[t]) = Total(held[t]) - held[t][a] + (held[t][a] - v)
  BY <1>1, HeldLessened
<1>8. UnitsHeld'
  <2>1. Total(held'[t]) = stat'[t].supply /\ stat'[t].supply <= stat'[t].max
    BY <1>1, <1>2, <1>6, <1>7
  <2> QED
    BY <1>6, <1>7, <2>1 DEF UnitsHeld
<1> QED
  BY <1>5, <1>6, <1>7, <1>8

LEMMA ClaimedReservesType ==
  ASSUME reserves \in [Token -> ReserveRow \cup {NoReserve}], NEW t \in Token,
         reserves[t] \in ReserveRow, NEW v \in Nat, NEW c \in Nat
  PROVE  LET new == ClaimedReserves(t, v, c)
         IN  /\ new \in [Token -> ReserveRow \cup {NoReserve}]
             /\ \A x \in Token \ {t} : new[x] = reserves[x]
             /\ new[t].there = reserves[t].there /\ new[t].rate = reserves[t].rate
             /\ new[t].derivative = reserves[t].derivative - v
             /\ new[t].underlying = reserves[t].underlying - c
<1> DEFINE row == reserves[t]
           one == [row EXCEPT !.derivative = @ - v]
           two == [one EXCEPT !.underlying = @ - c]
<1>1. row \in ReserveRow /\ row.derivative - v \in Int /\ row.underlying - c \in Int
  <2>1. row.derivative \in Int /\ row.underlying \in Int
    BY RowType
  <2> QED
    BY <2>1
<1>2. ClaimedReserves(t, v, c) = [reserves EXCEPT ![t] = two]
  BY <1>1 DEF ClaimedReserves, ReserveRow
<1> HIDE DEF row
<1>3. /\ one \in ReserveRow /\ one.there = row.there /\ one.rate = row.rate
      /\ one.underlying = row.underlying /\ one.derivative = row.derivative - v
  BY <1>1 DEF ReserveRow
<1> HIDE DEF one
<1>4. /\ two \in ReserveRow /\ two.there = one.there /\ two.rate = one.rate
      /\ two.derivative = one.derivative /\ two.underlying = one.underlying - c
  BY <1>1, <1>3 DEF ReserveRow
<1> HIDE DEF two
<1> QED
  BY <1>1, <1>2, <1>3, <1>4 DEF row

\* What becomes of v units of a that are claimed, but for the payment of c.
UnitsGone(t, a, v, c) ==
    /\ reserves' = ClaimedReserves(t, v, c)
    /\ stat' = Burned(t, v)
    /\ held' = HeldWith(t, a, held[t][a] - v)
    /\ UNCHANGED <<minAmount, prepaid>>

\* Units are claimed, by whoever is paid for them: what the claim takes is
\* rounded down, so that it leaves at least their rate for each of the others.
LEMMA UnitsClaimed ==
  ASSUME RInv, NEW t \in Token, NEW a \in Account, NEW v \in Nat,
         v > 0, v <= held[t][a], CanClaim(t, v), NEW c \in Claimed(t, v),
         UnitsGone(t, a, v, c),
         core' \in [Account -> Nat],
         core'[ReserveAccount] = core[ReserveAccount] - c
  PROVE  RInv'
<1> USE DEF RInv
<1> DEFINE u == reserves[t].underlying
           d == reserves[t].derivative
<1>1. /\ ReserveAccount \in Account /\ core \in [Account -> Nat]
      /\ stat \in [Token -> StatRow]
      /\ reserves \in [Token -> ReserveRow \cup {NoReserve}]
      /\ core[ReserveAccount] \in Nat
  BY ReserveAssumption DEF ReserveTypeOK
<1>2. reserves[t].there
  BY DEF CanClaim
<1>3. stat[t].there /\ reserves[t] \in ReserveRow
  BY <1>1, <1>2, NoRows DEF Unminted
<1>4. PICK r1 \in Int, r2 \in Nat \ {0} : reserves[t].rate = <<r1, r2>>
  BY <1>3, RowType
<1>5. u \in Int /\ d \in Int
  BY <1>3 DEF ReserveRow
<1>6. d * r1 <= u * r2
  BY <1>2, <1>4 DEF ClaimsCovered
<1>7. c \in Nat /\ c * r2 <= v * r1
  BY <1>3, <1>4, ClaimedBelow
<1>8. (d - v) * r1 <= (u - c) * r2
  BY <1>4, <1>5, <1>6, <1>7, ClaimLeaves
<1>9. /\ stat' \in [Token -> StatRow] /\ held' \in [Token -> [Account -> Nat]]
      /\ \A x \in Token \ {t} : stat'[x] = stat[x]
      /\ stat'[t].there
      /\ UnitsHeld'
  BY UnitsLess DEF UnitsGone
<1>10. /\ reserves' \in [Token -> ReserveRow \cup {NoReserve}]
       /\ \A x \in Token \ {t} : reserves'[x] = reserves[x]
       /\ reserves'[t].there = reserves[t].there /\ reserves'[t].rate = reserves[t].rate
       /\ reserves'[t].derivative = d - v
       /\ reserves'[t].underlying = u - c
  BY <1>1, <1>3, <1>7, ClaimedReservesType DEF UnitsGone
<1> HIDE DEF u, d
<1>11. ReserveTypeOK'
  BY <1>9, <1>10 DEF ReserveTypeOK, UnitsGone
<1>12. Unminted'
  BY <1>3, <1>9, <1>10 DEF Unminted
<1>13. ClaimsCovered'
  BY <1>4, <1>8, <1>10 DEF ClaimsCovered
<1>14. ReserveCovers'
  <2>1. Total(Assets(reserves')) - Total(Debts(reserves')) =
          Total(Assets(reserves)) - Total(Debts(reserves)) - u + (u - c)
    BY <1>1, <1>10, UnderlyingsUpdate DEF u
  <2>2. /\ Total(Prepayments(prepaid)) \in Nat
        /\ Total(Assets(reserves)) \in Nat /\ Total(Debts(reserves)) \in Nat
        /\ Total(Assets(reserves')) \in Nat /\ Total(Debts(reserves')) \in Nat
    BY <1>11, TotalsType
  <2>3. Total(Prepayments(prepaid')) = Total(Prepayments(prepaid))
    BY DEF UnitsGone
  <2>4. core[ReserveAccount] + Total(Debts(reserves))
          >= Total(Prepayments(prepaid)) + Total(Assets(reserves))
    BY CoversTotals
  <2>5. core'[ReserveAccount] + Total(Debts(reserves'))
          >= Total(Prepayments(prepaid')) + Total(Assets(reserves'))
    BY <1>1, <1>5, <1>7, <2>1, <2>2, <2>3, <2>4
  <2> QED
    BY <2>5, CoversTotals
<1> QED
  BY <1>9, <1>11, <1>12, <1>13, <1>14

LEMMA ClaimStep ==
  ASSUME RInv, NEW t \in Token, NEW owner \in Holders, NEW v \in Nat, NEW auth,
         Claim(t, owner, v, auth)
  PROVE  RInv'
<1>1. /\ owner \in Account /\ ReserveAccount \in Account /\ owner # ReserveAccount
      /\ core \in [Account -> Nat] /\ reserves \in [Token -> ReserveRow \cup {NoReserve}]
  BY ReserveAssumption DEF RInv, ReserveTypeOK
<1>2. PICK c \in Claimed(t, v) :
         /\ UnitsGone(t, owner, v, c)
         /\ core' = Moved(core, ReserveAccount, owner, c)
  BY DEF Claim, UnitsGone, HeldWith
<1>3. v > 0 /\ v <= held[t][owner] /\ CanClaim(t, v)
  BY DEF Claim
<1>4. c \in Nat /\ c <= core[ReserveAccount]
  <2>1. reserves[t] \in ReserveRow
    BY <1>1, <1>3, NoRows DEF CanClaim
  <2> QED
    BY <2>1, ClaimedBelow
<1>5. /\ core' \in [Account -> Nat]
      /\ core'[ReserveAccount] = core[ReserveAccount] - c
  BY <1>1, <1>2, <1>4, MovedType
<1> QED
  BY <1>1, <1>2, <1>3, <1>5, UnitsClaimed

LEMMA BurnStep ==
  ASSUME RInv, NEW t \in Token, NEW owner \in Account, NEW v \in Nat, NEW auth,
         Burn(t, owner, v, auth)
  PROVE  RInv'
<1> USE DEF RInv
<1>1. /\ v > 0 /\ v <= held[t][owner]
      /\ stat' = Burned(t, v) /\ held' = HeldWith(t, owner, held[t][owner] - v)
      /\ UNCHANGED <<minAmount, prepaid, reserves, core>>
  BY DEF Burn, HeldWith
<1>2. /\ stat' \in [Token -> StatRow] /\ held' \in [Token -> [Account -> Nat]]
      /\ \A x \in Token \ {t} : stat'[x] = stat[x]
      /\ stat[t].there /\ stat'[t].there
      /\ UnitsHeld'
  BY <1>1, UnitsLess
<1>3. ReserveTypeOK' /\ ClaimsCovered'
  BY <1>1, <1>2 DEF ReserveTypeOK, ClaimsCovered
<1>4. Unminted'
  BY <1>1, <1>2 DEF Unminted
<1>5. ReserveCovers'
  BY <1>1 DEF ReserveCovers
<1> QED
  BY <1>2, <1>3, <1>4, <1>5

\* Any call of the reserve, or of the tokens it is about.
LEMMA ReserveCallInv ==
  ASSUME RInv, NEW auth, ReserveCall(auth)
  PROVE  RInv'
<1>1. /\ MinAmounts \subseteq Nat /\ Amounts \subseteq Int /\ Maxima \subseteq Nat
      /\ Units \subseteq Nat /\ PrepaidNames \subseteq Account
      /\ TokenAccount \in Account /\ Holders \subseteq Account
      /\ \A t \in Token : Issuer[t] \in Account
  BY ReserveAssumption
<1> QED
  BY <1>1, SetMinAmountStep, SendStep, MintTokenStep, PrepayStep, ReserveMintStep,
     IssueStep, BurnStep, ClaimStep
     DEF ReserveCall

-----------------------------------------------------------------------------
(* Identities, which the account contract keeps.                            *)

Sheet == [Account -> AccountRow \cup {NoAccount}]

Unique(table) ==
    \A m, n \in Account :
        /\ table[m].there /\ table[n].there /\ m # n
        => table[m].nickname # table[n].nickname \/ table[m].nickname = NoNick

\* The identities of accounts.
AInv == accounts \in Sheet /\ Unique(accounts)

LEMMA NoAccountType == NoAccount.there = FALSE
  BY DEF NoAccount

LEMMA NickSetType ==
  ASSUME NEW table \in Sheet, NEW n \in Account, NEW nick \in Nick
  PROVE  /\ NickSet(table, n, nick) \in Sheet
         /\ \A m \in Account \ {n} : NickSet(table, n, nick)[m] = table[m]
         /\ NickSet(table, n, nick)[n].there
         /\ NickSet(table, n, nick)[n].nickname = nick
         /\ table[n].there => NickSet(table, n, nick)[n].low = table[n].low
         /\ ~table[n].there => NickSet(table, n, nick)[n].low = 0
<1> DEFINE low == IF table[n].there THEN table[n].low ELSE 0
           row == [there |-> TRUE, nickname |-> nick, low |-> low]
<1>1. low \in 0 .. 1
  <2>1. CASE table[n].there
    <3>1. table[n] \in AccountRow
      BY <2>1, NoAccountType DEF Sheet
    <3> QED
      BY <2>1, <3>1 DEF AccountRow
  <2> QED
    BY <2>1
<1> HIDE DEF low
<1>2. row \in AccountRow
  BY <1>1 DEF AccountRow
<1>3. NickSet(table, n, nick) = [table EXCEPT ![n] = row]
  BY DEF NickSet, low
<1> QED
  BY <1>2, <1>3 DEF Sheet, low

LEMMA PartnerSetType ==
  ASSUME NEW table \in Sheet, NEW n \in Account, NEW flag \in BOOLEAN
  PROVE  /\ PartnerSet(table, n, flag) \in Sheet
         /\ \A m \in Account \ {n} : PartnerSet(table, n, flag)[m] = table[m]
         /\ PartnerSet(table, n, flag)[n].there
         /\ PartnerSet(table, n, flag)[n].low = Flag(flag)
         /\ table[n].there => PartnerSet(table, n, flag)[n].nickname = table[n].nickname
         /\ ~table[n].there => PartnerSet(table, n, flag)[n].nickname = NoNick
<1> DEFINE nickname == IF table[n].there THEN table[n].nickname ELSE NoNick
           row == [there |-> TRUE, low |-> Flag(flag), nickname |-> nickname]
<1>1. nickname \in Nick \cup {NoNick}
  <2>1. CASE table[n].there
    <3>1. table[n] \in AccountRow
      BY <2>1, NoAccountType DEF Sheet
    <3> QED
      BY <2>1, <3>1 DEF AccountRow
  <2> QED
    BY <2>1
<1> HIDE DEF nickname
<1>2. Flag(flag) \in 0 .. 1
  BY DEF Flag
<1>3. row \in AccountRow
  BY <1>1, <1>2 DEF AccountRow
<1>4. PartnerSet(table, n, flag) = [table EXCEPT ![n] = row]
  BY DEF PartnerSet, nickname
<1> QED
  BY <1>3, <1>4 DEF Sheet, nickname

\* A nickname that no row has stays unique when it is given to one.
LEMMA NickSetUnique ==
  ASSUME NEW table \in Sheet, Unique(table), NEW n \in Account, NEW nick, NEW auth,
         CanSetNick(table, n, nick, auth)
  PROVE  NickSet(table, n, nick) \in Sheet /\ Unique(NickSet(table, n, nick))
<1> DEFINE new == NickSet(table, n, nick)
<1>1. nick \in Nick
  BY AccountAssumption DEF CanSetNick
<1>2. \A m \in Account : ~(table[m].there /\ table[m].nickname = nick)
  BY DEF CanSetNick, Taken
<1>3. /\ new \in Sheet /\ new[n].nickname = nick
      /\ \A m \in Account \ {n} : new[m] = table[m]
  BY <1>1, NickSetType
<1> HIDE DEF new
<1> QED
  BY <1>2, <1>3 DEF Unique, new

\* A flag leaves the nicknames as they are, and brings no new one.
LEMMA PartnerSetUnique ==
  ASSUME NEW table \in Sheet, Unique(table), NEW n \in Account, NEW flag \in BOOLEAN
  PROVE  PartnerSet(table, n, flag) \in Sheet /\ Unique(PartnerSet(table, n, flag))
<1> DEFINE new == PartnerSet(table, n, flag)
<1>1. /\ new \in Sheet
      /\ \A m \in Account \ {n} : new[m] = table[m]
      /\ table[n].there => new[n].nickname = table[n].nickname
      /\ ~table[n].there => new[n].nickname = NoNick
  BY PartnerSetType
<1> HIDE DEF new
<1> QED
  BY <1>1 DEF Unique, new

LEMMA AccountCallInv ==
  ASSUME AInv, NEW auth, AccountCall(auth)
  PROVE  AInv'
<1>1. Named \subseteq Account /\ Flags \subseteq BOOLEAN
  BY AccountAssumption
<1>2. ASSUME NEW n \in Named, NEW nick \in Nick, SetNick(n, nick, auth)
      PROVE  AInv'
  BY <1>1, <1>2, NickSetUnique DEF SetNick, AInv
<1>3. ASSUME NEW n \in Named, NEW flag \in Flags, SetPartner(n, flag)
      PROVE  AInv'
  BY <1>1, <1>3, PartnerSetUnique DEF SetPartner, AInv
<1> QED
  BY <1>2, <1>3 DEF AccountCall
=============================================================================
