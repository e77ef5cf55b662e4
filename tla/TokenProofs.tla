---------------------------- MODULE TokenProofs -----------------------------
(***************************************************************************)
(* Theorems of Token about its states: the types of the tables, the        *)
(* conservation of the supply, that the contract's balance covers every    *)
(* pending withdrawal, that deposits are whole, and that the deferred      *)
(* transactions of pending withdrawals are set.                            *)
(*                                                                         *)
(* The types and the conservation are inductive together only: that an     *)
(* amount stays a natural number rests on the conservation (what a holder  *)
(* retires is part of the supply), and conservation on the types.  The     *)
(* rest is added to them one part at a time.  The tables are arguments     *)
(* where a handler changes them and passes them on to `refresh_schedule`.  *)
(***************************************************************************)
EXTENDS Token, TotalsProofs

\* A row that is not there holds nothing.
Sheet == [Owner -> {r \in Row : r.open \/ (r.balance = 0 /\ r.deposit = 0)}]

ClosedEmpty == \A t \in Token : accounts[t] \in Sheet

\* A token that does not exist has no supply, so that its creation starts
\* from empty account rows.
Unminted == \A t \in Token : ~stat[t].exists => stat[t].supply = 0

IInv == TypeOK /\ Conservation /\ ClosedEmpty /\ Unminted

-----------------------------------------------------------------------------
(* The row operations.                                                      *)

LEMMA NoRowType ==
  /\ AnyPrecision \in Precision
  /\ NoRow \in Row
  /\ NoRow.balance = 0 /\ NoRow.deposit = 0
  /\ NoRow.open = FALSE
<1>1. AnyPrecision \in Precision
  BY ChainAssumption DEF AnyPrecision
<1> QED
  BY <1>1 DEF NoRow, Row

LEMMA OpenRowType ==
  ASSUME NEW t, NEW w \in BOOLEAN, NEW p \in Precision
  PROVE  /\ OpenRow(t, w, p) \in Row
         /\ OpenRow(t, w, p).balance = 0
         /\ OpenRow(t, w, p).deposit = 0
  BY NoRowType DEF OpenRow, NoRow, Row

LEMMA OpenedType ==
  ASSUME NEW t, NEW r \in Row, NEW v \in Value,
         r.open \/ (r.balance = 0 /\ r.deposit = 0)
  PROVE  /\ Opened(t, r, v) \in Row
         /\ Opened(t, r, v).balance = r.balance
         /\ Opened(t, r, v).deposit = r.deposit
<1>1. Is(t, "whitelist_on") \in BOOLEAN /\ v.prec \in Precision
  BY DEF Is, Value
<1>2. CASE r.open
  BY <1>2 DEF Opened
<1>3. CASE ~r.open
  BY <1>1, <1>3, OpenRowType DEF Opened
<1> QED
  BY <1>2, <1>3

\* Changing the row of one account changes the total as it changes the row.
LEMMA HeldUpdate ==
  ASSUME NEW acc \in Sheet, NEW new \in Sheet, NEW o \in Owner,
         \A x \in Owner \ {o} : new[x] = acc[x]
  PROVE  Total(Held(new)) = Total(Held(acc)) - (acc[o].balance + acc[o].deposit)
                              + (new[o].balance + new[o].deposit)
<1>1. /\ Held(acc) \in [Owner -> Nat] /\ Held(new) \in [Owner -> Nat]
      /\ Held(acc)[o] = acc[o].balance + acc[o].deposit
      /\ Held(new)[o] = new[o].balance + new[o].deposit
  BY DEF Held, Sheet, Row
<1>2. \A x \in Owner \ {o} : Held(new)[x] = Held(acc)[x]
  BY DEF Held, Sheet
<1>3. IsFiniteSet(Owner)
  BY ChainAssumption
<1>4. Total(Held(new)) = Total(Held(acc)) - Held(acc)[o] + Held(new)[o]
  BY <1>1, <1>2, <1>3, TotalUpdate
<1> QED
  BY <1>1, <1>4

\* The holding of one account is a part of the total.
LEMMA HeldBound ==
  ASSUME NEW acc \in Sheet, NEW o \in Owner
  PROVE  /\ Total(Held(acc)) \in Nat
         /\ acc[o].balance \in Nat /\ acc[o].deposit \in Nat
         /\ acc[o].balance + acc[o].deposit <= Total(Held(acc))
<1>1. /\ Held(acc) \in [Owner -> Nat]
      /\ Held(acc)[o] = acc[o].balance + acc[o].deposit
      /\ acc[o].balance \in Nat /\ acc[o].deposit \in Nat
  BY DEF Held, Sheet, Row
<1>2. IsFiniteSet(Owner)
  BY ChainAssumption
<1> QED
  BY <1>1, <1>2, TotalBounds

\* A checked sub_balance takes the value out of the total.
LEMMA SubBalanceLaw ==
  ASSUME NEW t, NEW acc \in Sheet, NEW o \in Owner, NEW v \in Value,
         v.amount \in Nat, CanSubBalance(t, acc, o, v)
  PROVE  /\ SubBalance(acc, o, v) \in Sheet
         /\ Total(Held(SubBalance(acc, o, v))) = Total(Held(acc)) - v.amount
<1> DEFINE new == SubBalance(acc, o, v)
<1>1. acc[o].open /\ v.amount <= acc[o].balance
  BY DEF CanSubBalance
<1>2. /\ new \in Sheet
      /\ \A x \in Owner \ {o} : new[x] = acc[x]
      /\ new[o].balance + new[o].deposit = acc[o].balance + acc[o].deposit - v.amount
  <2>1. CASE BalanceDrains(o, acc[o], v)
    <3>1. new = [acc EXCEPT ![o] = NoRow]
      BY <2>1 DEF SubBalance
    <3>2. acc[o].balance = v.amount /\ acc[o].deposit = 0
      BY <2>1 DEF BalanceDrains
    <3> QED
      BY <3>1, <3>2, NoRowType DEF Sheet
  <2>2. CASE ~BalanceDrains(o, acc[o], v)
    <3>1. new = [acc EXCEPT ![o].balance = @ - v.amount]
      BY <2>2 DEF SubBalance
    <3>2. acc[o].balance - v.amount \in Nat
      BY <1>1 DEF Sheet, Row
    <3> QED
      BY <1>1, <3>1, <3>2 DEF Sheet, Row
  <2> QED
    BY <2>1, <2>2
<1> HIDE DEF new
<1>3. Total(Held(new)) = Total(Held(acc)) - (acc[o].balance + acc[o].deposit)
                           + (new[o].balance + new[o].deposit)
  BY <1>2, HeldUpdate
<1>4. Total(Held(acc)) \in Nat /\ acc[o].balance \in Nat /\ acc[o].deposit \in Nat
  BY HeldBound
<1>5. new \in Sheet /\ Total(Held(new)) = Total(Held(acc)) - v.amount
  BY <1>2, <1>3, <1>4
<1> QED
  BY <1>5 DEF new

\* A checked sub_deposit takes the value out of the total.
LEMMA SubDepositLaw ==
  ASSUME NEW t, NEW acc \in Sheet, NEW o \in Owner, NEW v \in Value,
         v.amount \in Nat, NEW keep \in BOOLEAN,
         CanSubDeposit(t, acc, o, v, keep)
  PROVE  /\ SubDeposit(acc, o, v, keep) \in Sheet
         /\ Total(Held(SubDeposit(acc, o, v, keep))) = Total(Held(acc)) - v.amount
<1> DEFINE new == SubDeposit(acc, o, v, keep)
<1>1. acc[o].open /\ v.amount <= acc[o].deposit
  BY DEF CanSubDeposit
<1>2. /\ new \in Sheet
      /\ \A x \in Owner \ {o} : new[x] = acc[x]
      /\ new[o].balance + new[o].deposit = acc[o].balance + acc[o].deposit - v.amount
  <2>1. CASE DepositDrains(o, acc[o], v, keep)
    <3>1. new = [acc EXCEPT ![o] = NoRow]
      BY <2>1 DEF SubDeposit
    <3>2. acc[o].deposit = v.amount /\ acc[o].balance = 0
      BY <2>1 DEF DepositDrains
    <3> QED
      BY <3>1, <3>2, NoRowType DEF Sheet
  <2>2. CASE ~DepositDrains(o, acc[o], v, keep)
    <3>1. new = [acc EXCEPT ![o].deposit = @ - v.amount]
      BY <2>2 DEF SubDeposit
    <3>2. acc[o].deposit - v.amount \in Nat
      BY <1>1 DEF Sheet, Row
    <3> QED
      BY <1>1, <3>1, <3>2 DEF Sheet, Row
  <2> QED
    BY <2>1, <2>2
<1> HIDE DEF new
<1>3. Total(Held(new)) = Total(Held(acc)) - (acc[o].balance + acc[o].deposit)
                           + (new[o].balance + new[o].deposit)
  BY <1>2, HeldUpdate
<1>4. Total(Held(acc)) \in Nat /\ acc[o].balance \in Nat /\ acc[o].deposit \in Nat
  BY HeldBound
<1>5. new \in Sheet /\ Total(Held(new)) = Total(Held(acc)) - v.amount
  BY <1>2, <1>3, <1>4
<1> QED
  BY <1>5 DEF new

\* A credit, to the balance or to the deposit, adds the value to the total.
LEMMA AddLaw ==
  ASSUME NEW t, NEW acc \in Sheet, NEW o \in Owner, NEW v \in Value,
         v.amount \in Nat
  PROVE  /\ AddBalance(t, acc, o, v) \in Sheet
         /\ AddDeposit(t, acc, o, v) \in Sheet
         /\ Total(Held(AddBalance(t, acc, o, v))) = Total(Held(acc)) + v.amount
         /\ Total(Held(AddDeposit(t, acc, o, v))) = Total(Held(acc)) + v.amount
<1> DEFINE row == Opened(t, acc[o], v)
           bal == [acc EXCEPT ![o] = [row EXCEPT !.balance = @ + v.amount]]
           dep == [acc EXCEPT ![o] = [row EXCEPT !.deposit = @ + v.amount]]
<1>1. AddBalance(t, acc, o, v) = bal /\ AddDeposit(t, acc, o, v) = dep
  BY DEF AddBalance, AddDeposit
<1>2. /\ acc[o] \in Row
      /\ acc[o].open \/ (acc[o].balance = 0 /\ acc[o].deposit = 0)
  BY DEF Sheet
<1>3. /\ row \in Row /\ row.open
      /\ row.balance = acc[o].balance /\ row.deposit = acc[o].deposit
  <2>1. row.open
    BY NoRowType DEF Opened, OpenRow, NoRow
  <2> QED
    BY <1>2, <2>1, OpenedType
<1> HIDE DEF row
<1>4. /\ bal \in Sheet /\ dep \in Sheet
      /\ \A x \in Owner \ {o} : bal[x] = acc[x] /\ dep[x] = acc[x]
      /\ bal[o].balance + bal[o].deposit = acc[o].balance + acc[o].deposit + v.amount
      /\ dep[o].balance + dep[o].deposit = acc[o].balance + acc[o].deposit + v.amount
  BY <1>3 DEF Sheet, Row
<1> HIDE DEF bal, dep
<1>5. /\ Total(Held(bal)) = Total(Held(acc)) - (acc[o].balance + acc[o].deposit)
                               + (bal[o].balance + bal[o].deposit)
      /\ Total(Held(dep)) = Total(Held(acc)) - (acc[o].balance + acc[o].deposit)
                               + (dep[o].balance + dep[o].deposit)
  BY <1>4, HeldUpdate
<1>6. Total(Held(acc)) \in Nat /\ acc[o].balance \in Nat /\ acc[o].deposit \in Nat
  BY HeldBound
<1> QED
  BY <1>1, <1>4, <1>5, <1>6

-----------------------------------------------------------------------------
(* Settling the requests of an owner.                                       *)

\* A settlement moves units from the contract's row to the owner's.
LEMMA SettleLaw ==
  ASSUME NEW t, NEW acc \in Sheet, NEW o \in Owner, NEW v \in Value,
         v.amount \in Nat, NEW auth, NEW garbage,
         CanSettle(t, acc, o, v, auth, garbage)
  PROVE  /\ Settle(t, acc, o, v, garbage) \in Sheet
         /\ Total(Held(Settle(t, acc, o, v, garbage))) = Total(Held(acc))
<1> DEFINE paid == SubBalance(acc, TokenContract, v)
<1>1. CanSubBalance(t, acc, TokenContract, v) /\ TokenContract \in Owner
  BY ChainAssumption DEF CanSettle
<1>2. paid \in Sheet /\ Total(Held(paid)) = Total(Held(acc)) - v.amount
  BY <1>1, SubBalanceLaw
<1>3. \/ Settle(t, acc, o, v, garbage) = AddDeposit(t, paid, o, v)
      \/ Settle(t, acc, o, v, garbage) = AddBalance(t, paid, o, v)
  BY DEF Settle
<1> HIDE DEF paid
<1>4. /\ AddBalance(t, paid, o, v) \in Sheet
      /\ AddDeposit(t, paid, o, v) \in Sheet
      /\ Total(Held(AddBalance(t, paid, o, v))) = Total(Held(paid)) + v.amount
      /\ Total(Held(AddDeposit(t, paid, o, v))) = Total(Held(paid)) + v.amount
  BY <1>2, AddLaw
<1>5. Total(Held(acc)) \in Nat
  BY HeldBound, ChainAssumption
<1> QED
  BY <1>2, <1>3, <1>4, <1>5

\* The head of the schedule is a time, if there is one.
LEMMA HeadTimeType ==
  ASSUME NEW reqs \in [Owner -> [Token -> Request]], NEW o \in Owner
  PROVE  HeadTime(reqs, o) \in Nat \cup {None}
<1> DEFINE pending == Pending(reqs, o)
           times == {reqs[o][t].at : t \in pending}
<1>1. CASE pending = {}
  BY <1>1 DEF HeadTime
<1>2. CASE pending # {}
  <2>1. pending \subseteq Token /\ \A t \in Token : reqs[o][t].at \in Nat
    BY DEF Pending, Request
  <2>2. times \in SUBSET Nat /\ times # {}
    BY <1>2, <2>1
  <2>3. PICK n \in times : \A m \in times : n <= m
    BY <2>2, LeastNatural
  <2>4. PICK x \in pending : \A y \in pending : reqs[o][x].at <= reqs[o][y].at
    BY <2>3
  <2> DEFINE head == CHOOSE z \in pending :
                       \A y \in pending : reqs[o][z].at <= reqs[o][y].at
  <2>5. head \in pending
    BY <2>4
  <2>6. HeadTime(reqs, o) = reqs[o][head].at
    BY <1>2 DEF HeadTime
  <2> QED
    BY <2>1, <2>5, <2>6
<1> QED
  BY <1>1, <1>2

LEMMA EraseType ==
  ASSUME NEW reqs \in [Owner -> [Token -> Request]], NEW o \in Owner, NEW ts
  PROVE  Erase(reqs, o, ts) \in [Owner -> [Token -> Request]]
  BY DEF Erase, NoRequest, Request

\* Refreshing the schedule, with the settlements it makes, leaves the total of
\* each token as it was in the tables it is given.
LEMMA RefreshLaw ==
  ASSUME TypeOK, NEW accs \in [Token -> Sheet],
         NEW reqs \in [Owner -> [Token -> Request]],
         NEW o \in Owner, NEW auth, RefreshSchedule(accs, reqs, o, auth)
  PROVE  /\ accounts' \in [Token -> Sheet]
         /\ \A t \in Token : Total(Held(accounts'[t])) = Total(Held(accs[t]))
         /\ requests' \in [Owner -> [Token -> Request]]
         /\ deferred' \in [Owner -> Nat \cup {None}]
<1> DEFINE due == Due(reqs, o)
           rest == Erase(reqs, o, due)
<1>1. PICK garbage \in SUBSET Unread(accs, reqs, o) :
         /\ CanClear(accs, reqs, o, auth, garbage)
         /\ accounts' = [t \in Token |->
                IF t \in due
                THEN Settle(t, accs[t], o, Requested(reqs, o, t), garbage)
                ELSE accs[t]]
  BY DEF RefreshSchedule
<1>2. requests' = rest /\ deferred' = [deferred EXCEPT ![o] = HeadTime(rest, o)]
  BY DEF RefreshSchedule
<1>3. ASSUME NEW t \in Token
      PROVE  accounts'[t] \in Sheet /\ Total(Held(accounts'[t])) = Total(Held(accs[t]))
  <2>1. CASE t \in due
    <3> DEFINE v == Requested(reqs, o, t)
    <3>1. v \in Value /\ v.amount \in Nat
      BY DEF Requested, Value, Request, TypeOK, Stat
    <3>2. CanSettle(t, accs[t], o, v, auth, garbage)
      BY <1>1, <2>1 DEF CanClear
    <3>3. accs[t] \in Sheet
      OBVIOUS
    <3>4. accounts'[t] = Settle(t, accs[t], o, v, garbage)
      BY <1>1, <2>1
    <3> HIDE DEF v
    <3> QED
      BY <3>1, <3>2, <3>3, <3>4, SettleLaw
  <2>2. CASE t \notin due
    BY <1>1, <2>2
  <2> QED
    BY <2>1, <2>2
<1>4. accounts' \in [Token -> Sheet]
  BY <1>1, <1>3
<1>5. rest \in [Owner -> [Token -> Request]]
  BY EraseType
<1>6. HeadTime(rest, o) \in Nat \cup {None}
  BY <1>5, HeadTimeType
<1>7. deferred' \in [Owner -> Nat \cup {None}]
  BY <1>2, <1>6 DEF TypeOK
<1> QED
  BY <1>2, <1>3, <1>4, <1>5, <1>7

-----------------------------------------------------------------------------
(* The parts of the invariant that a step of each kind preserves.           *)

\* A step that moves units between the rows of each token.
LEMMA UnitsMoved ==
  ASSUME IInv, stat' = stat, accounts' \in [Token -> Sheet],
         \A t \in Token : Total(Held(accounts'[t])) = Total(Held(accounts[t]))
  PROVE  /\ stat' \in [Token -> Stat]
         /\ accounts' \in [Token -> [Owner -> Row]]
         /\ Conservation' /\ ClosedEmpty' /\ Unminted'
<1>1. stat' \in [Token -> Stat] /\ accounts' \in [Token -> [Owner -> Row]]
  BY DEF IInv, TypeOK, Sheet
<1>2. Conservation'
  BY DEF IInv, Conservation
<1>3. ClosedEmpty' /\ Unminted'
  BY DEF IInv, ClosedEmpty, Unminted
<1> QED
  BY <1>1, <1>2, <1>3

\* A step that moves units between the rows of one token.
LEMMA RowsMoved ==
  ASSUME IInv, stat' = stat, NEW t \in Token, NEW new \in Sheet,
         Total(Held(new)) = Total(Held(accounts[t])),
         accounts' = [accounts EXCEPT ![t] = new]
  PROVE  /\ stat' \in [Token -> Stat]
         /\ accounts' \in [Token -> [Owner -> Row]]
         /\ Conservation' /\ ClosedEmpty' /\ Unminted'
<1>1. accounts \in [Token -> [Owner -> Row]] /\ \A u \in Token : accounts[u] \in Sheet
  BY DEF IInv, TypeOK, ClosedEmpty
<1>2. accounts' \in [Token -> Sheet]
  BY <1>1
<1>3. \A u \in Token : Total(Held(accounts'[u])) = Total(Held(accounts[u]))
  BY <1>1
<1> QED
  BY <1>2, <1>3, UnitsMoved

\* A step that changes the supply of one token together with its rows.
LEMMA SupplyMoved ==
  ASSUME IInv, NEW t \in Token, NEW new \in Sheet, NEW s \in Stat,
         s.supply = Total(Held(new)),
         s.supply <= s.max_supply, s.max_supply <= MaxAmount,
         ~s.exists => s.supply = 0,
         accounts' = [accounts EXCEPT ![t] = new],
         stat' = [stat EXCEPT ![t] = s]
  PROVE  /\ stat' \in [Token -> Stat]
         /\ accounts' \in [Token -> [Owner -> Row]]
         /\ Conservation' /\ ClosedEmpty' /\ Unminted'
<1>1. /\ stat \in [Token -> Stat]
      /\ accounts \in [Token -> [Owner -> Row]]
      /\ \A u \in Token : accounts[u] \in Sheet
  BY DEF IInv, TypeOK, ClosedEmpty
<1>2. stat' \in [Token -> Stat] /\ accounts' \in [Token -> [Owner -> Row]]
  BY <1>1 DEF Sheet
<1>3. /\ stat'[t] = s /\ accounts'[t] = new
      /\ \A u \in Token \ {t} : stat'[u] = stat[u] /\ accounts'[u] = accounts[u]
  BY <1>1
<1>4. Conservation'
  BY <1>3 DEF IInv, Conservation
<1>5. ClosedEmpty'
  BY <1>1, <1>3 DEF ClosedEmpty
<1>6. Unminted'
  BY <1>3 DEF IInv, Unminted
<1> QED
  BY <1>2, <1>4, <1>5, <1>6

\* The facts about one token that the steps below start from.
LEMMA TokenFacts ==
  ASSUME IInv, NEW t \in Token
  PROVE  /\ accounts[t] \in Sheet
         /\ stat[t] \in Stat
         /\ Total(Held(accounts[t])) \in Nat
         /\ stat[t].supply = Total(Held(accounts[t]))
         /\ stat[t].supply <= stat[t].max_supply
         /\ stat[t].max_supply <= MaxAmount
         /\ MaxAmount \in Nat
<1>1. accounts[t] \in Sheet /\ stat[t] \in Stat
  BY DEF IInv, TypeOK, ClosedEmpty
<1>2. Total(Held(accounts[t])) \in Nat
  BY <1>1, HeldBound, ChainAssumption
<1> QED
  BY <1>1, <1>2, ChainAssumption DEF IInv, Conservation

LEMMA PositiveValue ==
  ASSUME NEW v \in Value, Positive(v)
  PROVE  v.amount \in Nat /\ v.amount > 0 /\ v.amount <= MaxAmount
  BY ChainAssumption DEF Positive, Value

-----------------------------------------------------------------------------
(* The steps of the token table.                                            *)

LEMMA CreateStep ==
  ASSUME IInv, NEW t \in Token, NEW v \in Values, NEW c \in MintOptions, NEW auth,
         Create(t, v, c, auth)
  PROVE  IInv'
<1> DEFINE opts == WithFlags({"mintable", "recallable", "freezable"}, c.flags)
           s == stat'[t]
<1>1. v \in Value /\ Positive(v) /\ ~stat[t].exists
  BY CallAssumption DEF Create
<1>2. v.amount \in Nat /\ v.amount <= MaxAmount /\ v.prec \in Precision
  BY <1>1, PositiveValue DEF Value
<1>3. /\ s \in Stat
      /\ s.supply = 0 /\ s.max_supply = v.amount /\ s.exists
      /\ stat' = [stat EXCEPT ![t] = s]
  <2>1. stat \in [Token -> Stat]
    BY DEF IInv, TypeOK
  <2>2. opts \in SUBSET Option
    BY DEF WithFlags
  <2>3. c.min \in Int /\ c.delay \in Nat \cup {None}
    BY CallAssumption
  <2>4. DefaultDelay \in Nat /\ TimeMod \in Nat \ {0}
    BY ChainAssumption
  <2> DEFINE amount == IF "recallable" \in opts
                       THEN IF c.min # None THEN c.min ELSE 0 ELSE 0
             delay == IF c.delay # None THEN c.delay ELSE DefaultDelay
             duration == IF "recallable" \in opts THEN delay % TimeMod ELSE 0
  <2>5. c.min >= 0 \/ c.min = None
    BY DEF Create
  <2>6. amount \in Nat
    BY <2>3, <2>5 DEF None
  <2>7. delay \in Nat
    BY <2>3, <2>4 DEF None
  <2>8. duration \in Nat
    <3> HIDE DEF delay
    <3> QED
      BY <2>4, <2>7
  <2>9. stat' = [stat EXCEPT ![t] =
                   [exists |-> TRUE, supply |-> 0, max_supply |-> v.amount,
                    opts |-> opts, prec |-> v.prec,
                    amount |-> amount, duration |-> duration]]
    BY DEF Create
  <2> HIDE DEF opts, amount, delay, duration
  <2> QED
    BY <1>2, <2>1, <2>2, <2>6, <2>8, <2>9 DEF Stat
<1>4. UNCHANGED <<accounts, requests, allowances, deferred, now>>
  BY DEF Create
<1>5. /\ accounts[t] \in Sheet
      /\ s.supply = Total(Held(accounts[t]))
      /\ s.supply <= s.max_supply
      /\ s.max_supply <= MaxAmount
      /\ ~s.exists => s.supply = 0
  <2>1. stat[t].supply = 0
    BY <1>1 DEF IInv, Unminted
  <2> QED
    BY <1>2, <1>3, <2>1, TokenFacts
<1>6. accounts' = [accounts EXCEPT ![t] = accounts[t]]
  BY <1>4 DEF IInv, TypeOK
<1> HIDE DEF s
<1>7. /\ stat' \in [Token -> Stat]
      /\ accounts' \in [Token -> [Owner -> Row]]
      /\ Conservation' /\ ClosedEmpty' /\ Unminted'
  BY <1>3, <1>5, <1>6, SupplyMoved, Zenon
<1> QED
  BY <1>4, <1>7 DEF IInv, TypeOK

LEMMA MintMoreStep ==
  ASSUME IInv, NEW t \in Token, NEW v \in Values, NEW flags, NEW auth,
         MintMore(t, v, flags, auth)
  PROVE  IInv'
<1> DEFINE opts == WithFlags(stat[t].opts, flags)
           s == [stat[t] EXCEPT !.max_supply = @ + v.amount, !.opts = opts]
<1>1. v \in Value /\ Positive(v) /\ stat[t].max_supply + v.amount <= MaxAmount
  BY CallAssumption DEF MintMore
<1>2. v.amount \in Nat
  BY <1>1, PositiveValue
<1>3. opts \in SUBSET Option
  BY DEF WithFlags
<1>4. stat \in [Token -> Stat] /\ accounts \in [Token -> [Owner -> Row]]
  BY DEF IInv, TypeOK
<1>5. /\ stat' = [stat EXCEPT ![t].max_supply = @ + v.amount, ![t].opts = opts]
      /\ stat[t].exists
      /\ UNCHANGED <<accounts, requests, allowances, deferred, now>>
  BY DEF MintMore
<1> HIDE DEF opts
<1>6. stat' = [stat EXCEPT ![t] = s]
  BY <1>4, <1>5
<1>7. /\ s \in Stat
      /\ s.supply = stat[t].supply
      /\ s.exists = stat[t].exists
      /\ s.max_supply = stat[t].max_supply + v.amount
  <2>1. stat[t] \in Stat /\ stat[t].max_supply + v.amount \in Nat
    BY <1>2, <1>4 DEF Stat
  <2> QED
    BY <1>3, <2>1 DEF Stat
<1> HIDE DEF s
<1>8. accounts' = [accounts EXCEPT ![t] = accounts[t]]
  BY <1>4, <1>5
<1>9. /\ accounts[t] \in Sheet
      /\ s.supply = Total(Held(accounts[t]))
      /\ s.supply <= s.max_supply
      /\ s.max_supply <= MaxAmount
      /\ ~s.exists => s.supply = 0
  BY <1>1, <1>2, <1>5, <1>7, TokenFacts DEF Stat
<1>10. /\ stat' \in [Token -> Stat]
       /\ accounts' \in [Token -> [Owner -> Row]]
       /\ Conservation' /\ ClosedEmpty' /\ Unminted'
  BY <1>6, <1>7, <1>8, <1>9, SupplyMoved, Zenon
<1> QED
  BY <1>5, <1>10 DEF IInv, TypeOK

LEMMA SetOptsStep ==
  ASSUME IInv, NEW t \in Token, NEW flags, NEW auth, SetOpts(t, flags, auth)
  PROVE  IInv'
<1> DEFINE opts == WithFlags(stat[t].opts, flags)
<1>1. /\ stat' = [stat EXCEPT ![t].opts = opts]
      /\ UNCHANGED <<accounts, requests, allowances, deferred, now>>
  BY DEF SetOpts
<1>2. opts \in SUBSET Option
  BY DEF WithFlags
<1> HIDE DEF opts
<1>3. stat \in [Token -> Stat]
  BY DEF IInv, TypeOK
<1>4. stat' \in [Token -> Stat]
  BY <1>1, <1>2, <1>3 DEF Stat
<1>5. \A u \in Token : /\ stat'[u].exists = stat[u].exists
                       /\ stat'[u].supply = stat[u].supply
                       /\ stat'[u].max_supply = stat[u].max_supply
  BY <1>1, <1>3 DEF Stat
<1>6. Conservation' /\ ClosedEmpty' /\ Unminted'
  BY <1>1, <1>5 DEF IInv, Conservation, ClosedEmpty, Unminted
<1> QED
  BY <1>1, <1>4, <1>6 DEF IInv, TypeOK

LEMMA IssueStep ==
  ASSUME IInv, NEW t \in Token, NEW to \in Owner, NEW v \in Values, NEW auth,
         Issue(t, to, v, auth)
  PROVE  IInv'
<1> DEFINE acc == accounts[t]
           s == [stat[t] EXCEPT !.supply = @ + v.amount]
           new == accounts'[t]
<1>1. v \in Value /\ Positive(v) /\ stat[t].exists
  BY CallAssumption DEF Issue
<1>2. v.amount \in Nat
  BY <1>1, PositiveValue
<1>3. stat \in [Token -> Stat] /\ accounts \in [Token -> [Owner -> Row]]
  BY DEF IInv, TypeOK
<1>4. /\ stat' = [stat EXCEPT ![t] = s]
      /\ \/ accounts' = [accounts EXCEPT ![t] = AddDeposit(t, acc, to, v)]
         \/ accounts' = [accounts EXCEPT ![t] = AddBalance(t, acc, to, v)]
      /\ v.amount <= stat[t].max_supply - stat[t].supply
      /\ UNCHANGED <<requests, allowances, deferred, now>>
  BY <1>3 DEF Issue, Issuable
<1>5. accounts' = [accounts EXCEPT ![t] = new]
  BY <1>3, <1>4
<1>6. /\ acc \in Sheet /\ stat[t] \in Stat
      /\ Total(Held(acc)) \in Nat /\ stat[t].supply = Total(Held(acc))
      /\ stat[t].max_supply <= MaxAmount
  BY TokenFacts
<1> HIDE DEF acc
<1>7. new \in Sheet /\ Total(Held(new)) = Total(Held(acc)) + v.amount
  <2>1. new = AddDeposit(t, acc, to, v) \/ new = AddBalance(t, acc, to, v)
    BY <1>3, <1>4
  <2> HIDE DEF new
  <2> QED
    BY <1>1, <1>2, <1>6, <2>1, AddLaw
<1>8. /\ s \in Stat
      /\ s.supply = stat[t].supply + v.amount
      /\ s.exists = stat[t].exists
      /\ s.max_supply = stat[t].max_supply
  <2>1. stat[t].supply + v.amount \in Nat
    BY <1>2, <1>6 DEF Stat
  <2> QED
    BY <1>6, <2>1 DEF Stat
<1> HIDE DEF s, new
<1>9. /\ s.supply = Total(Held(new))
      /\ s.supply <= s.max_supply
      /\ s.max_supply <= MaxAmount
      /\ ~s.exists => s.supply = 0
  BY <1>1, <1>2, <1>4, <1>6, <1>7, <1>8 DEF Stat
<1>10. /\ stat' \in [Token -> Stat]
       /\ accounts' \in [Token -> [Owner -> Row]]
       /\ Conservation' /\ ClosedEmpty' /\ Unminted'
  BY <1>4, <1>5, <1>7, <1>8, <1>9, SupplyMoved, Zenon
<1> QED
  BY <1>4, <1>10 DEF IInv, TypeOK

LEMMA RetireStep ==
  ASSUME IInv, NEW t \in Token, NEW from \in Owner, NEW v \in Values, NEW auth,
         Retire(t, from, v, auth)
  PROVE  IInv'
<1> DEFINE acc == accounts[t]
           s == [stat[t] EXCEPT !.supply = @ - v.amount]
           new == accounts'[t]
<1>1. v \in Value /\ Positive(v) /\ stat[t].exists
  BY CallAssumption DEF Retire
<1>2. v.amount \in Nat
  BY <1>1, PositiveValue
<1>3. stat \in [Token -> Stat] /\ accounts \in [Token -> [Owner -> Row]]
  BY DEF IInv, TypeOK
<1>4. /\ stat' = [stat EXCEPT ![t] = s]
      /\ \/ /\ accounts' = [accounts EXCEPT ![t] = SubBalance(acc, from, v)]
            /\ CanSubBalance(t, acc, from, v)
         \/ /\ accounts' = [accounts EXCEPT ![t] = SubDeposit(acc, from, v, FALSE)]
            /\ CanSubDeposit(t, acc, from, v, FALSE)
      /\ UNCHANGED <<requests, allowances, deferred, now>>
  BY <1>3 DEF Retire
<1>5. accounts' = [accounts EXCEPT ![t] = new]
  BY <1>3, <1>4
<1>6. /\ acc \in Sheet /\ stat[t] \in Stat
      /\ Total(Held(acc)) \in Nat /\ stat[t].supply = Total(Held(acc))
      /\ stat[t].supply <= stat[t].max_supply
      /\ stat[t].max_supply <= MaxAmount
  BY TokenFacts
<1> HIDE DEF acc
<1>7. new \in Sheet /\ Total(Held(new)) = Total(Held(acc)) - v.amount
  <2>1. CASE /\ new = SubBalance(acc, from, v)
             /\ CanSubBalance(t, acc, from, v)
    BY <1>1, <1>2, <1>6, <2>1, SubBalanceLaw
  <2>2. CASE /\ new = SubDeposit(acc, from, v, FALSE)
             /\ CanSubDeposit(t, acc, from, v, FALSE)
    <3>1. FALSE \in BOOLEAN
      OBVIOUS
    <3> HIDE DEF new
    <3> QED
      BY <1>1, <1>2, <1>6, <2>2, <3>1, SubDepositLaw, Zenon
  <2> QED
    BY <1>3, <1>4, <2>1, <2>2
<1>8. Total(Held(new)) \in Nat
  BY <1>7, HeldBound, ChainAssumption
<1>9. /\ s \in Stat
      /\ s.supply = stat[t].supply - v.amount
      /\ s.exists = stat[t].exists
      /\ s.max_supply = stat[t].max_supply
  <2>1. stat[t].supply - v.amount \in Nat
    BY <1>6, <1>7, <1>8
  <2> QED
    BY <1>6, <2>1 DEF Stat
<1> HIDE DEF s, new
<1>10. /\ s.supply = Total(Held(new))
       /\ s.supply <= s.max_supply
       /\ s.max_supply <= MaxAmount
       /\ ~s.exists => s.supply = 0
  BY <1>1, <1>2, <1>6, <1>7, <1>9 DEF Stat
<1>11. /\ stat' \in [Token -> Stat]
       /\ accounts' \in [Token -> [Owner -> Row]]
       /\ Conservation' /\ ClosedEmpty' /\ Unminted'
  BY <1>4, <1>5, <1>7, <1>9, <1>10, SupplyMoved, Zenon
<1> QED
  BY <1>4, <1>11 DEF IInv, TypeOK

LEMMA BurnStep ==
  ASSUME IInv, NEW t \in Token, NEW owner \in Owner, NEW v \in Values, NEW auth,
         Burn(t, owner, v, auth)
  PROVE  IInv'
<1> DEFINE acc == accounts[t]
           new == SubBalance(acc, owner, v)
           s == [stat[t] EXCEPT !.supply = @ - v.amount,
                                !.max_supply = @ - v.amount]
<1>1. v \in Value /\ Positive(v) /\ stat[t].exists /\ CanSubBalance(t, acc, owner, v)
  BY CallAssumption DEF Burn
<1>2. v.amount \in Nat
  BY <1>1, PositiveValue
<1>3. stat \in [Token -> Stat] /\ accounts \in [Token -> [Owner -> Row]]
  BY DEF IInv, TypeOK
<1>4. /\ stat' = [stat EXCEPT ![t] = s]
      /\ accounts' = [accounts EXCEPT ![t] = new]
      /\ UNCHANGED <<requests, allowances, deferred, now>>
  BY <1>3 DEF Burn
<1>5. /\ acc \in Sheet /\ stat[t] \in Stat
      /\ Total(Held(acc)) \in Nat /\ stat[t].supply = Total(Held(acc))
      /\ stat[t].supply <= stat[t].max_supply
      /\ stat[t].max_supply <= MaxAmount
  BY TokenFacts
<1> HIDE DEF acc
<1>6. new \in Sheet /\ Total(Held(new)) = Total(Held(acc)) - v.amount
  BY <1>1, <1>2, <1>5, SubBalanceLaw
<1>7. Total(Held(new)) \in Nat
  BY <1>6, HeldBound, ChainAssumption
<1>8. /\ s \in Stat
      /\ s.supply = stat[t].supply - v.amount
      /\ s.exists = stat[t].exists
      /\ s.max_supply = stat[t].max_supply - v.amount
  <2>1. stat[t].supply - v.amount \in Nat /\ stat[t].max_supply - v.amount \in Nat
    BY <1>2, <1>5, <1>6, <1>7 DEF Stat
  <2> QED
    BY <1>5, <2>1 DEF Stat
<1> HIDE DEF s, new
<1>9. /\ s.supply = Total(Held(new))
      /\ s.supply <= s.max_supply
      /\ s.max_supply <= MaxAmount
      /\ ~s.exists => s.supply = 0
  <2>1. MaxAmount \in Nat
    BY ChainAssumption
  <2> QED
    BY <1>1, <1>2, <1>5, <1>6, <1>8, <2>1 DEF Stat
<1>10. /\ stat' \in [Token -> Stat]
       /\ accounts' \in [Token -> [Owner -> Row]]
       /\ Conservation' /\ ClosedEmpty' /\ Unminted'
  BY <1>4, <1>6, <1>8, <1>9, SupplyMoved, Zenon
<1> QED
  BY <1>4, <1>10 DEF IInv, TypeOK

-----------------------------------------------------------------------------
(* The steps of the account and allowance tables.                           *)

LEMMA OpenStep ==
  ASSUME IInv, NEW t \in Token, NEW o \in Owner, NEW auth, Open(t, o, auth)
  PROVE  IInv'
<1> DEFINE row == OpenRow(t, Is(t, "whitelist_on") /\ Issuer[t] \in auth, stat[t].prec)
           new == [accounts[t] EXCEPT ![o] = row]
<1>1. accounts[t] \in Sheet /\ stat[t] \in Stat
  BY TokenFacts
<1>2. row \in Row /\ row.balance = 0 /\ row.deposit = 0
  <2>1. (Is(t, "whitelist_on") /\ Issuer[t] \in auth) \in BOOLEAN
    BY DEF Is
  <2>2. stat[t].prec \in Precision
    BY <1>1 DEF Stat
  <2> QED
    BY <2>1, <2>2, OpenRowType
<1>3. accounts[t][o].balance = 0 /\ accounts[t][o].deposit = 0
  BY <1>1 DEF Open, Sheet
<1>4. /\ accounts' = [accounts EXCEPT ![t] = new]
      /\ UNCHANGED <<stat, requests, allowances, deferred, now>>
  BY DEF Open, IInv, TypeOK
<1> HIDE DEF row
<1>5. /\ new \in Sheet
      /\ new[o].balance = 0 /\ new[o].deposit = 0
      /\ \A x \in Owner \ {o} : new[x] = accounts[t][x]
  BY <1>1, <1>2 DEF Sheet
<1> HIDE DEF new
<1>6. Total(Held(new)) = Total(Held(accounts[t]))
  <2>1. Total(Held(new)) = Total(Held(accounts[t]))
                             - (accounts[t][o].balance + accounts[t][o].deposit)
                             + (new[o].balance + new[o].deposit)
    BY <1>1, <1>5, HeldUpdate
  <2> QED
    BY <1>3, <1>5, <2>1, TokenFacts
<1>7. /\ stat' \in [Token -> Stat]
      /\ accounts' \in [Token -> [Owner -> Row]]
      /\ Conservation' /\ ClosedEmpty' /\ Unminted'
  BY <1>4, <1>5, <1>6, RowsMoved, Zenon
<1> QED
  BY <1>4, <1>7 DEF IInv, TypeOK

LEMMA CloseStep ==
  ASSUME IInv, NEW t \in Token, NEW o \in Owner, NEW auth, Close(t, o, auth)
  PROVE  IInv'
<1> DEFINE new == [accounts[t] EXCEPT ![o] = NoRow]
<1>1. accounts[t] \in Sheet
  BY TokenFacts
<1>2. /\ accounts[t][o].balance = 0 /\ accounts[t][o].deposit = 0
      /\ accounts' = [accounts EXCEPT ![t] = new]
      /\ UNCHANGED <<stat, requests, allowances, deferred, now>>
  BY DEF Close, IInv, TypeOK
<1>3. /\ new \in Sheet
      /\ new[o].balance = 0 /\ new[o].deposit = 0
      /\ \A x \in Owner \ {o} : new[x] = accounts[t][x]
  BY <1>1, NoRowType DEF Sheet
<1> HIDE DEF new
<1>4. Total(Held(new)) = Total(Held(accounts[t]))
  <2>1. Total(Held(new)) = Total(Held(accounts[t]))
                             - (accounts[t][o].balance + accounts[t][o].deposit)
                             + (new[o].balance + new[o].deposit)
    BY <1>1, <1>3, HeldUpdate
  <2> QED
    BY <1>2, <1>3, <2>1, TokenFacts
<1>5. /\ stat' \in [Token -> Stat]
      /\ accounts' \in [Token -> [Owner -> Row]]
      /\ Conservation' /\ ClosedEmpty' /\ Unminted'
  BY <1>2, <1>3, <1>4, RowsMoved, Zenon
<1> QED
  BY <1>2, <1>5 DEF IInv, TypeOK

LEMMA SetAcntsOptsStep ==
  ASSUME IInv, NEW t \in Token, NEW os, NEW flags \in RowOptionLists, NEW auth,
         SetAcntsOpts(t, os, flags, auth)
  PROVE  IInv'
<1> DEFINE acc == accounts[t]
           new == [o \in Owner |->
                     IF o \in os
                     THEN [acc[o] EXCEPT !.frozen = Set(flags, "frozen", @),
                                         !.whitelist = Set(flags, "whitelist", @)]
                     ELSE acc[o]]
<1>1. acc \in Sheet
  BY TokenFacts
<1>2. /\ accounts' = [accounts EXCEPT ![t] = new]
      /\ UNCHANGED <<stat, requests, allowances, deferred, now>>
  BY DEF SetAcntsOpts
<1> HIDE DEF acc
<1>3. ASSUME NEW o \in Owner
      PROVE  /\ Set(flags, "frozen", acc[o].frozen) \in BOOLEAN
             /\ Set(flags, "whitelist", acc[o].whitelist) \in BOOLEAN
  <2>1. acc[o].frozen \in BOOLEAN /\ acc[o].whitelist \in BOOLEAN
    BY <1>1 DEF Sheet, Row
  <2>2. \A n \in DOMAIN flags : flags[n] \in BOOLEAN
    BY CallAssumption
  <2> QED
    BY <2>1, <2>2, Zenon DEF Set
<1>4. /\ new \in Sheet
      /\ \A o \in Owner : /\ new[o].balance = acc[o].balance
                          /\ new[o].deposit = acc[o].deposit
  BY <1>1, <1>3 DEF Sheet, Row
<1> HIDE DEF new
<1>5. Held(new) = Held(acc)
  BY <1>1, <1>4 DEF Held, Sheet
<1>6. /\ stat' \in [Token -> Stat]
      /\ accounts' \in [Token -> [Owner -> Row]]
      /\ Conservation' /\ ClosedEmpty' /\ Unminted'
  BY <1>2, <1>4, <1>5, RowsMoved, Zenon DEF acc
<1> QED
  BY <1>2, <1>6 DEF IInv, TypeOK

LEMMA ApproveStep ==
  ASSUME IInv, NEW t \in Token, NEW owner \in Owner, NEW spender \in Spenders,
         NEW v \in Values, NEW auth, Approve(t, owner, spender, v, auth)
  PROVE  IInv'
<1> DEFINE left == IF v.amount > 0 THEN v ELSE NoAllowance
<1>1. /\ v \in Value /\ v.amount \in 0 .. MaxAmount /\ MaxAmount \in Nat
      /\ allowances' = [allowances EXCEPT ![t][owner][spender] = left]
      /\ UNCHANGED <<stat, accounts, requests, deferred, now>>
  BY CallAssumption, ChainAssumption DEF Approve
<1>2. left \in Allowance
  BY <1>1, NoRowType DEF Value, Allowance, NoAllowance
<1> HIDE DEF left
<1>3. allowances' \in [Token -> [Owner -> [Spenders -> Allowance]]]
  BY <1>1, <1>2 DEF IInv, TypeOK
<1> QED
  BY <1>1, <1>3 DEF IInv, TypeOK, Conservation, ClosedEmpty, Unminted

-----------------------------------------------------------------------------
(* The steps that move units between accounts.                              *)

\* A payment out of one balance and into another keeps the total.
LEMMA MoveLaw ==
  ASSUME NEW t, NEW acc \in Sheet, NEW from \in Owner, NEW to \in Owner,
         NEW v \in Value, v.amount \in Nat, CanSubBalance(t, acc, from, v)
  PROVE  /\ AddBalance(t, SubBalance(acc, from, v), to, v) \in Sheet
         /\ Total(Held(AddBalance(t, SubBalance(acc, from, v), to, v)))
              = Total(Held(acc))
         /\ AddDeposit(t, SubBalance(acc, from, v), to, v) \in Sheet
         /\ Total(Held(AddDeposit(t, SubBalance(acc, from, v), to, v)))
              = Total(Held(acc))
<1> DEFINE paid == SubBalance(acc, from, v)
<1>1. paid \in Sheet /\ Total(Held(paid)) = Total(Held(acc)) - v.amount
  BY SubBalanceLaw
<1> HIDE DEF paid
<1>2. /\ AddBalance(t, paid, to, v) \in Sheet
      /\ AddDeposit(t, paid, to, v) \in Sheet
      /\ Total(Held(AddBalance(t, paid, to, v))) = Total(Held(paid)) + v.amount
      /\ Total(Held(AddDeposit(t, paid, to, v))) = Total(Held(paid)) + v.amount
  BY <1>1, AddLaw
<1>3. Total(Held(acc)) \in Nat
  BY HeldBound
<1>4. /\ AddBalance(t, paid, to, v) \in Sheet
      /\ Total(Held(AddBalance(t, paid, to, v))) = Total(Held(acc))
      /\ AddDeposit(t, paid, to, v) \in Sheet
      /\ Total(Held(AddDeposit(t, paid, to, v))) = Total(Held(acc))
  BY <1>1, <1>2, <1>3
<1> QED
  BY <1>4 DEF paid

\* A payment out of a deposit and into a balance keeps the total.
LEMMA WithdrawLaw ==
  ASSUME NEW t, NEW acc \in Sheet, NEW from \in Owner, NEW to \in Owner,
         NEW v \in Value, v.amount \in Nat, NEW keep \in BOOLEAN,
         CanSubDeposit(t, acc, from, v, keep)
  PROVE  /\ AddBalance(t, SubDeposit(acc, from, v, keep), to, v) \in Sheet
         /\ Total(Held(AddBalance(t, SubDeposit(acc, from, v, keep), to, v)))
              = Total(Held(acc))
<1> DEFINE taken == SubDeposit(acc, from, v, keep)
<1>1. taken \in Sheet /\ Total(Held(taken)) = Total(Held(acc)) - v.amount
  BY SubDepositLaw, Zenon
<1> HIDE DEF taken
<1>2. /\ AddBalance(t, taken, to, v) \in Sheet
      /\ Total(Held(AddBalance(t, taken, to, v))) = Total(Held(taken)) + v.amount
  BY <1>1, AddLaw
<1>3. Total(Held(acc)) \in Nat
  BY HeldBound
<1>4. /\ AddBalance(t, taken, to, v) \in Sheet
      /\ Total(Held(AddBalance(t, taken, to, v))) = Total(Held(acc))
  BY <1>1, <1>2, <1>3
<1> QED
  BY <1>4 DEF taken

LEMMA MoveBalanceLaw ==
  ASSUME IInv, NEW t \in Token, NEW from \in Owner, NEW to \in Owner,
         NEW v \in Value, v.amount \in Nat, NEW auth,
         MoveBalance(t, from, to, v, auth), stat' = stat
  PROVE  /\ stat' \in [Token -> Stat]
         /\ accounts' \in [Token -> [Owner -> Row]]
         /\ Conservation' /\ ClosedEmpty' /\ Unminted'
<1> DEFINE new == AddBalance(t, SubBalance(accounts[t], from, v), to, v)
<1>1. /\ CanSubBalance(t, accounts[t], from, v)
      /\ accounts' = [accounts EXCEPT ![t] = new]
  BY DEF MoveBalance
<1>2. accounts[t] \in Sheet
  BY TokenFacts
<1>3. new \in Sheet /\ Total(Held(new)) = Total(Held(accounts[t]))
  BY <1>1, <1>2, MoveLaw
<1> HIDE DEF new
<1> QED
  BY <1>1, <1>3, RowsMoved, Zenon

LEMMA TransferStep ==
  ASSUME IInv, NEW t \in Token, NEW from \in Owner, NEW to \in Owner,
         NEW v \in Values, NEW auth, Transfer(t, from, to, v, auth)
  PROVE  IInv'
<1>1. v \in Value /\ Positive(v)
  BY CallAssumption DEF Transfer, Transferable
<1>2. v.amount \in Nat
  BY <1>1, PositiveValue
<1>3. /\ MoveBalance(t, from, to, v, auth)
      /\ UNCHANGED <<stat, requests, allowances, deferred, now>>
  BY DEF Transfer
<1>4. /\ stat' \in [Token -> Stat]
      /\ accounts' \in [Token -> [Owner -> Row]]
      /\ Conservation' /\ ClosedEmpty' /\ Unminted'
  BY <1>1, <1>2, <1>3, MoveBalanceLaw
<1> QED
  BY <1>3, <1>4 DEF IInv, TypeOK

LEMMA TransferAllowedStep ==
  ASSUME IInv, NEW t \in Token, NEW from \in Owner, NEW to \in Spenders,
         NEW v \in Values, NEW auth, TransferAllowed(t, from, to, v, auth)
  PROVE  IInv'
<1> DEFINE left == allowances[t][from][to]
<1>1. v \in Value /\ Positive(v) /\ to \in Owner
  BY CallAssumption DEF TransferAllowed, Transferable
<1>2. v.amount \in Nat
  BY <1>1, PositiveValue
<1>3. /\ MoveBalance(t, from, to, v, auth)
      /\ v.amount <= left.amount
      /\ allowances' = [allowances EXCEPT ![t][from][to] = Spent(left, v)]
      /\ UNCHANGED <<stat, requests, deferred, now>>
  BY DEF TransferAllowed
<1>4. left \in Allowance
  BY DEF IInv, TypeOK
<1> HIDE DEF left
<1>5. Spent(left, v) \in Allowance
  <2>1. left.amount - v.amount \in Nat
    BY <1>2, <1>3, <1>4 DEF Allowance
  <2> QED
    BY <1>4, <2>1, NoRowType DEF Spent, Allowance, NoAllowance
<1>6. allowances' \in [Token -> [Owner -> [Spenders -> Allowance]]]
  BY <1>3, <1>5 DEF IInv, TypeOK
<1>7. /\ stat' \in [Token -> Stat]
      /\ accounts' \in [Token -> [Owner -> Row]]
      /\ Conservation' /\ ClosedEmpty' /\ Unminted'
  BY <1>1, <1>2, <1>3, MoveBalanceLaw
<1> QED
  BY <1>3, <1>6, <1>7 DEF IInv, TypeOK

LEMMA RecallStep ==
  ASSUME IInv, NEW t \in Token, NEW from \in Owner, NEW to \in Owner,
         NEW v \in Values, NEW auth, Recall(t, from, to, v, auth)
  PROVE  IInv'
<1> DEFINE keep == FALSE
           new == AddBalance(t, SubDeposit(accounts[t], from, v, keep), to, v)
<1>1. v \in Value /\ Positive(v)
  BY CallAssumption DEF Recall, Transferable
<1>2. v.amount \in Nat
  BY <1>1, PositiveValue
<1>3. /\ CanSubDeposit(t, accounts[t], from, v, keep)
      /\ accounts' = [accounts EXCEPT ![t] = new]
      /\ UNCHANGED <<stat, requests, allowances, deferred, now>>
  BY DEF Recall
<1>4. accounts[t] \in Sheet /\ keep \in BOOLEAN
  BY TokenFacts
<1> HIDE DEF keep
<1>5. new \in Sheet /\ Total(Held(new)) = Total(Held(accounts[t]))
  BY <1>1, <1>2, <1>3, <1>4, WithdrawLaw
<1> HIDE DEF new
<1>6. /\ stat' \in [Token -> Stat]
      /\ accounts' \in [Token -> [Owner -> Row]]
      /\ Conservation' /\ ClosedEmpty' /\ Unminted'
  BY <1>3, <1>5, RowsMoved, Zenon
<1> QED
  BY <1>3, <1>6 DEF IInv, TypeOK

LEMMA DepositStep ==
  ASSUME IInv, NEW t \in Token, NEW from \in Owner, NEW v \in Values, NEW auth,
         Deposit(t, from, v, auth)
  PROVE  IInv'
<1> DEFINE new == AddDeposit(t, SubBalance(accounts[t], from, v), from, v)
<1>1. v \in Value /\ Positive(v)
  BY CallAssumption DEF Deposit
<1>2. v.amount \in Nat
  BY <1>1, PositiveValue
<1>3. /\ CanSubBalance(t, accounts[t], from, v)
      /\ accounts' = [accounts EXCEPT ![t] = new]
      /\ UNCHANGED <<stat, requests, allowances, deferred, now>>
  BY DEF Deposit
<1>4. accounts[t] \in Sheet
  BY TokenFacts
<1>5. new \in Sheet /\ Total(Held(new)) = Total(Held(accounts[t]))
  BY <1>1, <1>2, <1>3, <1>4, MoveLaw
<1> HIDE DEF new
<1>6. /\ stat' \in [Token -> Stat]
      /\ accounts' \in [Token -> [Owner -> Row]]
      /\ Conservation' /\ ClosedEmpty' /\ Unminted'
  BY <1>3, <1>5, RowsMoved, Zenon
<1> QED
  BY <1>3, <1>6 DEF IInv, TypeOK

-----------------------------------------------------------------------------
(* The steps that touch a request.                                          *)

\* A step that refreshes the schedule of an owner, in tables that hold the
\* totals of the accounts as they are.
LEMMA RefreshStep ==
  ASSUME IInv, NEW accs \in [Token -> Sheet],
         \A t \in Token : Total(Held(accs[t])) = Total(Held(accounts[t])),
         NEW reqs \in [Owner -> [Token -> Request]], NEW o \in Owner, NEW auth,
         RefreshSchedule(accs, reqs, o, auth),
         UNCHANGED <<stat, allowances, now>>
  PROVE  IInv'
<1>1. TypeOK
  BY DEF IInv
<1>2. /\ accounts' \in [Token -> Sheet]
      /\ \A t \in Token : Total(Held(accounts'[t])) = Total(Held(accs[t]))
      /\ requests' \in [Owner -> [Token -> Request]]
      /\ deferred' \in [Owner -> Nat \cup {None}]
  BY <1>1, RefreshLaw
<1>3. \A t \in Token : Total(Held(accounts'[t])) = Total(Held(accounts[t]))
  BY <1>2
<1>4. /\ stat' \in [Token -> Stat]
      /\ accounts' \in [Token -> [Owner -> Row]]
      /\ Conservation' /\ ClosedEmpty' /\ Unminted'
  BY <1>2, <1>3, UnitsMoved
<1> QED
  BY <1>2, <1>4 DEF IInv, TypeOK

\* One token's rows replaced by rows of the same total.
LEMMA SheetsUpdated ==
  ASSUME IInv, NEW t \in Token, NEW new \in Sheet,
         Total(Held(new)) = Total(Held(accounts[t]))
  PROVE  /\ [accounts EXCEPT ![t] = new] \in [Token -> Sheet]
         /\ \A u \in Token : Total(Held([accounts EXCEPT ![t] = new][u]))
                              = Total(Held(accounts[u]))
<1>1. accounts \in [Token -> [Owner -> Row]] /\ \A u \in Token : accounts[u] \in Sheet
  BY DEF IInv, TypeOK, ClosedEmpty
<1> QED
  BY <1>1

LEMMA RecallPendingStep ==
  ASSUME IInv, NEW t \in Token, NEW from \in Owner, NEW to \in Owner,
         NEW v \in Values, NEW auth, RecallPending(t, from, to, v, auth)
  PROVE  IInv'
<1> DEFINE acc == accounts[t]
           keep == FALSE
           rest == [amount |-> acc[from].deposit, prec |-> v.prec]
           leftover == [amount |-> v.amount - acc[from].deposit, prec |-> v.prec]
           uncustodied == SubBalance(acc, TokenContract, leftover)
           taken == SubDeposit(uncustodied, from, rest, keep)
           new == AddBalance(t, taken, to, v)
           given == [accounts EXCEPT ![t] = new]
           asked == requests[from][t].amount
<1>1. v \in Value /\ Positive(v)
  BY CallAssumption DEF RecallPending, Transferable
<1>2. v.amount \in Nat /\ v.prec \in Precision
  BY <1>1, PositiveValue DEF Value
<1>3. /\ leftover.amount > 0 /\ leftover.amount <= asked
      /\ CanSubBalance(t, acc, TokenContract, leftover)
      /\ CanSubDeposit(t, uncustodied, from, rest, keep)
      /\ UNCHANGED <<stat, allowances, now>>
      /\ \/ /\ leftover.amount < asked
            /\ accounts' = given
            /\ requests' = [requests EXCEPT ![from][t].amount = @ - leftover.amount]
            /\ UNCHANGED deferred
         \/ RefreshSchedule(given, Erase(requests, from, {t}), from, {from})
  BY DEF RecallPending
<1>4. acc \in Sheet /\ keep \in BOOLEAN /\ Total(Held(acc)) \in Nat
  BY TokenFacts
<1>5. TokenContract \in Owner
  BY ChainAssumption
<1> HIDE DEF keep
<1>6. acc[from].deposit \in Nat
  BY <1>4, HeldBound
<1>7. /\ rest \in Value /\ rest.amount \in Nat
      /\ leftover \in Value /\ leftover.amount \in Nat
      /\ rest.amount + leftover.amount = v.amount
  BY <1>2, <1>3, <1>6 DEF Value
<1> HIDE DEF acc, rest, leftover
<1>8. /\ uncustodied \in Sheet
      /\ Total(Held(uncustodied)) = Total(Held(acc)) - leftover.amount
  BY <1>3, <1>4, <1>5, <1>7, SubBalanceLaw
<1> HIDE DEF uncustodied
<1>9. taken \in Sheet /\ Total(Held(taken)) = Total(Held(uncustodied)) - rest.amount
  <2>1. CanSubDeposit(t, uncustodied, from, rest, keep)
    BY <1>3
  <2>2. /\ uncustodied \in Sheet /\ keep \in BOOLEAN
        /\ rest \in Value /\ rest.amount \in Nat
    BY <1>4, <1>7, <1>8
  <2> QED
    BY <2>1, <2>2, SubDepositLaw
<1> HIDE DEF taken
<1>10. new \in Sheet /\ Total(Held(new)) = Total(Held(taken)) + v.amount
  BY <1>1, <1>2, <1>9, AddLaw
<1> HIDE DEF new
<1>11. Total(Held(new)) = Total(Held(accounts[t]))
  <2>1. Total(Held(new)) = Total(Held(acc))
    BY <1>2, <1>4, <1>7, <1>8, <1>9, <1>10
  <2> QED
    BY <2>1 DEF acc
<1>12. CASE /\ leftover.amount < asked
            /\ accounts' = given
            /\ requests' = [requests EXCEPT ![from][t].amount = @ - leftover.amount]
            /\ UNCHANGED deferred
  <2>1. /\ stat' \in [Token -> Stat]
        /\ accounts' \in [Token -> [Owner -> Row]]
        /\ Conservation' /\ ClosedEmpty' /\ Unminted'
    BY <1>3, <1>10, <1>11, <1>12, RowsMoved
  <2>2. requests \in [Owner -> [Token -> Request]]
    BY DEF IInv, TypeOK
  <2>3. asked - leftover.amount \in Nat
    BY <1>3, <1>7, <2>2 DEF Request
  <2>4. requests' \in [Owner -> [Token -> Request]]
    BY <1>12, <2>2, <2>3 DEF Request
  <2> QED
    BY <1>3, <1>12, <2>1, <2>4 DEF IInv, TypeOK
<1>13. CASE RefreshSchedule(given, Erase(requests, from, {t}), from, {from})
  <2>1. given \in [Token -> Sheet]
    BY <1>10, <1>11, SheetsUpdated
  <2>2. \A u \in Token : Total(Held(given[u])) = Total(Held(accounts[u]))
    BY <1>10, <1>11, SheetsUpdated
  <2>3. Erase(requests, from, {t}) \in [Owner -> [Token -> Request]]
    BY EraseType DEF IInv, TypeOK
  <2> HIDE DEF given
  <2> QED
    BY <1>3, <1>13, <2>1, <2>2, <2>3, RefreshStep, Zenon
<1> QED
  BY <1>3, <1>12, <1>13

LEMMA PushWithdrawStep ==
  ASSUME IInv, NEW t \in Token, NEW from \in Owner, NEW v \in Values, NEW auth,
         PushWithdraw(t, from, v, auth)
  PROVE  IInv'
<1> DEFINE at == (now + stat[t].duration) % TimeMod
           keep == TRUE
           new == AddBalance(t, SubDeposit(accounts[t], from, v, keep), TokenContract, v)
           accs == [accounts EXCEPT ![t] = new]
           reqs == [requests EXCEPT ![from][t] =
                      [amount |-> @.amount + v.amount, at |-> at]]
<1>1. v \in Value /\ Positive(v)
  BY CallAssumption DEF PushWithdraw
<1>2. v.amount \in Nat /\ TokenContract \in Owner
  BY <1>1, PositiveValue, ChainAssumption
<1>3. /\ CanSubDeposit(t, accounts[t], from, v, keep)
      /\ RefreshSchedule(accs, reqs, from, {from})
      /\ UNCHANGED <<stat, allowances, now>>
  BY DEF PushWithdraw
<1>4. accounts[t] \in Sheet /\ keep \in BOOLEAN
  BY TokenFacts
<1> HIDE DEF keep
<1>5. new \in Sheet /\ Total(Held(new)) = Total(Held(accounts[t]))
  BY <1>1, <1>2, <1>3, <1>4, WithdrawLaw
<1> HIDE DEF new
<1>6. at \in Nat
  <2>1. now + stat[t].duration \in Nat /\ TimeMod \in Nat \ {0}
    BY ChainAssumption DEF IInv, TypeOK, Stat
  <2> QED
    BY <2>1
<1> HIDE DEF at
<1>7. reqs \in [Owner -> [Token -> Request]]
  <2>1. requests \in [Owner -> [Token -> Request]]
    BY DEF IInv, TypeOK
  <2>2. requests[from][t].amount + v.amount \in Nat
    BY <1>2, <2>1 DEF Request
  <2> QED
    BY <1>6, <2>1, <2>2 DEF Request
<1>8. accs \in [Token -> Sheet]
  BY <1>5, SheetsUpdated
<1>9. \A u \in Token : Total(Held(accs[u])) = Total(Held(accounts[u]))
  BY <1>5, SheetsUpdated
<1> HIDE DEF accs, reqs
<1> QED
  BY <1>3, <1>7, <1>8, <1>9, RefreshStep, Zenon

LEMMA PopWithdrawStep ==
  ASSUME IInv, NEW t \in Token, NEW from \in Owner, NEW auth,
         PopWithdraw(t, from, auth)
  PROVE  IInv'
<1> DEFINE v == Requested(requests, from, t)
           new == AddDeposit(t, SubBalance(accounts[t], TokenContract, v), from, v)
<1>1. v \in Value /\ v.amount \in Nat
  BY DEF Requested, Value, Request, IInv, TypeOK, Stat
<1>2. /\ CanSubBalance(t, accounts[t], TokenContract, v)
      /\ accounts' = [accounts EXCEPT ![t] = new]
      /\ requests' = Erase(requests, from, {t})
      /\ UNCHANGED <<stat, allowances, deferred, now>>
  BY DEF PopWithdraw
<1> HIDE DEF v
<1>3. accounts[t] \in Sheet /\ TokenContract \in Owner
  BY TokenFacts, ChainAssumption
<1>4. new \in Sheet /\ Total(Held(new)) = Total(Held(accounts[t]))
  BY <1>1, <1>2, <1>3, MoveLaw
<1> HIDE DEF new
<1>5. /\ stat' \in [Token -> Stat]
      /\ accounts' \in [Token -> [Owner -> Row]]
      /\ Conservation' /\ ClosedEmpty' /\ Unminted'
  BY <1>2, <1>4, RowsMoved
<1>6. requests' \in [Owner -> [Token -> Request]]
  BY <1>2, EraseType DEF IInv, TypeOK
<1> QED
  BY <1>2, <1>5, <1>6 DEF IInv, TypeOK

LEMMA ClrWithdrawsStep ==
  ASSUME IInv, NEW o \in Owner, NEW auth, ClrWithdraws(o, auth)
  PROVE  IInv'
<1>1. accounts \in [Token -> Sheet] /\ requests \in [Owner -> [Token -> Request]]
  BY DEF IInv, TypeOK, ClosedEmpty
<1>2. RefreshSchedule(accounts, requests, o, auth) /\ UNCHANGED <<stat, allowances, now>>
  BY DEF ClrWithdraws
<1>3. \A t \in Token : Total(Held(accounts[t])) = Total(Held(accounts[t]))
  OBVIOUS
<1> QED
  BY <1>1, <1>2, <1>3, RefreshStep

LEMMA FireDeferredStep ==
  ASSUME IInv, NEW o \in Owner, FireDeferred(o)
  PROVE  IInv'
<1>1. CASE RunDeferred(o)
  BY <1>1, ClrWithdrawsStep DEF RunDeferred
<1>2. CASE DropDeferred(o)
  <2>1. /\ deferred' = [deferred EXCEPT ![o] = None]
        /\ UNCHANGED <<stat, accounts, requests, allowances, now>>
    BY <1>2 DEF DropDeferred
  <2> QED
    BY <2>1 DEF IInv, TypeOK, Conservation, ClosedEmpty, Unminted
<1> QED
  BY <1>1, <1>2 DEF FireDeferred

-----------------------------------------------------------------------------
(* The invariant and the theorems.                                          *)

LEMMA InitIInv == Init => IInv
<1> SUFFICES ASSUME Init PROVE IInv
  OBVIOUS
<1>1. \A t \in Token : Total(Held(accounts[t])) = 0
  <2> TAKE t \in Token
  <2>1. /\ Held(accounts[t]) \in [Owner -> Nat]
        /\ \A o \in Owner : Held(accounts[t])[o] = 0
    BY NoRowType DEF Init, Held
  <2> QED
    BY <2>1, TotalZero
<1>2. MaxAmount \in Nat
  BY ChainAssumption
<1>3. TypeOK
  BY NoRowType DEF Init, TypeOK, Stat, NoStat, Request, NoRequest, Allowance, NoAllowance
<1>4. Conservation
  BY <1>1, <1>2 DEF Init, Conservation, NoStat
<1>5. ClosedEmpty /\ Unminted
  BY NoRowType DEF Init, ClosedEmpty, Sheet, Unminted, NoStat
<1> QED
  BY <1>3, <1>4, <1>5 DEF IInv

LEMMA NextIInv == IInv /\ [Next]_vars => IInv'
<1> SUFFICES ASSUME IInv, [Next]_vars PROVE IInv'
  OBVIOUS
<1>1. Requesters \subseteq Owner /\ Spenders \subseteq Owner /\ Approvers \subseteq Owner
  BY CallAssumption
<1>2. ASSUME NEW t \in Token, NEW auth \in AuthSets, TokenCall(t, auth)
      PROVE  IInv'
  BY <1>1, <1>2, CreateStep, MintMoreStep, SetOptsStep, IssueStep, RetireStep, BurnStep
     DEF TokenCall
<1>3. ASSUME NEW t \in Token, NEW auth \in AuthSets, AccountCall(t, auth)
      PROVE  IInv'
  BY <1>1, <1>3, OpenStep, CloseStep, SetAcntsOptsStep, ApproveStep DEF AccountCall
<1>4. ASSUME NEW t \in Token, NEW auth \in AuthSets, TransferCall(t, auth)
      PROVE  IInv'
  BY <1>1, <1>4, TransferStep, TransferAllowedStep, RecallStep, RecallPendingStep
     DEF TransferCall
<1>5. ASSUME NEW t \in Token, NEW auth \in AuthSets, WithdrawCall(t, auth)
      PROVE  IInv'
  BY <1>1, <1>5, DepositStep, PushWithdrawStep, PopWithdrawStep DEF WithdrawCall
<1>6. ASSUME NEW o \in Requesters, NEW auth \in AuthSets, ClrWithdraws(o, auth)
      PROVE  IInv'
  BY <1>1, <1>6, ClrWithdrawsStep
<1>7. ASSUME NEW o \in Owner, FireDeferred(o)
      PROVE  IInv'
  BY <1>7, FireDeferredStep
<1>8. CASE Tick
  <2>1. now + 1 \in Nat
    BY DEF IInv, TypeOK
  <2> QED
    BY <1>8, <2>1 DEF Tick, IInv, TypeOK, Conservation, ClosedEmpty, Unminted
<1>9. CASE UNCHANGED vars
  BY <1>9 DEF vars, IInv, TypeOK, Conservation, ClosedEmpty, Unminted
<1> QED
  BY <1>2, <1>3, <1>4, <1>5, <1>6, <1>7, <1>8, <1>9 DEF Next

\* The inductive invariant holds in every reachable state.
LEMMA Invariant == Spec => []IInv
  BY InitIInv, NextIInv, PTL DEF Spec

\* No sequence of calls, however many tokens, accounts, requests and deferred
\* transactions take part, makes an amount of a table negative or a row
\* malformed: no check of the contract is missing one that this needs.
THEOREM TypeCorrect == Spec => []TypeOK
<1>1. IInv => TypeOK
  BY DEF IInv
<1> QED
  BY <1>1, Invariant, PTL

\* The recorded supply of every token is the sum of its account rows, and
\* never above what was minted, whatever the calls and their order.
THEOREM SupplyConserved == Spec => []Conservation
<1>1. IInv => Conservation
  BY DEF IInv
<1> QED
  BY <1>1, Invariant, PTL

-----------------------------------------------------------------------------
(* Custody: what the balance of the contract covers.                         *)

\* In tables that need not be the current ones, the contract's balance covers
\* what is asked and k beyond it.
AskedIn(reqs, t) == [o \in Owner |-> reqs[o][t].amount]

Covers(acc, reqs, t, k) == Total(AskedIn(reqs, t)) + k[t] <= acc[TokenContract].balance

CustodyIn(accs, reqs, k) == \A t \in Token : Covers(accs[t], reqs, t, k)

-----------------------------------------------------------------------------
(* What the row operations do to balances.                                  *)

LEMMA SheetRow ==
  ASSUME NEW acc \in Sheet, NEW o \in Owner
  PROVE  /\ acc[o] \in Row /\ acc[o].balance \in Nat /\ acc[o].deposit \in Nat
         /\ acc[o].open \/ (acc[o].balance = 0 /\ acc[o].deposit = 0)
  BY DEF Sheet, Row

\* sub_balance takes the value off one balance.
LEMMA BalanceDebited ==
  ASSUME NEW t, NEW acc \in Sheet, NEW o \in Owner, NEW v, v.amount \in Nat,
         CanSubBalance(t, acc, o, v)
  PROVE  /\ SubBalance(acc, o, v)[o].balance = acc[o].balance - v.amount
         /\ \A x \in Owner \ {o} : SubBalance(acc, o, v)[x].balance = acc[x].balance
<1>1. CASE BalanceDrains(o, acc[o], v)
  BY <1>1, NoRowType, SheetRow DEF SubBalance, BalanceDrains, Sheet
<1>2. CASE ~BalanceDrains(o, acc[o], v)
  BY <1>2, SheetRow DEF SubBalance, Sheet, Row
<1> QED
  BY <1>1, <1>2

\* sub_deposit leaves every balance, and erases only a row without one.
LEMMA DepositDebited ==
  ASSUME NEW acc \in Sheet, NEW o \in Owner, NEW v, NEW keep
  PROVE  \A x \in Owner : SubDeposit(acc, o, v, keep)[x].balance = acc[x].balance
<1>1. CASE DepositDrains(o, acc[o], v, keep)
  BY <1>1, NoRowType DEF SubDeposit, DepositDrains, Sheet
<1>2. CASE ~DepositDrains(o, acc[o], v, keep)
  BY <1>2, SheetRow DEF SubDeposit, Sheet, Row
<1> QED
  BY <1>1, <1>2

\* A credit takes nothing off a balance.
LEMMA Credited ==
  ASSUME NEW t, NEW acc \in Sheet, NEW o \in Owner, NEW v \in Value, v.amount \in Nat
  PROVE  /\ AddBalance(t, acc, o, v)[o].balance = acc[o].balance + v.amount
         /\ \A x \in Owner \ {o} : AddBalance(t, acc, o, v)[x].balance = acc[x].balance
         /\ \A x \in Owner : AddDeposit(t, acc, o, v)[x].balance = acc[x].balance
<1> DEFINE row == Opened(t, acc[o], v)
<1>1. row \in Row /\ row.balance = acc[o].balance
  BY SheetRow, OpenedType
<1>2. /\ AddBalance(t, acc, o, v) = [acc EXCEPT ![o] = [row EXCEPT !.balance = @ + v.amount]]
      /\ AddDeposit(t, acc, o, v) = [acc EXCEPT ![o] = [row EXCEPT !.deposit = @ + v.amount]]
  BY DEF AddBalance, AddDeposit
<1> HIDE DEF row
<1> QED
  BY <1>1, <1>2 DEF Sheet, Row

LEMMA Grows ==
  ASSUME NEW t, NEW acc \in Sheet, NEW o \in Owner, NEW v \in Value, v.amount \in Nat,
         NEW x \in Owner
  PROVE  /\ AddBalance(t, acc, o, v)[x].balance \in Nat
         /\ acc[x].balance <= AddBalance(t, acc, o, v)[x].balance
         /\ AddDeposit(t, acc, o, v)[x].balance = acc[x].balance
<1>1. acc[x].balance \in Nat
  BY SheetRow
<1>2. CASE x = o
  BY <1>1, <1>2, Credited
<1>3. CASE x # o
  <2>1. /\ AddBalance(t, acc, o, v)[x].balance = acc[x].balance
        /\ AddDeposit(t, acc, o, v)[x].balance = acc[x].balance
    BY <1>3, Credited
  <2> QED
    BY <1>1, <2>1
<1> QED
  BY <1>2, <1>3

\* A settlement costs the contract no more than the request.
LEMMA SettlePaid ==
  ASSUME NEW t, NEW acc \in Sheet, NEW o \in Owner, NEW v \in Value,
         v.amount \in Nat, NEW auth, NEW garbage,
         CanSettle(t, acc, o, v, auth, garbage)
  PROVE  acc[TokenContract].balance - v.amount
           <= Settle(t, acc, o, v, garbage)[TokenContract].balance
<1> DEFINE paid == SubBalance(acc, TokenContract, v)
<1>1. CanSubBalance(t, acc, TokenContract, v) /\ TokenContract \in Owner
  BY ChainAssumption DEF CanSettle
<1>2. paid \in Sheet /\ paid[TokenContract].balance = acc[TokenContract].balance - v.amount
  BY <1>1, SubBalanceLaw, BalanceDebited
<1>3. \/ Settle(t, acc, o, v, garbage) = AddDeposit(t, paid, o, v)
      \/ Settle(t, acc, o, v, garbage) = AddBalance(t, paid, o, v)
  BY DEF Settle
<1> HIDE DEF paid
<1>4. /\ paid[TokenContract].balance <= AddBalance(t, paid, o, v)[TokenContract].balance
      /\ AddDeposit(t, paid, o, v)[TokenContract].balance = paid[TokenContract].balance
  BY <1>1, <1>2, Grows
<1>5. paid[TokenContract].balance \in Nat
  BY <1>1, <1>2, SheetRow
<1> QED
  BY <1>2, <1>3, <1>4, <1>5

-----------------------------------------------------------------------------
(* What is asked.                                                           *)

Requests == [Owner -> [Token -> Request]]

LEMMA AskedType ==
  ASSUME NEW reqs \in Requests, NEW t \in Token
  PROVE  /\ AskedIn(reqs, t) \in [Owner -> Nat] /\ Total(AskedIn(reqs, t)) \in Nat
         /\ \A o \in Owner : reqs[o][t].amount \in Nat /\ reqs[o][t].at \in Nat
<1>1. \A o \in Owner : reqs[o][t].amount \in Nat /\ reqs[o][t].at \in Nat
  BY DEF Requests, Request
<1>2. AskedIn(reqs, t) \in [Owner -> Nat]
  BY <1>1 DEF AskedIn
<1> QED
  BY <1>1, <1>2, ChainAssumption, CoinsFinite

LEMMA AskedUpdate ==
  ASSUME NEW reqs \in Requests, NEW new \in Requests, NEW t \in Token, NEW o \in Owner,
         \A x \in Owner \ {o} : new[x][t].amount = reqs[x][t].amount
  PROVE  Total(AskedIn(new, t)) = Total(AskedIn(reqs, t)) - reqs[o][t].amount + new[o][t].amount
<1> DEFINE f == AskedIn(reqs, t)
           g == AskedIn(new, t)
<1>1. f \in [Owner -> Nat] /\ g \in [Owner -> Nat]
  BY AskedType
<1>2. /\ \A x \in Owner \ {o} : g[x] = f[x]
      /\ f[o] = reqs[o][t].amount /\ g[o] = new[o][t].amount
  BY DEF AskedIn
<1> HIDE DEF f, g
<1>3. Total(g) = Total(f) - f[o] + g[o]
  BY <1>1, <1>2, ChainAssumption, TotalUpdate
<1> QED
  BY <1>2, <1>3 DEF f, g

\* One owner's request of one token and the contract's balance go down together.
LEMMA CoversLess ==
  ASSUME NEW k \in [Token -> Int],
         NEW reqs \in Requests, NEW new \in Requests, NEW t \in Token, NEW o \in Owner,
         \A x \in Owner \ {o} : new[x][t].amount = reqs[x][t].amount,
         NEW acc \in Sheet, NEW then \in Sheet, Covers(acc, reqs, t, k),
         acc[TokenContract].balance - (reqs[o][t].amount - new[o][t].amount)
           <= then[TokenContract].balance
  PROVE  Covers(then, new, t, k)
<1>1. Total(AskedIn(new, t)) = Total(AskedIn(reqs, t)) - reqs[o][t].amount + new[o][t].amount
  BY AskedUpdate
<1>2. /\ Total(AskedIn(reqs, t)) \in Nat /\ Total(AskedIn(new, t)) \in Nat
      /\ reqs[o][t].amount \in Nat /\ new[o][t].amount \in Nat
  BY AskedType
<1>3. acc[TokenContract].balance \in Nat /\ then[TokenContract].balance \in Nat
  BY ChainAssumption, SheetRow
<1> QED
  BY <1>1, <1>2, <1>3, k[t] \in Int DEF Covers

LEMMA Erased ==
  ASSUME NEW reqs \in Requests, NEW o \in Owner, NEW ts
  PROVE  /\ Erase(reqs, o, ts) \in Requests
         /\ \A x \in Owner \ {o} : Erase(reqs, o, ts)[x] = reqs[x]
         /\ \A t \in Token : Erase(reqs, o, ts)[o][t] = IF t \in ts THEN NoRequest ELSE reqs[o][t]
<1>1. Erase(reqs, o, ts) \in Requests
  BY EraseType DEF Requests
<1> QED
  BY <1>1 DEF Erase, Requests

-----------------------------------------------------------------------------
(* Settling.                                                                *)

LEMMA RefreshCustody ==
  ASSUME NEW k \in [Token -> Int], TypeOK, NEW accs \in [Token -> Sheet], NEW reqs \in Requests,
         CustodyIn(accs, reqs, k), NEW o \in Owner, NEW auth,
         RefreshSchedule(accs, reqs, o, auth)
  PROVE  CustodyIn(accounts', requests', k)
<1> DEFINE due == Due(reqs, o)
           rest == Erase(reqs, o, due)
<1>1. PICK garbage \in SUBSET Unread(accs, reqs, o) :
         /\ CanClear(accs, reqs, o, auth, garbage)
         /\ accounts' = [t \in Token |->
                IF t \in due
                THEN Settle(t, accs[t], o, Requested(reqs, o, t), garbage)
                ELSE accs[t]]
  BY DEF RefreshSchedule
<1>2. requests' = rest
  BY DEF RefreshSchedule
<1>3. /\ rest \in Requests /\ \A x \in Owner \ {o} : rest[x] = reqs[x]
      /\ \A t \in Token : rest[o][t] = IF t \in due THEN NoRequest ELSE reqs[o][t]
  BY Erased
<1> HIDE DEF rest
<1>4. ASSUME NEW t \in Token
      PROVE  Covers(accounts'[t], rest, t, k)
  <2>1. Covers(accs[t], reqs, t, k) /\ accs[t] \in Sheet
    BY DEF CustodyIn
  <2>2. \A x \in Owner \ {o} : rest[x][t].amount = reqs[x][t].amount
    BY <1>3
  <2>3. reqs[o][t].amount \in Nat
    BY AskedType
  <2>4. CASE t \in due
    <3> DEFINE v == Requested(reqs, o, t)
    <3>1. v \in Value /\ v.amount \in Nat /\ v.amount = reqs[o][t].amount
      BY <2>3 DEF Requested, Value, TypeOK, Stat
    <3>2. CanSettle(t, accs[t], o, v, auth, garbage)
      BY <1>1, <2>4 DEF CanClear
    <3>3. accounts'[t] = Settle(t, accs[t], o, v, garbage)
      BY <1>1, <2>4
    <3> HIDE DEF v
    <3>4. /\ accounts'[t] \in Sheet
          /\ accs[t][TokenContract].balance - v.amount <= accounts'[t][TokenContract].balance
      BY <2>1, <3>1, <3>2, <3>3, SettleLaw, SettlePaid
    <3>5. rest[o][t].amount = 0
      BY <1>3, <2>4 DEF NoRequest
    <3>6. accs[t][TokenContract].balance - (reqs[o][t].amount - rest[o][t].amount)
            <= accounts'[t][TokenContract].balance
      BY <2>3, <3>1, <3>4, <3>5
    <3> QED
      BY <1>3, <2>1, <2>2, <3>4, <3>6, CoversLess
  <2>5. CASE t \notin due
    <3>1. accounts'[t] = accs[t] /\ rest[o][t] = reqs[o][t]
      BY <1>1, <1>3, <2>5
    <3>2. accs[t][TokenContract].balance - (reqs[o][t].amount - rest[o][t].amount)
            <= accounts'[t][TokenContract].balance
      BY <2>1, <2>3, <3>1, ChainAssumption, SheetRow
    <3> QED
      BY <1>3, <2>1, <2>2, <3>1, <3>2, CoversLess
  <2> QED
    BY <2>4, <2>5
<1> QED
  BY <1>2, <1>4 DEF CustodyIn

-----------------------------------------------------------------------------
(* The handlers.                                                            *)

CoverKept(k) == CustodyIn(accounts, requests, k)

TInv(k) == IInv /\ k \in [Token -> Int] /\ CoverKept(k)

LEMMA Tables ==
  ASSUME NEW k, TInv(k)
  PROVE  /\ accounts \in [Token -> Sheet] /\ requests \in Requests /\ TypeOK
         /\ CustodyIn(accounts, requests, k) /\ k \in [Token -> Int] /\ TokenContract \in Owner
         /\ Requesters \subseteq Owner /\ TokenContract \notin Requesters
<1>1. accounts \in [Token -> Sheet] /\ requests \in Requests /\ TypeOK
  BY DEF TInv, IInv, TypeOK, ClosedEmpty, Requests
<1>2. CustodyIn(accounts, requests, k)
  BY DEF TInv, CoverKept
<1> QED
  BY <1>1, <1>2, ChainAssumption, CallAssumption DEF TInv

LEMMA CustodyThen ==
  ASSUME NEW k, CustodyIn(accounts', requests', k)
  PROVE  CoverKept(k)'
  BY DEF CoverKept, CustodyIn, Covers, AskedIn

\* The requests stay, and the contract's balance of no token goes down.
LEMMA NoneTaken ==
  ASSUME NEW k, TInv(k), requests' = requests, accounts' \in [Token -> Sheet],
         \A t \in Token : accounts[t][TokenContract].balance <= accounts'[t][TokenContract].balance
  PROVE  CoverKept(k)'
<1>1. ASSUME NEW t \in Token
      PROVE  Covers(accounts'[t], requests, t, k)
  <2>1. Covers(accounts[t], requests, t, k) /\ accounts[t] \in Sheet /\ accounts'[t] \in Sheet
    BY Tables DEF CustodyIn
  <2>2. /\ accounts[t][TokenContract].balance \in Nat /\ accounts'[t][TokenContract].balance \in Nat
        /\ Total(AskedIn(requests, t)) \in Nat
    BY <2>1, Tables, SheetRow, AskedType
  <2> QED
    BY <2>1, <2>2, Tables, k[t] \in Int DEF Covers
<1>2. CustodyIn(accounts', requests', k)
  BY <1>1 DEF CustodyIn
<1> QED
  BY <1>2, CustodyThen

LEMMA OneTable ==
  ASSUME NEW k, TInv(k), IInv', requests' = requests, NEW t \in Token, NEW new,
         accounts' = [accounts EXCEPT ![t] = new],
         accounts[t][TokenContract].balance <= new[TokenContract].balance
  PROVE  CoverKept(k)'
<1>1. accounts' \in [Token -> Sheet]
  BY DEF IInv, TypeOK, ClosedEmpty
<1>2. ASSUME NEW u \in Token
      PROVE  accounts[u][TokenContract].balance <= accounts'[u][TokenContract].balance
  <2>1. accounts[u][TokenContract].balance \in Nat
    BY Tables, SheetRow
  <2>2. accounts'[u] = IF u = t THEN new ELSE accounts[u]
    BY Tables
  <2> QED
    BY <2>1, <2>2
<1> QED
  BY <1>1, <1>2, NoneTaken

\* Steps that leave accounts and requests as they are.
LEMMA Untouched ==
  ASSUME NEW k, TInv(k), accounts' = accounts, requests' = requests
  PROVE  CoverKept(k)'
<1>1. CustodyIn(accounts', requests', k)
  BY Tables
<1> QED
  BY <1>1, CustodyThen

LEMMA IssueCustody ==
  ASSUME NEW k, TInv(k), IInv', NEW t \in Token, NEW to \in Owner, NEW v \in Values, NEW auth,
         Issue(t, to, v, auth)
  PROVE  CoverKept(k)'
<1> DEFINE new == accounts'[t]
           acc == accounts[t]
<1>1. v \in Value /\ v.amount \in Nat
  BY CallAssumption, PositiveValue DEF Issue
<1>2. acc \in Sheet /\ TokenContract \in Owner
  BY Tables
<1>3. /\ \/ accounts' = [accounts EXCEPT ![t] = AddDeposit(t, acc, to, v)]
         \/ accounts' = [accounts EXCEPT ![t] = AddBalance(t, acc, to, v)]
      /\ requests' = requests
  BY DEF Issue
<1>4. accounts' = [accounts EXCEPT ![t] = new]
  BY <1>3, Tables
<1>5. new = AddDeposit(t, acc, to, v) \/ new = AddBalance(t, acc, to, v)
  BY <1>3, Tables
<1> HIDE DEF acc, new
<1>6. acc[TokenContract].balance <= new[TokenContract].balance
  <2>1. acc[TokenContract].balance \in Nat
    BY <1>2, SheetRow
  <2> QED
    BY <1>1, <1>2, <1>5, <2>1, Grows
<1> QED
  BY <1>3, <1>4, <1>6, OneTable DEF acc

\* Debits of another row, and of any deposit.
LEMMA OthersDebited ==
  ASSUME NEW t, NEW acc \in Sheet, NEW from \in Owner, NEW v, v.amount \in Nat,
         from # TokenContract, CanSubBalance(t, acc, from, v)
  PROVE  SubBalance(acc, from, v)[TokenContract].balance = acc[TokenContract].balance
  BY ChainAssumption, BalanceDebited

LEMMA DepositsDebited ==
  ASSUME NEW acc \in Sheet, NEW from \in Owner, NEW v, NEW keep
  PROVE  SubDeposit(acc, from, v, keep)[TokenContract].balance = acc[TokenContract].balance
  BY ChainAssumption, DepositDebited

LEMMA RetireCustody ==
  ASSUME NEW k, TInv(k), IInv', NEW t \in Token, NEW from \in Owner, from # TokenContract, NEW v \in Values, NEW auth,
         Retire(t, from, v, auth)
  PROVE  CoverKept(k)'
<1> DEFINE new == accounts'[t]
           acc == accounts[t]
           keep == FALSE
<1>1. v \in Value /\ v.amount \in Nat
  BY CallAssumption, PositiveValue DEF Retire
<1>2. acc \in Sheet /\ TokenContract \in Owner
  BY Tables
<1>3. /\ \/ /\ accounts' = [accounts EXCEPT ![t] = SubBalance(acc, from, v)]
            /\ CanSubBalance(t, acc, from, v)
         \/ accounts' = [accounts EXCEPT ![t] = SubDeposit(acc, from, v, keep)]
      /\ requests' = requests
  BY DEF Retire
<1> HIDE DEF keep
<1>4. accounts' = [accounts EXCEPT ![t] = new]
  BY <1>3, Tables
<1>5. \/ new = SubBalance(acc, from, v) /\ CanSubBalance(t, acc, from, v)
      \/ new = SubDeposit(acc, from, v, keep)
  BY <1>3, Tables
<1> HIDE DEF acc, new
<1>6. acc[TokenContract].balance <= new[TokenContract].balance
  <2>1. acc[TokenContract].balance \in Nat
    BY <1>2, SheetRow
  <2>2. new[TokenContract].balance = acc[TokenContract].balance
    BY <1>1, <1>2, <1>5, OthersDebited, DepositsDebited
  <2> QED
    BY <2>1, <2>2
<1> QED
  BY <1>3, <1>4, <1>6, OneTable DEF acc

LEMMA BurnCustody ==
  ASSUME NEW k, TInv(k), IInv', NEW t \in Token, NEW owner \in Owner, owner # TokenContract, NEW v \in Values, NEW auth,
         Burn(t, owner, v, auth)
  PROVE  CoverKept(k)'
<1> DEFINE acc == accounts[t]
           new == SubBalance(acc, owner, v)
<1>1. v \in Value /\ v.amount \in Nat
  BY CallAssumption, PositiveValue DEF Burn
<1>2. acc \in Sheet /\ TokenContract \in Owner
  BY Tables
<1>3. /\ accounts' = [accounts EXCEPT ![t] = new] /\ CanSubBalance(t, acc, owner, v)
      /\ requests' = requests
  BY Tables DEF Burn
<1>4. acc[TokenContract].balance <= new[TokenContract].balance
  <2>1. acc[TokenContract].balance \in Nat
    BY <1>2, SheetRow
  <2>2. new[TokenContract].balance = acc[TokenContract].balance
    BY <1>1, <1>2, <1>3, OthersDebited
  <2> QED
    BY <2>1, <2>2
<1> HIDE DEF new
<1> QED
  BY <1>3, <1>4, OneTable

LEMMA OpenCustody ==
  ASSUME NEW k, TInv(k), IInv', NEW t \in Token, NEW o \in Owner, NEW auth, Open(t, o, auth)
  PROVE  CoverKept(k)'
<1> DEFINE row == OpenRow(t, Is(t, "whitelist_on") /\ Issuer[t] \in auth, stat[t].prec)
           acc == accounts[t]
           new == [acc EXCEPT ![o] = row]
<1>1. acc \in Sheet /\ accounts \in [Token -> Sheet] /\ TokenContract \in Owner
  BY Tables
<1>2. ~acc[o].open /\ accounts' = [accounts EXCEPT ![t] = new] /\ requests' = requests
  BY <1>1 DEF Open
<1>3. row.balance = 0
  BY NoRowType DEF OpenRow, NoRow
<1> HIDE DEF row
<1>4. acc[TokenContract].balance <= new[TokenContract].balance
  <2>1. acc[o].balance = 0
    BY <1>1, <1>2, SheetRow
  <2>2. acc[TokenContract].balance \in Nat
    BY <1>1, SheetRow
  <2>3. new[TokenContract] = IF o = TokenContract THEN row ELSE acc[TokenContract]
    BY <1>1 DEF Sheet
  <2> QED
    BY <1>3, <2>1, <2>2, <2>3
<1> HIDE DEF new
<1> QED
  BY <1>2, <1>4, OneTable

LEMMA CloseCustody ==
  ASSUME NEW k, TInv(k), IInv', NEW t \in Token, NEW o \in Owner, NEW auth, Close(t, o, auth)
  PROVE  CoverKept(k)'
<1> DEFINE acc == accounts[t]
           new == [acc EXCEPT ![o] = NoRow]
<1>1. acc \in Sheet /\ accounts \in [Token -> Sheet] /\ TokenContract \in Owner
  BY Tables
<1>2. acc[o].balance = 0 /\ accounts' = [accounts EXCEPT ![t] = new] /\ requests' = requests
  BY <1>1 DEF Close
<1>3. acc[TokenContract].balance <= new[TokenContract].balance
  <2>1. acc[TokenContract].balance \in Nat
    BY <1>1, SheetRow
  <2>2. new[TokenContract] = IF o = TokenContract THEN NoRow ELSE acc[TokenContract]
    BY <1>1 DEF Sheet
  <2> QED
    BY <1>2, <2>1, <2>2, NoRowType
<1> HIDE DEF new
<1> QED
  BY <1>2, <1>3, OneTable

LEMMA SetRows ==
  ASSUME NEW t, NEW os, NEW flags, NEW auth, SetAcntsOpts(t, os, flags, auth)
  PROVE  /\ accounts' = [accounts EXCEPT ![t] =
               [o \in Owner |->
                  IF o \in os
                  THEN [accounts[t][o] EXCEPT !.frozen = Set(flags, "frozen", @),
                                              !.whitelist = Set(flags, "whitelist", @)]
                  ELSE accounts[t][o]]]
         /\ requests' = requests
  BY DEF SetAcntsOpts

LEMMA SetAcntsOptsCustody ==
  ASSUME NEW k, TInv(k), IInv', NEW t \in Token, NEW os, NEW flags, NEW auth,
         SetAcntsOpts(t, os, flags, auth)
  PROVE  CoverKept(k)'
<1> DEFINE acc == accounts[t]
           new == [o \in Owner |->
                     IF o \in os
                     THEN [acc[o] EXCEPT !.frozen = Set(flags, "frozen", @),
                                         !.whitelist = Set(flags, "whitelist", @)]
                     ELSE acc[o]]
<1>1. acc \in Sheet /\ accounts \in [Token -> Sheet] /\ TokenContract \in Owner
  BY Tables
<1>2. accounts' = [accounts EXCEPT ![t] = new] /\ requests' = requests
  BY SetRows
<1>3. acc[TokenContract].balance <= new[TokenContract].balance
  <2>1. acc[TokenContract] \in Row /\ acc[TokenContract].balance \in Nat
    BY <1>1, SheetRow
  <2>2. new[TokenContract].balance = acc[TokenContract].balance
    BY <1>1, <2>1 DEF Row
  <2> HIDE DEF acc, new
  <2> QED
    BY <2>1, <2>2
<1> HIDE DEF new
<1> QED
  BY <1>2, <1>3, OneTable

\* Payments from another row into any row.
LEMMA OthersPaid ==
  ASSUME NEW k, TInv(k), IInv', NEW t \in Token, NEW paid \in Sheet, NEW to \in Owner,
         NEW v \in Value, v.amount \in Nat,
         paid[TokenContract].balance = accounts[t][TokenContract].balance,
         \/ accounts' = [accounts EXCEPT ![t] = AddBalance(t, paid, to, v)]
         \/ accounts' = [accounts EXCEPT ![t] = AddDeposit(t, paid, to, v)],
         requests' = requests
  PROVE  CoverKept(k)'
<1>1. TokenContract \in Owner
  BY Tables
<1>2. paid[TokenContract].balance \in Nat
  BY <1>1, SheetRow
<1>3. /\ paid[TokenContract].balance <= AddBalance(t, paid, to, v)[TokenContract].balance
      /\ paid[TokenContract].balance <= AddDeposit(t, paid, to, v)[TokenContract].balance
  BY <1>1, <1>2, Grows
<1> QED
  BY <1>3, OneTable

LEMMA MoveBalanceCustody ==
  ASSUME NEW k, TInv(k), IInv', NEW t \in Token, NEW from \in Owner, from # TokenContract, NEW to \in Owner,
         NEW v \in Value, v.amount \in Nat, NEW auth, MoveBalance(t, from, to, v, auth),
         requests' = requests
  PROVE  CoverKept(k)'
<1> DEFINE acc == accounts[t]
           paid == SubBalance(acc, from, v)
<1>1. acc \in Sheet /\ from \in Owner
  BY Tables
<1>2. CanSubBalance(t, acc, from, v)
  BY DEF MoveBalance
<1>3. accounts' = [accounts EXCEPT ![t] = AddBalance(t, paid, to, v)]
  BY DEF MoveBalance
<1> HIDE DEF acc
<1>4. paid \in Sheet
  BY <1>1, <1>2, SubBalanceLaw
<1>5. paid[TokenContract].balance = accounts[t][TokenContract].balance
  BY <1>1, <1>2, OthersDebited DEF acc
<1> HIDE DEF paid
<1> QED
  BY <1>3, <1>4, <1>5, OthersPaid

LEMMA RecallCustody ==
  ASSUME NEW k, TInv(k), IInv', NEW t \in Token, NEW from \in Owner, NEW to \in Owner,
         NEW v \in Values, NEW auth, Recall(t, from, to, v, auth)
  PROVE  CoverKept(k)'
<1> DEFINE keep == FALSE
           taken == SubDeposit(accounts[t], from, v, keep)
<1>1. v \in Value /\ v.amount \in Nat
  BY CallAssumption, PositiveValue DEF Recall, Transferable
<1>2. accounts[t] \in Sheet /\ from \in Owner /\ keep \in BOOLEAN
  BY Tables
<1>3. /\ CanSubDeposit(t, accounts[t], from, v, keep)
      /\ accounts' = [accounts EXCEPT ![t] = AddBalance(t, taken, to, v)]
      /\ requests' = requests
  BY DEF Recall
<1> HIDE DEF keep
<1>4. taken \in Sheet /\ taken[TokenContract].balance = accounts[t][TokenContract].balance
  BY <1>1, <1>2, <1>3, SubDepositLaw, DepositsDebited
<1> HIDE DEF taken
<1> QED
  BY <1>1, <1>3, <1>4, OthersPaid

LEMMA DepositCustody ==
  ASSUME NEW k, TInv(k), IInv', NEW t \in Token, NEW from \in Owner, from # TokenContract, NEW v \in Values, NEW auth,
         Deposit(t, from, v, auth)
  PROVE  CoverKept(k)'
<1> DEFINE paid == SubBalance(accounts[t], from, v)
<1>1. v \in Value /\ v.amount \in Nat
  BY CallAssumption, PositiveValue DEF Deposit
<1>2. accounts[t] \in Sheet /\ from \in Owner
  BY Tables
<1>3. /\ CanSubBalance(t, accounts[t], from, v)
      /\ accounts' = [accounts EXCEPT ![t] = AddDeposit(t, paid, from, v)]
      /\ requests' = requests
  BY DEF Deposit
<1>4. paid \in Sheet /\ paid[TokenContract].balance = accounts[t][TokenContract].balance
  BY <1>1, <1>2, <1>3, SubBalanceLaw, OthersDebited
<1> HIDE DEF paid
<1> QED
  BY <1>1, <1>2, <1>3, <1>4, OthersPaid

\* A step that refreshes the schedule.
LEMMA RefreshStepCustody ==
  ASSUME NEW k, TInv(k), NEW accs \in [Token -> Sheet], NEW reqs \in Requests, CustodyIn(accs, reqs, k),
         NEW o \in Owner, NEW auth, RefreshSchedule(accs, reqs, o, auth)
  PROVE  CoverKept(k)'
<1>1. TypeOK
  BY Tables
<1>2. CustodyIn(accounts', requests', k)
  BY <1>1, Tables, RefreshCustody
<1> QED
  BY <1>2, CustodyThen

\* One token's rows and one owner's request of it change.
LEMMA OneRequest ==
  ASSUME NEW k, TInv(k), NEW t \in Token, NEW new \in Sheet, NEW o \in Owner, NEW reqs \in Requests,
         \A x \in Owner \ {o} : reqs[x] = requests[x],
         \A u \in Token \ {t} : reqs[o][u] = requests[o][u],
         accounts[t][TokenContract].balance - (requests[o][t].amount - reqs[o][t].amount)
           <= new[TokenContract].balance
  PROVE  CustodyIn([accounts EXCEPT ![t] = new], reqs, k)
<1> DEFINE accs == [accounts EXCEPT ![t] = new]
<1>1. \A u \in Token : accs[u] = IF u = t THEN new ELSE accounts[u]
  BY Tables
<1> HIDE DEF accs
<1>2. ASSUME NEW u \in Token
      PROVE  Covers(accs[u], reqs, u, k)
  <2>1. /\ Covers(accounts[u], requests, u, k) /\ accounts[u] \in Sheet /\ requests \in Requests
        /\ accs[u] \in Sheet
    BY <1>1, Tables DEF CustodyIn
  <2>2. \A x \in Owner \ {o} : reqs[x][u].amount = requests[x][u].amount
    OBVIOUS
  <2>3. accounts[u][TokenContract].balance - (requests[o][u].amount - reqs[o][u].amount)
          <= accs[u][TokenContract].balance
    <3>1. CASE u = t
      BY <1>1, <3>1
    <3>2. CASE u # t
      <4>1. accs[u] = accounts[u] /\ reqs[o][u].amount = requests[o][u].amount
        BY <1>1, <3>2
      <4>2. accounts[u][TokenContract].balance \in Nat /\ requests[o][u].amount \in Nat
        BY <2>1, Tables, SheetRow, AskedType
      <4> QED
        BY <4>1, <4>2
    <3> QED
      BY <3>1, <3>2
  <2> QED
    BY <2>1, <2>2, <2>3, Tables, CoversLess
<1> QED
  BY <1>2 DEF CustodyIn, accs

LEMMA PushWithdrawCustody ==
  ASSUME NEW k, TInv(k), NEW t \in Token, NEW from \in Requesters, NEW v \in Values, NEW auth,
         PushWithdraw(t, from, v, auth)
  PROVE  CoverKept(k)'
<1> DEFINE at == (now + stat[t].duration) % TimeMod
           keep == TRUE
           taken == SubDeposit(accounts[t], from, v, keep)
           new == AddBalance(t, taken, TokenContract, v)
           reqs == [requests EXCEPT ![from][t] =
                      [amount |-> @.amount + v.amount, at |-> at]]
<1>1. v \in Value /\ v.amount \in Nat
  BY CallAssumption, PositiveValue DEF PushWithdraw
<1>2. /\ accounts[t] \in Sheet /\ from \in Owner /\ TokenContract \in Owner
      /\ keep \in BOOLEAN /\ requests \in Requests
  BY Tables
<1>3. /\ CanSubDeposit(t, accounts[t], from, v, keep)
      /\ RefreshSchedule([accounts EXCEPT ![t] = new], reqs, from, {from})
  BY DEF PushWithdraw
<1>4. at \in Nat
  <2>1. now + stat[t].duration \in Nat /\ TimeMod \in Nat \ {0}
    BY ChainAssumption DEF TInv, IInv, TypeOK, Stat
  <2> QED
    BY <2>1
<1> HIDE DEF keep, at
<1>5. taken \in Sheet /\ taken[TokenContract].balance = accounts[t][TokenContract].balance
  BY <1>1, <1>2, <1>3, SubDepositLaw, DepositsDebited
<1> HIDE DEF taken
<1>6. new \in Sheet /\ new[TokenContract].balance = accounts[t][TokenContract].balance + v.amount
  <2>1. TokenContract \in Owner /\ taken \in Sheet
    BY <1>2, <1>5
  <2>2. new \in Sheet
    BY <1>1, <2>1, AddLaw
  <2>3. new[TokenContract].balance = taken[TokenContract].balance + v.amount
    BY <1>1, <2>1, Credited
  <2> QED
    BY <1>5, <2>2, <2>3
<1> HIDE DEF new
<1>7. requests[from][t].amount \in Nat
  BY <1>2, AskedType
<1>8. /\ reqs \in Requests
      /\ \A x \in Owner \ {from} : reqs[x] = requests[x]
      /\ \A u \in Token \ {t} : reqs[from][u] = requests[from][u]
      /\ reqs[from][t].amount = requests[from][t].amount + v.amount
  <2>1. requests[from][t].amount + v.amount \in Nat
    BY <1>1, <1>7
  <2> QED
    BY <1>2, <1>4, <2>1 DEF Requests, Request
<1> HIDE DEF reqs
<1>9. accounts[t][TokenContract].balance - (requests[from][t].amount - reqs[from][t].amount)
        <= new[TokenContract].balance
  <2>1. accounts[t][TokenContract].balance \in Nat
    BY <1>2, SheetRow
  <2> QED
    BY <1>1, <1>6, <1>7, <1>8, <2>1
<1>10. CustodyIn([accounts EXCEPT ![t] = new], reqs, k)
  BY <1>2, <1>6, <1>8, <1>9, OneRequest
<1>11. [accounts EXCEPT ![t] = new] \in [Token -> Sheet]
  BY <1>6, Tables
<1> QED
  BY <1>2, <1>3, <1>8, <1>10, <1>11, RefreshStepCustody, Zenon

LEMMA PopWithdrawCustody ==
  ASSUME NEW k, TInv(k), NEW t \in Token, NEW from \in Requesters, NEW auth, PopWithdraw(t, from, auth)
  PROVE  CoverKept(k)'
<1> DEFINE acc == accounts[t]
           v == Requested(requests, from, t)
           paid == SubBalance(acc, TokenContract, v)
           new == AddDeposit(t, paid, from, v)
           reqs == Erase(requests, from, {t})
<1>1. /\ acc \in Sheet /\ from \in Owner /\ TokenContract \in Owner
      /\ requests \in Requests /\ TypeOK
  BY Tables
<1>2. v \in Value /\ v.amount \in Nat /\ v.amount = requests[from][t].amount
  <2>1. requests[from][t].amount \in Nat
    BY <1>1, AskedType
  <2> QED
    BY <1>1, <2>1 DEF Requested, Value, TypeOK, Stat
<1>3. CanSubBalance(t, acc, TokenContract, v)
  BY DEF PopWithdraw
<1>4. /\ accounts' = [accounts EXCEPT ![t] = new]
      /\ requests' = reqs
  BY DEF PopWithdraw
<1> HIDE DEF v, acc
<1>5. paid \in Sheet
  BY <1>1, <1>2, <1>3, SubBalanceLaw
<1>6. paid[TokenContract].balance = acc[TokenContract].balance - v.amount
  BY <1>1, <1>2, <1>3, BalanceDebited
<1> HIDE DEF paid
<1>7. new \in Sheet
  BY <1>1, <1>2, <1>5, AddLaw
<1>8. new[TokenContract].balance = acc[TokenContract].balance - v.amount
  BY <1>1, <1>2, <1>5, <1>6, Grows
<1> HIDE DEF new
<1>9. /\ reqs \in Requests
      /\ \A x \in Owner \ {from} : reqs[x] = requests[x]
      /\ \A u \in Token \ {t} : reqs[from][u] = requests[from][u]
      /\ reqs[from][t].amount = 0
  BY <1>1, Erased DEF NoRequest
<1> HIDE DEF reqs
<1>10. acc[TokenContract].balance - (requests[from][t].amount - reqs[from][t].amount)
         <= new[TokenContract].balance
  <2>1. acc[TokenContract].balance \in Nat
    BY <1>1, SheetRow
  <2> QED
    BY <1>2, <1>8, <1>9, <2>1
<1>11. CustodyIn([accounts EXCEPT ![t] = new], reqs, k)
  BY <1>1, <1>7, <1>9, <1>10, OneRequest DEF acc
<1>12. CustodyIn(accounts', requests', k)
  BY <1>4, <1>11
<1> QED
  BY <1>12, CustodyThen

LEMMA RecallPendingCustody ==
  ASSUME NEW k, TInv(k), NEW t \in Token, NEW from \in Requesters, NEW to \in Owner, NEW v \in Values,
         NEW auth, RecallPending(t, from, to, v, auth)
  PROVE  CoverKept(k)'
<1> DEFINE acc == accounts[t]
           keep == FALSE
           rest == [amount |-> acc[from].deposit, prec |-> v.prec]
           leftover == [amount |-> v.amount - acc[from].deposit, prec |-> v.prec]
           uncustodied == SubBalance(acc, TokenContract, leftover)
           taken == SubDeposit(uncustodied, from, rest, keep)
           new == AddBalance(t, taken, to, v)
           given == [accounts EXCEPT ![t] = new]
           asked == requests[from][t].amount
           less == [requests EXCEPT ![from][t].amount = @ - leftover.amount]
           none == Erase(requests, from, {t})
<1>1. v \in Value /\ v.amount \in Nat /\ v.prec \in Precision
  <2>1. v \in Value /\ Positive(v)
    BY CallAssumption DEF RecallPending, Transferable
  <2> QED
    BY <2>1, PositiveValue DEF Value
<1>2. /\ leftover.amount > 0 /\ leftover.amount <= asked
      /\ CanSubBalance(t, acc, TokenContract, leftover)
      /\ CanSubDeposit(t, uncustodied, from, rest, keep)
      /\ \/ accounts' = given /\ requests' = less
         \/ leftover.amount = asked /\ RefreshSchedule(given, none, from, {from})
  BY DEF RecallPending
<1>3. /\ acc \in Sheet /\ from \in Owner /\ TokenContract \in Owner
      /\ keep \in BOOLEAN /\ requests \in Requests
  BY Tables
<1>4. asked \in Nat /\ acc[from].deposit \in Nat /\ acc[TokenContract].balance \in Nat
  BY <1>3, AskedType, SheetRow
<1>5. /\ rest \in Value /\ rest.amount \in Nat
      /\ leftover \in Value /\ leftover.amount \in Nat
  BY <1>1, <1>2, <1>4 DEF Value
<1> HIDE DEF acc, rest, leftover, keep
<1>6. /\ uncustodied \in Sheet
      /\ uncustodied[TokenContract].balance = acc[TokenContract].balance - leftover.amount
  BY <1>2, <1>3, <1>5, SubBalanceLaw, BalanceDebited
<1> HIDE DEF uncustodied
<1>7. taken \in Sheet /\ taken[TokenContract].balance = uncustodied[TokenContract].balance
  <2>1. CanSubDeposit(t, uncustodied, from, rest, keep)
    BY <1>2
  <2> QED
    BY <1>3, <1>5, <1>6, <2>1, SubDepositLaw, DepositsDebited
<1> HIDE DEF taken
<1>8. new \in Sheet /\ acc[TokenContract].balance - leftover.amount <= new[TokenContract].balance
  <2>1. new \in Sheet /\ taken[TokenContract].balance <= new[TokenContract].balance
    BY <1>1, <1>3, <1>7, AddLaw, Grows
  <2> QED
    BY <1>6, <1>7, <2>1
<1>9. given \in [Token -> Sheet]
  BY <1>8, Tables
<1>10. CASE accounts' = given /\ requests' = less
  <2>1. asked - leftover.amount \in Nat
    BY <1>2, <1>4, <1>5
  <2>2. /\ less \in Requests
        /\ \A x \in Owner \ {from} : less[x] = requests[x]
        /\ \A u \in Token \ {t} : less[from][u] = requests[from][u]
        /\ less[from][t].amount = asked - leftover.amount
    BY <1>3, <2>1 DEF Requests, Request
  <2>3. acc[TokenContract].balance - (asked - less[from][t].amount) <= new[TokenContract].balance
    BY <1>4, <1>5, <1>8, <2>2
  <2> HIDE DEF less, new
  <2>4. CustodyIn(given, less, k)
    BY <1>3, <1>8, <2>2, <2>3, OneRequest DEF acc
  <2>5. CustodyIn(accounts', requests', k)
    BY <1>10, <2>4
  <2> QED
    BY <2>5, CustodyThen
<1>11. CASE leftover.amount = asked /\ RefreshSchedule(given, none, from, {from})
  <2>1. /\ none \in Requests
        /\ \A x \in Owner \ {from} : none[x] = requests[x]
        /\ \A u \in Token \ {t} : none[from][u] = requests[from][u]
        /\ none[from][t].amount = 0
    BY <1>3, Erased DEF NoRequest
  <2>2. acc[TokenContract].balance - (asked - none[from][t].amount) <= new[TokenContract].balance
    BY <1>4, <1>8, <1>11, <2>1
  <2> HIDE DEF none, new
  <2>3. CustodyIn(given, none, k)
    BY <1>3, <1>8, <2>1, <2>2, OneRequest DEF acc
  <2> HIDE DEF given
  <2> QED
    BY <1>3, <1>9, <1>11, <2>1, <2>3, RefreshStepCustody
<1> QED
  BY <1>2, <1>10, <1>11

LEMMA ClrWithdrawsCustody ==
  ASSUME NEW k, TInv(k), NEW o \in Owner, NEW auth, ClrWithdraws(o, auth)
  PROVE  CoverKept(k)'
<1>1. RefreshSchedule(accounts, requests, o, auth)
  BY DEF ClrWithdraws
<1> QED
  BY <1>1, Tables, RefreshStepCustody

LEMMA FireDeferredCustody ==
  ASSUME NEW k, TInv(k), NEW o \in Owner, FireDeferred(o)
  PROVE  CoverKept(k)'
<1>1. CASE RunDeferred(o)
  BY <1>1, ClrWithdrawsCustody DEF RunDeferred
<1>2. CASE DropDeferred(o)
  BY <1>2, Untouched DEF DropDeferred
<1> QED
  BY <1>1, <1>2 DEF FireDeferred

-----------------------------------------------------------------------------
(* The calls that spend the contract's own row.                             *)

\* What `Custody` says of such a call, for all tokens.
OwnSpent ==
    /\ UNCHANGED <<requests, deferred>>
    /\ \A u \in Token, o \in Owner \ {TokenContract} :
          accounts'[u][o].deposit = accounts[u][o].deposit

\* Balances are credited without touching a deposit, and debits of the contract
\* leave the other rows.
LEMMA SpentDepositsStay ==
  ASSUME NEW t, NEW acc \in Sheet, NEW v, NEW x \in Owner
  PROVE  /\ \A to \in Owner : v \in Value /\ v.amount \in Nat =>
               AddBalance(t, acc, to, v)[x].deposit = acc[x].deposit
         /\ x # TokenContract =>
               /\ SubBalance(acc, TokenContract, v)[x] = acc[x]
               /\ \A keep : SubDeposit(acc, TokenContract, v, keep)[x] = acc[x]
               /\ AddDeposit(t, acc, TokenContract, v)[x] = acc[x]
<1>1. ASSUME NEW to \in Owner, v \in Value, v.amount \in Nat
      PROVE  AddBalance(t, acc, to, v)[x].deposit = acc[x].deposit
  <2> DEFINE row == Opened(t, acc[to], v)
  <2>1. row \in Row /\ row.deposit = acc[to].deposit
    BY <1>1, SheetRow, OpenedType
  <2>2. AddBalance(t, acc, to, v) = [acc EXCEPT ![to] = [row EXCEPT !.balance = @ + v.amount]]
    BY DEF AddBalance
  <2> HIDE DEF row
  <2> QED
    BY <2>1, <2>2 DEF Sheet, Row
<1>2. ASSUME x # TokenContract
      PROVE  /\ SubBalance(acc, TokenContract, v)[x] = acc[x]
             /\ \A keep : SubDeposit(acc, TokenContract, v, keep)[x] = acc[x]
             /\ AddDeposit(t, acc, TokenContract, v)[x] = acc[x]
  <2>1. SubBalance(acc, TokenContract, v)[x] = acc[x]
    BY <1>2 DEF SubBalance, Sheet
  <2>2. \A keep : SubDeposit(acc, TokenContract, v, keep)[x] = acc[x]
    BY <1>2 DEF SubDeposit, Sheet
  <2>3. AddDeposit(t, acc, TokenContract, v)[x] = acc[x]
    BY <1>2 DEF AddDeposit, Sheet
  <2> QED
    BY <2>1, <2>2, <2>3
<1> QED
  BY <1>1, <1>2

LEMMA OneSheetSpent ==
  ASSUME NEW t \in Token,
         \A u \in Token \ {t} : accounts'[u] = accounts[u],
         \A x \in Owner \ {TokenContract} : accounts'[t][x].deposit = accounts[t][x].deposit,
         UNCHANGED <<requests, deferred>>
  PROVE  OwnSpent
<1>1. ASSUME NEW u \in Token, NEW x \in Owner \ {TokenContract}
      PROVE  accounts'[u][x].deposit = accounts[u][x].deposit
  BY <1>1
<1> QED
  BY <1>1 DEF OwnSpent

\* Debited by `first` and paid on, as in a retirement, a burn or a transfer.
LEMMA ContractPays ==
  ASSUME IInv, NEW t \in Token, NEW v \in Value, v.amount \in Nat, NEW to \in Owner, NEW auth,
         NEW paid \in Sheet,
         \A x \in Owner \ {TokenContract} : paid[x] = accounts[t][x],
         \/ accounts' = [accounts EXCEPT ![t] = paid]
         \/ accounts' = [accounts EXCEPT ![t] = AddBalance(t, paid, to, v)]
         \/ accounts' = [accounts EXCEPT ![t] = AddDeposit(t, paid, TokenContract, v)],
         UNCHANGED <<requests, deferred>>
  PROVE  OwnSpent
<1>0. accounts \in [Token -> Sheet]
  BY DEF IInv, TypeOK, ClosedEmpty
<1>1. CASE accounts' = [accounts EXCEPT ![t] = paid]
  <2>1. /\ accounts'[t] = paid
        /\ \A u \in Token \ {t} : accounts'[u] = accounts[u]
    BY <1>0, <1>1
  <2>2. \A x \in Owner \ {TokenContract} : accounts'[t][x].deposit = accounts[t][x].deposit
    BY <2>1
  <2> QED
    BY <2>1, <2>2, OneSheetSpent
<1>2. CASE accounts' = [accounts EXCEPT ![t] = AddBalance(t, paid, to, v)]
  <2> DEFINE new == AddBalance(t, paid, to, v)
  <2>1. \A x \in Owner \ {TokenContract} : new[x].deposit = accounts[t][x].deposit
    <3>1. SUFFICES ASSUME NEW x \in Owner, x # TokenContract
                   PROVE  new[x].deposit = accounts[t][x].deposit
      OBVIOUS
    <3>2. new[x].deposit = paid[x].deposit
      BY <3>1, SpentDepositsStay
    <3> QED
      BY <3>1, <3>2
  <2>2. accounts' = [accounts EXCEPT ![t] = new]
    BY <1>2
  <2> HIDE DEF new
  <2>3. /\ accounts'[t] = new
        /\ \A u \in Token \ {t} : accounts'[u] = accounts[u]
    BY <1>0, <2>2
  <2>4. \A x \in Owner \ {TokenContract} : accounts'[t][x].deposit = accounts[t][x].deposit
    BY <2>1, <2>3
  <2> QED
    BY <2>3, <2>4, OneSheetSpent
<1>3. CASE accounts' = [accounts EXCEPT ![t] = AddDeposit(t, paid, TokenContract, v)]
  <2> DEFINE new == AddDeposit(t, paid, TokenContract, v)
  <2>1. \A x \in Owner \ {TokenContract} : new[x].deposit = accounts[t][x].deposit
    <3>1. SUFFICES ASSUME NEW x \in Owner, x # TokenContract
                   PROVE  new[x].deposit = accounts[t][x].deposit
      OBVIOUS
    <3>2. new[x].deposit = paid[x].deposit
      BY <3>1, SpentDepositsStay
    <3> QED
      BY <3>1, <3>2
  <2>2. accounts' = [accounts EXCEPT ![t] = new]
    BY <1>3
  <2> HIDE DEF new
  <2>3. /\ accounts'[t] = new
        /\ \A u \in Token \ {t} : accounts'[u] = accounts[u]
    BY <1>0, <2>2
  <2>4. \A x \in Owner \ {TokenContract} : accounts'[t][x].deposit = accounts[t][x].deposit
    BY <2>1, <2>3
  <2> QED
    BY <2>3, <2>4, OneSheetSpent
<1> QED
  BY <1>1, <1>2, <1>3

LEMMA ContractSpends ==
  ASSUME IInv, NEW t \in Token, NEW v \in Values, NEW to \in Owner, NEW auth,
         \/ Retire(t, TokenContract, v, auth)
         \/ Burn(t, TokenContract, v, auth)
         \/ Transfer(t, TokenContract, to, v, auth)
         \/ TransferAllowed(t, TokenContract, to, v, auth)
         \/ Recall(t, TokenContract, to, v, auth)
         \/ Deposit(t, TokenContract, v, auth)
  PROVE  OwnSpent
<1> DEFINE acc == accounts[t]
           keep == FALSE
           paid == SubBalance(acc, TokenContract, v)
           taken == SubDeposit(acc, TokenContract, v, keep)
<1>1. Positive(v) /\ v \in Value /\ v.amount \in Nat /\ TokenContract \in Owner
  BY CallAssumption, ChainAssumption, PositiveValue
     DEF Retire, Burn, Transfer, TransferAllowed, Recall, Deposit, Transferable
<1>2. acc \in Sheet /\ keep \in BOOLEAN
  BY DEF IInv, TypeOK, ClosedEmpty
<1>3. /\ \/ /\ CanSubBalance(t, acc, TokenContract, v)
            /\ \/ accounts' = [accounts EXCEPT ![t] = paid]
               \/ accounts' = [accounts EXCEPT ![t] = AddBalance(t, paid, to, v)]
               \/ accounts' = [accounts EXCEPT ![t] = AddDeposit(t, paid, TokenContract, v)]
         \/ /\ CanSubDeposit(t, acc, TokenContract, v, keep)
            /\ \/ accounts' = [accounts EXCEPT ![t] = taken]
               \/ accounts' = [accounts EXCEPT ![t] = AddBalance(t, taken, to, v)]
      /\ UNCHANGED <<requests, deferred>>
  <2>1. CASE Retire(t, TokenContract, v, auth)
    BY <2>1 DEF Retire
  <2>2. CASE Burn(t, TokenContract, v, auth)
    BY <2>2 DEF Burn
  <2>3. CASE Transfer(t, TokenContract, to, v, auth)
    BY <2>3 DEF Transfer, MoveBalance
  <2>4. CASE TransferAllowed(t, TokenContract, to, v, auth)
    BY <2>4 DEF TransferAllowed, MoveBalance
  <2>5. CASE Recall(t, TokenContract, to, v, auth)
    BY <2>5 DEF Recall
  <2>6. CASE Deposit(t, TokenContract, v, auth)
    BY <2>6 DEF Deposit
  <2> QED
    BY <2>1, <2>2, <2>3, <2>4, <2>5, <2>6
<1> HIDE DEF keep
<1>4. /\ CanSubBalance(t, acc, TokenContract, v) => paid \in Sheet
      /\ CanSubDeposit(t, acc, TokenContract, v, keep) => taken \in Sheet
  BY <1>1, <1>2, SubBalanceLaw, SubDepositLaw
<1>5. ASSUME NEW x \in Owner \ {TokenContract}
      PROVE  paid[x] = accounts[t][x] /\ taken[x] = accounts[t][x]
  <2>1. x \in Owner /\ x # TokenContract
    OBVIOUS
  <2>2. SubBalance(acc, TokenContract, v)[x] = acc[x]
    BY <1>2, <2>1, SpentDepositsStay
  <2>3. SubDeposit(acc, TokenContract, v, keep)[x] = acc[x]
    BY <1>2, <2>1 DEF SubDeposit, Sheet
  <2> QED
    BY <2>2, <2>3
<1> HIDE DEF acc, paid, taken
<1>6. CASE CanSubBalance(t, acc, TokenContract, v) /\ paid \in Sheet
           /\ \/ accounts' = [accounts EXCEPT ![t] = paid]
              \/ accounts' = [accounts EXCEPT ![t] = AddBalance(t, paid, to, v)]
              \/ accounts' = [accounts EXCEPT ![t] = AddDeposit(t, paid, TokenContract, v)]
  BY <1>1, <1>3, <1>5, <1>6, ContractPays
<1>7. CASE CanSubDeposit(t, acc, TokenContract, v, keep) /\ taken \in Sheet
           /\ \/ accounts' = [accounts EXCEPT ![t] = taken]
              \/ accounts' = [accounts EXCEPT ![t] = AddBalance(t, taken, to, v)]
  BY <1>1, <1>3, <1>5, <1>7, ContractPays
<1> QED
  BY <1>3, <1>4, <1>6, <1>7

-----------------------------------------------------------------------------
(* The steps and the theorem.                                               *)

\* Every step keeps what the contract's balance covers, or spends its own row.
LEMMA CustodyStep ==
  ASSUME NEW k, TInv(k), [Next]_vars
  PROVE  CoverKept(k)' \/ OwnSpent
<1>1. IInv /\ IInv'
  BY NextIInv DEF TInv
<1>2. ASSUME NEW t \in Token, NEW auth \in AuthSets, TokenCall(t, auth)
      PROVE  CoverKept(k)' \/ OwnSpent
  <2>1. ASSUME NEW v \in Values, NEW c \in MintOptions, Create(t, v, c, auth)
        PROVE  CoverKept(k)'
    BY <2>1, Untouched DEF Create
  <2>2. ASSUME NEW v \in Values, NEW flags \in OptionLists, MintMore(t, v, flags, auth)
        PROVE  CoverKept(k)'
    BY <2>2, Untouched DEF MintMore
  <2>3. ASSUME NEW flags \in OptionLists, SetOpts(t, flags, auth)
        PROVE  CoverKept(k)'
    BY <2>3, Untouched DEF SetOpts
  <2>4. ASSUME NEW v \in Values, NEW from \in Owner,
               Retire(t, from, v, auth) \/ Burn(t, from, v, auth)
        PROVE  CoverKept(k)' \/ OwnSpent
    <3>1. CASE from = TokenContract
      BY <1>1, <2>4, <3>1, ContractSpends
    <3>2. CASE from # TokenContract
      BY <1>1, <2>4, <3>2, RetireCustody, BurnCustody
    <3> QED
      BY <3>1, <3>2
  <2> QED
    BY <1>1, <1>2, <2>1, <2>2, <2>3, <2>4, IssueCustody DEF TokenCall
<1>3. ASSUME NEW t \in Token, NEW auth \in AuthSets, AccountCall(t, auth)
      PROVE  CoverKept(k)'
  <2>1. ASSUME NEW o \in Owner, NEW s \in Spenders, NEW v \in Values, Approve(t, o, s, v, auth)
        PROVE  CoverKept(k)'
    BY <2>1, Untouched DEF Approve
  <2>2. Approvers \subseteq Owner
    BY CallAssumption
  <2> QED
    BY <1>1, <1>3, <2>1, <2>2, OpenCustody, CloseCustody, SetAcntsOptsCustody DEF AccountCall
<1>4. ASSUME NEW t \in Token, NEW auth \in AuthSets, TransferCall(t, auth)
      PROVE  CoverKept(k)' \/ OwnSpent
  <2>1. PICK v \in Values, from \in Owner, to \in Owner :
           \/ Transfer(t, from, to, v, auth)
           \/ TransferAllowed(t, from, to, v, auth)
           \/ Recall(t, from, to, v, auth)
           \/ from \in Requesters /\ RecallPending(t, from, to, v, auth)
    BY <1>4, CallAssumption DEF TransferCall
  <2>2. CASE from \in Requesters /\ RecallPending(t, from, to, v, auth)
    BY <2>2, RecallPendingCustody
  <2>3. CASE Recall(t, from, to, v, auth)
    BY <1>1, <2>3, RecallCustody
  <2>4. CASE Transfer(t, from, to, v, auth) \/ TransferAllowed(t, from, to, v, auth)
    <3>1. CASE from = TokenContract
      BY <1>1, <2>4, <3>1, ContractSpends
    <3>2. CASE from # TokenContract
      <4>1. v \in Value /\ v.amount \in Nat
        BY <2>4, CallAssumption, PositiveValue DEF Transfer, TransferAllowed, Transferable
      <4>2. MoveBalance(t, from, to, v, auth) /\ requests' = requests
        BY <2>4 DEF Transfer, TransferAllowed
      <4> QED
        BY <1>1, <3>2, <4>1, <4>2, MoveBalanceCustody
    <3> QED
      BY <3>1, <3>2
  <2> QED
    BY <2>1, <2>2, <2>3, <2>4
<1>5. ASSUME NEW t \in Token, NEW auth \in AuthSets, WithdrawCall(t, auth)
      PROVE  CoverKept(k)' \/ OwnSpent
  <2>1. ASSUME NEW v \in Values, NEW from \in Owner, Deposit(t, from, v, auth)
        PROVE  CoverKept(k)' \/ OwnSpent
    <3>1. CASE from = TokenContract
      BY <1>1, <2>1, <3>1, ContractSpends
    <3>2. CASE from # TokenContract
      BY <1>1, <2>1, <3>2, DepositCustody
    <3> QED
      BY <3>1, <3>2
  <2> QED
    BY <1>5, <2>1, PushWithdrawCustody, PopWithdrawCustody DEF WithdrawCall
<1>6. ASSUME NEW o \in Requesters, NEW auth \in AuthSets, ClrWithdraws(o, auth)
      PROVE  CoverKept(k)'
  BY <1>6, Tables, ClrWithdrawsCustody
<1>7. ASSUME NEW o \in Owner, FireDeferred(o)
      PROVE  CoverKept(k)'
  BY <1>7, FireDeferredCustody
<1>8. ASSUME Tick
      PROVE  CoverKept(k)'
  BY <1>8, Untouched DEF Tick
<1>9. ASSUME UNCHANGED vars
      PROVE  CoverKept(k)'
  BY <1>9, Untouched DEF vars
<1> QED
  BY <1>2, <1>3, <1>4, <1>5, <1>6, <1>7, <1>8, <1>9 DEF Next

\* Whatever the tokens, owners, delays and recalls, no request, top-up,
\* cancellation, recall or settlement takes from what covers the others: the
\* contract's balance falls behind what is asked only by a call that spends its
\* own row, which leaves the requests as they are.
THEOREM CustodyKept == Spec => Custody
<1> DEFINE A == \A t \in Token :
                  Cover(t)' < Cover(t) =>
                     /\ UNCHANGED <<requests, deferred>>
                     /\ \A o \in Owner \ {TokenContract} :
                           accounts'[t][o].deposit = accounts[t][o].deposit
<1>1. IInv /\ [Next]_vars => A
  <2> SUFFICES ASSUME IInv, [Next]_vars, NEW t \in Token, Cover(t)' < Cover(t)
               PROVE  OwnSpent
    BY DEF OwnSpent
  <2>1. ASSUME NEW u \in Token
        PROVE  /\ Cover(u) \in Int
               /\ Cover(u) = accounts[u][TokenContract].balance - Total(AskedIn(requests, u))
               /\ accounts[u][TokenContract].balance \in Nat
               /\ Total(AskedIn(requests, u)) \in Nat
    <3>1. accounts[u] \in Sheet /\ requests \in Requests /\ TokenContract \in Owner
      BY ChainAssumption DEF IInv, TypeOK, ClosedEmpty, Requests
    <3>2. Cover(u) = accounts[u][TokenContract].balance - Total(AskedIn(requests, u))
      BY DEF Cover, Asked, AskedIn
    <3> QED
      BY <3>1, <3>2, SheetRow, AskedType
  <2>2. PICK k \in [Token -> Int] : k = [u \in Token |-> Cover(u)]
    BY <2>1
  <2>3. \A u \in Token : k[u] = Cover(u)
    BY <2>2
  <2>4. CoverKept(k)
    BY <2>1, <2>3 DEF CoverKept, CustodyIn, Covers
  <2>5. CoverKept(k)' \/ OwnSpent
    BY <2>4, CustodyStep DEF TInv
  <2>6. ASSUME CoverKept(k)'
        PROVE  FALSE
    <3>1. accounts' \in [Token -> Sheet] /\ requests' \in Requests /\ TokenContract \in Owner
      BY NextIInv, ChainAssumption DEF IInv, TypeOK, ClosedEmpty, Requests
    <3>2. /\ accounts'[t][TokenContract].balance \in Nat
          /\ Total(AskedIn(requests', t)) \in Nat
      BY <3>1, SheetRow, AskedType
    <3>3. Cover(t)' = accounts'[t][TokenContract].balance - Total(AskedIn(requests', t))
      BY DEF Cover, Asked, AskedIn
    <3>4. Total(AskedIn(requests', t)) + k[t] <= accounts'[t][TokenContract].balance
      BY <2>6 DEF CoverKept, CustodyIn, Covers
    <3>5. k[t] = Cover(t) /\ k[t] \in Int
      BY <2>3
    <3> QED
      BY <3>2, <3>3, <3>4, <3>5
  <2> QED
    BY <2>5, <2>6
<1>2. IInv /\ [Next]_vars => [A]_vars
  BY <1>1
<1> QED
  BY <1>2, Invariant, PTL DEF Spec, Custody

-----------------------------------------------------------------------------
(* Whole deposits: no fraction of a token that is not floatable is deposited.*)

LEMMA WholeSum ==
  ASSUME NEW a \in Nat, NEW b \in Nat, NEW s \in Nat \ {0}, a % s = 0, b % s = 0
  PROVE  /\ (a + b) % s = 0
         /\ b <= a => (a - b) % s = 0
<1>1. a = s * (a \div s) /\ b = s * (b \div s)
  OBVIOUS
<1> DEFINE p == a \div s
           q == b \div s
<1>2. p \in Int /\ q \in Int
  OBVIOUS
<1>3. a = s * p /\ b = s * q
  BY <1>1
<1> HIDE DEF p, q
<1>4. a + b = s * (p + q) /\ a - b = s * (p - q)
  BY <1>2, <1>3
<1>5. ASSUME NEW k \in Int PROVE (s * k) % s = 0
  OBVIOUS
<1> QED
  BY <1>2, <1>4, <1>5

LEMMA WholeDifference ==
  ASSUME NEW a \in Nat, NEW b \in Nat, NEW s \in Nat \ {0}, b <= a, a % s = 0, b % s = 0
  PROVE  (a - b) % s = 0
  BY WholeSum

LEMMA ZeroWhole == ASSUME NEW s \in Nat \ {0} PROVE 0 % s = 0
  OBVIOUS

\* A row of a token that is not floatable has a whole deposit.
WholeRow(t, r) == Is(t, "floatable") \/ r.deposit % Scale[r.prec] = 0

Whole(t, acc) == \A o \in Owner : WholeRow(t, acc[o])

LEMMA ScaleType == ASSUME NEW p \in Precision PROVE Scale[p] \in Nat \ {0}
  BY ChainAssumption

LEMMA NoRowWhole == ASSUME NEW t PROVE WholeRow(t, NoRow)
  BY NoRowType, ScaleType, ZeroWhole DEF WholeRow, NoRow

\* The operations on balances leave the deposits, or erase a row without one.
LEMMA SubBalanceWhole ==
  ASSUME NEW t, NEW acc \in Sheet, NEW o \in Owner, NEW v, Whole(t, acc)
  PROVE  Whole(t, SubBalance(acc, o, v))
<1> DEFINE new == SubBalance(acc, o, v)
<1>1. CASE BalanceDrains(o, acc[o], v)
  <2>1. new = [acc EXCEPT ![o] = NoRow]
    BY <1>1 DEF SubBalance
  <2>2. \A x \in Owner : new[x] = NoRow \/ new[x] = acc[x]
    BY <2>1 DEF Sheet
  <2> QED
    BY <2>2, NoRowWhole DEF Whole
<1>2. CASE ~BalanceDrains(o, acc[o], v)
  <2>1. new = [acc EXCEPT ![o].balance = @ - v.amount]
    BY <1>2 DEF SubBalance
  <2>2. \A x \in Owner : new[x].deposit = acc[x].deposit /\ new[x].prec = acc[x].prec
    BY <2>1 DEF Sheet, Row
  <2> QED
    BY <2>2 DEF Whole, WholeRow
<1> QED
  BY <1>1, <1>2

LEMMA SubDepositWhole ==
  ASSUME NEW t, NEW acc \in Sheet, NEW o \in Owner, NEW v \in Value, v.amount \in Nat,
         NEW keep, CanSubDeposit(t, acc, o, v, keep), Whole(t, acc)
  PROVE  Whole(t, SubDeposit(acc, o, v, keep))
<1> DEFINE new == SubDeposit(acc, o, v, keep)
<1>1. CASE DepositDrains(o, acc[o], v, keep)
  <2>1. new = [acc EXCEPT ![o] = NoRow]
    BY <1>1 DEF SubDeposit
  <2>2. \A x \in Owner : new[x] = NoRow \/ new[x] = acc[x]
    BY <2>1 DEF Sheet
  <2> QED
    BY <2>2, NoRowWhole DEF Whole
<1>2. CASE ~DepositDrains(o, acc[o], v, keep)
  <2>1. new = [acc EXCEPT ![o].deposit = @ - v.amount]
    BY <1>2 DEF SubDeposit
  <2>2. /\ \A x \in Owner \ {o} : new[x] = acc[x]
        /\ new[o].deposit = acc[o].deposit - v.amount /\ new[o].prec = acc[o].prec
    BY <2>1 DEF Sheet, Row
  <2>3. /\ v.prec = acc[o].prec /\ v.amount <= acc[o].deposit
        /\ Is(t, "floatable") \/ v.amount % Scale[v.prec] = 0
    BY <1>2 DEF CanSubDeposit, Floats
  <2>4. acc[o].deposit \in Nat /\ Scale[acc[o].prec] \in Nat \ {0}
    BY ScaleType DEF Sheet, Row
  <2>5. WholeRow(t, acc[o])
    BY DEF Whole
  <2> HIDE DEF new
  <2>6. CASE ~Is(t, "floatable")
    <3>1. acc[o].deposit % Scale[acc[o].prec] = 0 /\ v.amount % Scale[acc[o].prec] = 0
      BY <2>3, <2>5, <2>6 DEF WholeRow
    <3> DEFINE d == acc[o].deposit
               n == v.amount
               s == Scale[acc[o].prec]
    <3>2. /\ d \in Nat /\ n \in Nat /\ s \in Nat \ {0}
          /\ n <= d /\ d % s = 0 /\ n % s = 0
      BY <2>3, <2>4, <3>1
    <3> HIDE DEF d, n, s
    <3>3. (d - n) % s = 0
      BY <3>2, WholeDifference
    <3>4. new[o].deposit = d - n /\ Scale[new[o].prec] = s
      BY <2>2 DEF d, n, s
    <3>5. WholeRow(t, new[o])
      BY <3>3, <3>4 DEF WholeRow
    <3>6. Whole(t, new)
      BY <2>2, <3>5 DEF Whole
    <3> QED
      BY <3>6 DEF new
  <2>7. CASE Is(t, "floatable")
    BY <2>7 DEF Whole, WholeRow
  <2> QED
    BY <2>6, <2>7
<1> QED
  BY <1>1, <1>2

\* An opened row is in the precision of the value, and has no deposit.
LEMMA OpenedWhole ==
  ASSUME NEW t, NEW acc \in Sheet, NEW o \in Owner, NEW v \in Value, Whole(t, acc)
  PROVE  /\ Opened(t, acc[o], v) \in Row
         /\ WholeRow(t, Opened(t, acc[o], v))
         /\ ~acc[o].open => /\ Opened(t, acc[o], v).prec = v.prec
                            /\ Opened(t, acc[o], v).deposit = 0
         /\ acc[o].open => Opened(t, acc[o], v) = acc[o]
<1>1. v.prec \in Precision /\ Is(t, "whitelist_on") \in BOOLEAN
  BY DEF Value, Is
<1>2. CASE acc[o].open
  BY <1>2, SheetRow DEF Opened, Whole
<1>3. CASE ~acc[o].open
  <2> DEFINE row == OpenRow(t, Is(t, "whitelist_on"), v.prec)
  <2>1. row \in Row /\ row.deposit = 0
    BY <1>1, OpenRowType
  <2>2. row.prec = v.prec
    BY NoRowType DEF OpenRow, Row
  <2>3. WholeRow(t, row)
    BY <1>1, <2>1, <2>2, ScaleType, ZeroWhole DEF WholeRow
  <2> HIDE DEF row
  <2> QED
    BY <1>3, <2>1, <2>2, <2>3 DEF Opened, row
<1> QED
  BY <1>2, <1>3

LEMMA AddBalanceWhole ==
  ASSUME NEW t, NEW acc \in Sheet, NEW o \in Owner, NEW v \in Value, Whole(t, acc)
  PROVE  Whole(t, AddBalance(t, acc, o, v))
<1> DEFINE row == Opened(t, acc[o], v)
           new == [acc EXCEPT ![o] = [row EXCEPT !.balance = @ + v.amount]]
<1>1. AddBalance(t, acc, o, v) = new
  BY DEF AddBalance
<1>2. row \in Row /\ WholeRow(t, row)
  BY OpenedWhole
<1> HIDE DEF row
<1>3. /\ \A x \in Owner \ {o} : new[x] = acc[x]
      /\ new[o].deposit = row.deposit /\ new[o].prec = row.prec
  BY <1>2 DEF Sheet, Row
<1> HIDE DEF new
<1> QED
  BY <1>1, <1>2, <1>3 DEF Whole, WholeRow

LEMMA AddDepositWhole ==
  ASSUME NEW t, NEW acc \in Sheet, NEW o \in Owner, NEW v \in Value, v.amount \in Nat,
         NEW auth, NEW skip, CanAddDeposit(t, acc, o, v, auth, skip), Whole(t, acc)
  PROVE  Whole(t, AddDeposit(t, acc, o, v))
<1> DEFINE row == Opened(t, acc[o], v)
           new == [acc EXCEPT ![o] = [row EXCEPT !.deposit = @ + v.amount]]
<1>1. AddDeposit(t, acc, o, v) = new
  BY DEF AddDeposit
<1>2. row \in Row /\ WholeRow(t, row) /\ row.prec = v.prec
  BY OpenedWhole DEF CanAddDeposit, CanCredit
<1>3. Is(t, "floatable") \/ v.amount % Scale[v.prec] = 0
  BY DEF CanAddDeposit, Floats
<1> HIDE DEF row
<1>4. /\ \A x \in Owner \ {o} : new[x] = acc[x]
      /\ new[o].deposit = row.deposit + v.amount /\ new[o].prec = row.prec
  BY <1>2 DEF Sheet, Row
<1>5. row.deposit \in Nat /\ Scale[v.prec] \in Nat \ {0}
  BY <1>2, ScaleType DEF Row
<1> HIDE DEF new
<1>6. WholeRow(t, new[o])
  BY <1>2, <1>3, <1>4, <1>5, WholeSum DEF WholeRow
<1> QED
  BY <1>1, <1>4, <1>6 DEF Whole

LEMMA SettleWhole ==
  ASSUME NEW t, NEW acc \in Sheet, NEW o \in Owner, NEW v \in Value, v.amount \in Nat,
         NEW auth, NEW garbage, CanSettle(t, acc, o, v, auth, garbage), Whole(t, acc)
  PROVE  Whole(t, Settle(t, acc, o, v, garbage))
<1> DEFINE paid == SubBalance(acc, TokenContract, v)
<1>1. CanSubBalance(t, acc, TokenContract, v) /\ TokenContract \in Owner
  BY ChainAssumption DEF CanSettle
<1>2. paid \in Sheet
  BY <1>1, SubBalanceLaw
<1>3. Whole(t, paid)
  BY <1>1, SubBalanceWhole
<1>4. \/ /\ Settle(t, acc, o, v, garbage) = AddDeposit(t, paid, o, v)
         /\ CanAddDeposit(t, paid, o, v, auth, TRUE)
      \/ Settle(t, acc, o, v, garbage) = AddBalance(t, paid, o, v)
  BY DEF Settle, CanSettle
<1> HIDE DEF paid
<1> QED
  BY <1>2, <1>3, <1>4, AddDepositWhole, AddBalanceWhole

LEMMA RefreshWhole ==
  ASSUME TypeOK, NEW accs \in [Token -> Sheet], NEW reqs \in Requests, NEW o \in Owner,
         NEW auth, RefreshSchedule(accs, reqs, o, auth),
         NEW t \in Token, Whole(t, accs[t])
  PROVE  Whole(t, accounts'[t])
<1> DEFINE due == Due(reqs, o)
           v == Requested(reqs, o, t)
<1>1. PICK garbage \in SUBSET Unread(accs, reqs, o) :
         /\ CanClear(accs, reqs, o, auth, garbage)
         /\ accounts' = [u \in Token |->
                IF u \in due
                THEN Settle(u, accs[u], o, Requested(reqs, o, u), garbage)
                ELSE accs[u]]
  BY DEF RefreshSchedule
<1>2. v \in Value /\ v.amount \in Nat
  BY DEF Requested, Value, Requests, Request, TypeOK, Stat
<1>3. CASE t \in due
  <2>1. CanSettle(t, accs[t], o, v, auth, garbage)
    BY <1>1, <1>3 DEF CanClear
  <2>2. accounts'[t] = Settle(t, accs[t], o, v, garbage)
    BY <1>1, <1>3
  <2> HIDE DEF v, due
  <2> QED
    BY <1>2, <2>1, <2>2, SettleWhole
<1>4. CASE t \notin due
  BY <1>1, <1>4
<1> QED
  BY <1>3, <1>4

\* No token loses its options before it exists, so that one that is not
\* floatable never was.
Uncreated == \A t \in Token : ~stat[t].exists => stat[t] = NoStat

WInv == IInv /\ Uncreated /\ WholeDeposits

LEMMA WholeTables ==
  ASSUME WInv
  PROVE  /\ IInv /\ TypeOK /\ requests \in Requests /\ stat \in [Token -> Stat]
         /\ accounts \in [Token -> Sheet]
         /\ \A t \in Token : Whole(t, accounts[t])
         /\ Requesters \subseteq Owner
  BY CallAssumption
     DEF WInv, IInv, TypeOK, ClosedEmpty, Requests, WholeDeposits, Whole, WholeRow

\* The statistics keep existing tokens and whether they are floatable.
SameKind ==
    \A t \in Token : /\ ~stat'[t].exists => stat'[t] = NoStat
                     /\ Is(t, "floatable") => Is(t, "floatable")'

LEMMA WholeThen ==
  ASSUME SameKind, \A t \in Token : Whole(t, accounts'[t])
  PROVE  Uncreated' /\ WholeDeposits'
<1>1. Uncreated'
  BY DEF SameKind, Uncreated
<1>2. WholeDeposits'
  BY DEF SameKind, WholeDeposits, Whole, WholeRow, Is
<1> QED
  BY <1>1, <1>2

LEMMA SameStat ==
  ASSUME WInv, stat' = stat
  PROVE  SameKind
  BY DEF SameKind, WInv, Uncreated, Is

\* The rows of one token change.
LEMMA OneWhole ==
  ASSUME WInv, SameKind, NEW t \in Token, NEW new, Whole(t, new),
         accounts' = [accounts EXCEPT ![t] = new]
  PROVE  Uncreated' /\ WholeDeposits'
<1>1. ASSUME NEW u \in Token
      PROVE  Whole(u, accounts'[u])
  <2>1. accounts'[u] = IF u = t THEN new ELSE accounts[u]
    BY WholeTables
  <2> QED
    BY <2>1, WholeTables
<1> QED
  BY <1>1, WholeThen

LEMMA NoneWhole ==
  ASSUME WInv, SameKind, accounts' = accounts
  PROVE  Uncreated' /\ WholeDeposits'
  BY WholeTables, WholeThen

LEMMA CreateWhole ==
  ASSUME WInv, NEW t \in Token, NEW v, NEW c, NEW auth, Create(t, v, c, auth)
  PROVE  Uncreated' /\ WholeDeposits'
<1>1. /\ ~stat[t].exists /\ stat'[t].exists
      /\ \A u \in Token \ {t} : stat'[u] = stat[u]
  BY WholeTables DEF Create
<1>2. stat[t] = NoStat
  BY <1>1 DEF WInv, Uncreated
<1>3. ~Is(t, "floatable")
  BY <1>2 DEF Is, NoStat
<1>4. SameKind
  BY <1>1, <1>3 DEF SameKind, WInv, Uncreated, Is
<1> QED
  BY <1>4, NoneWhole DEF Create

LEMMA FlagsKeepKind ==
  ASSUME NEW opts \in SUBSET Option, NEW flags, Changeable(flags)
  PROVE  "floatable" \in opts => "floatable" \in WithFlags(opts, flags)
  BY DEF Changeable, WithFlags, Option

LEMMA MintMoreWhole ==
  ASSUME WInv, NEW t \in Token, NEW v, NEW flags, NEW auth, MintMore(t, v, flags, auth)
  PROVE  Uncreated' /\ WholeDeposits'
<1> DEFINE opts == WithFlags(stat[t].opts, flags)
<1>1. stat[t].exists /\ Changeable(flags) /\ accounts' = accounts
  BY DEF MintMore
<1>2. stat' = [stat EXCEPT ![t].max_supply = @ + v.amount, ![t].opts = opts]
  BY DEF MintMore
<1>3. stat[t].opts \in SUBSET Option
  BY WholeTables DEF Stat
<1>4. "floatable" \in stat[t].opts => "floatable" \in opts
  BY <1>1, <1>3, FlagsKeepKind
<1> HIDE DEF opts
<1>5. /\ \A u \in Token \ {t} : stat'[u] = stat[u]
      /\ stat'[t].exists = stat[t].exists /\ stat'[t].opts = opts
  BY <1>2, WholeTables DEF Stat
<1>6. SameKind
  BY <1>1, <1>4, <1>5 DEF SameKind, WInv, Uncreated, Is
<1> QED
  BY <1>1, <1>6, NoneWhole

LEMMA SetOptsWhole ==
  ASSUME WInv, NEW t \in Token, NEW flags, NEW auth, SetOpts(t, flags, auth)
  PROVE  Uncreated' /\ WholeDeposits'
<1> DEFINE opts == WithFlags(stat[t].opts, flags)
<1>1. stat[t].exists /\ Changeable(flags) /\ accounts' = accounts
  BY DEF SetOpts
<1>2. stat' = [stat EXCEPT ![t].opts = opts]
  BY DEF SetOpts
<1>3. stat[t].opts \in SUBSET Option
  BY WholeTables DEF Stat
<1>4. "floatable" \in stat[t].opts => "floatable" \in opts
  BY <1>1, <1>3, FlagsKeepKind
<1> HIDE DEF opts
<1>5. /\ \A u \in Token \ {t} : stat'[u] = stat[u]
      /\ stat'[t].exists = stat[t].exists /\ stat'[t].opts = opts
  BY <1>2, WholeTables DEF Stat
<1>6. SameKind
  BY <1>1, <1>4, <1>5 DEF SameKind, WInv, Uncreated, Is
<1> QED
  BY <1>1, <1>6, NoneWhole

\* Issues, retirements and burns change the amounts of the statistics.
LEMMA AmountsKeepKind ==
  ASSUME WInv, NEW t \in Token, stat[t].exists,
         \A u \in Token \ {t} : stat'[u] = stat[u],
         stat'[t].exists = stat[t].exists, stat'[t].opts = stat[t].opts
  PROVE  SameKind
  BY DEF SameKind, WInv, Uncreated, Is

LEMMA IssueWhole ==
  ASSUME WInv, NEW t \in Token, NEW to \in Owner, NEW v \in Values, NEW auth,
         Issue(t, to, v, auth)
  PROVE  Uncreated' /\ WholeDeposits'
<1> DEFINE cached == Is(t, "recallable") /\ to # Issuer[t]
           acc == accounts[t]
           new == IF cached THEN AddDeposit(t, acc, to, v) ELSE AddBalance(t, acc, to, v)
<1>1. v \in Value /\ v.amount \in Nat
  BY CallAssumption, PositiveValue DEF Issue
<1>2. /\ cached => CanAddDeposit(t, acc, to, v, auth, FALSE)
      /\ accounts' = [accounts EXCEPT ![t] = new]
  BY DEF Issue
<1>3. SameKind
  <2>1. stat' = [stat EXCEPT ![t].supply = @ + v.amount] /\ stat[t].exists
    BY DEF Issue
  <2>2. /\ \A u \in Token \ {t} : stat'[u] = stat[u]
        /\ stat'[t].exists = stat[t].exists /\ stat'[t].opts = stat[t].opts
    BY <2>1, WholeTables DEF Stat
  <2> QED
    BY <2>1, <2>2, AmountsKeepKind
<1>4. acc \in Sheet /\ Whole(t, acc)
  BY WholeTables
<1> HIDE DEF acc, cached
<1>5. Whole(t, new)
  BY <1>1, <1>2, <1>4, AddDepositWhole, AddBalanceWhole
<1> HIDE DEF new
<1> QED
  BY <1>2, <1>3, <1>5, OneWhole

LEMMA RetireWhole ==
  ASSUME WInv, NEW t \in Token, NEW from \in Owner, NEW v \in Values, NEW auth,
         Retire(t, from, v, auth)
  PROVE  Uncreated' /\ WholeDeposits'
<1> DEFINE acc == accounts[t]
           new == IF from \in auth THEN SubBalance(acc, from, v)
                                   ELSE SubDeposit(acc, from, v, FALSE)
<1>1. v \in Value /\ v.amount \in Nat
  BY CallAssumption, PositiveValue DEF Retire
<1>2. /\ from \notin auth => CanSubDeposit(t, acc, from, v, FALSE)
      /\ accounts' = [accounts EXCEPT ![t] = new]
  BY DEF Retire
<1>3. SameKind
  <2>1. stat' = [stat EXCEPT ![t].supply = @ - v.amount] /\ stat[t].exists
    BY DEF Retire
  <2>2. /\ \A u \in Token \ {t} : stat'[u] = stat[u]
        /\ stat'[t].exists = stat[t].exists /\ stat'[t].opts = stat[t].opts
    BY <2>1, WholeTables DEF Stat
  <2> QED
    BY <2>1, <2>2, AmountsKeepKind
<1>4. acc \in Sheet /\ Whole(t, acc) /\ from \in Owner
  BY WholeTables
<1> HIDE DEF acc
<1>5. Whole(t, new)
  BY <1>1, <1>2, <1>4, SubBalanceWhole, SubDepositWhole
<1> HIDE DEF new
<1> QED
  BY <1>2, <1>3, <1>5, OneWhole

LEMMA BurnWhole ==
  ASSUME WInv, NEW t \in Token, NEW owner \in Owner, NEW v \in Values, NEW auth,
         Burn(t, owner, v, auth)
  PROVE  Uncreated' /\ WholeDeposits'
<1> DEFINE acc == accounts[t]
           new == SubBalance(acc, owner, v)
<1>1. accounts' = [accounts EXCEPT ![t] = new]
  BY DEF Burn
<1>2. SameKind
  <2>1. /\ stat' = [stat EXCEPT ![t].supply = @ - v.amount, ![t].max_supply = @ - v.amount]
        /\ stat[t].exists
    BY DEF Burn
  <2>2. /\ \A u \in Token \ {t} : stat'[u] = stat[u]
        /\ stat'[t].exists = stat[t].exists /\ stat'[t].opts = stat[t].opts
    BY <2>1, WholeTables DEF Stat
  <2> QED
    BY <2>1, <2>2, AmountsKeepKind
<1>3. acc \in Sheet /\ Whole(t, acc) /\ owner \in Owner
  BY WholeTables
<1> HIDE DEF acc
<1>4. Whole(t, new)
  BY <1>3, SubBalanceWhole
<1> HIDE DEF new
<1> QED
  BY <1>1, <1>2, <1>4, OneWhole

LEMMA OpenWhole ==
  ASSUME WInv, NEW t \in Token, NEW o \in Owner, NEW auth, Open(t, o, auth)
  PROVE  Uncreated' /\ WholeDeposits'
<1> DEFINE row == OpenRow(t, Is(t, "whitelist_on") /\ Issuer[t] \in auth, stat[t].prec)
           acc == accounts[t]
           new == [acc EXCEPT ![o] = row]
<1>1. acc \in Sheet /\ Whole(t, acc) /\ stat[t] \in Stat
  BY WholeTables
<1>2. accounts' = [accounts EXCEPT ![t] = new] /\ stat' = stat
  BY WholeTables DEF Open
<1>3. WholeRow(t, row)
  <2>1. row.deposit = 0 /\ row.prec = stat[t].prec
    BY <1>1, NoRowType DEF OpenRow, NoRow
  <2>2. Scale[stat[t].prec] \in Nat \ {0}
    BY <1>1, ScaleType DEF Stat
  <2> HIDE DEF row
  <2> QED
    BY <2>1, <2>2, ZeroWhole DEF WholeRow
<1> HIDE DEF row
<1>4. \A x \in Owner : new[x] = IF x = o THEN row ELSE acc[x]
  BY <1>1 DEF Sheet
<1> HIDE DEF new
<1>5. Whole(t, new)
  BY <1>1, <1>3, <1>4 DEF Whole
<1> QED
  BY <1>2, <1>5, SameStat, OneWhole

LEMMA CloseWhole ==
  ASSUME WInv, NEW t \in Token, NEW o \in Owner, NEW auth, Close(t, o, auth)
  PROVE  Uncreated' /\ WholeDeposits'
<1> DEFINE acc == accounts[t]
           new == [acc EXCEPT ![o] = NoRow]
<1>1. acc \in Sheet /\ Whole(t, acc)
  BY WholeTables
<1>2. accounts' = [accounts EXCEPT ![t] = new] /\ stat' = stat
  BY WholeTables DEF Close
<1>3. \A x \in Owner : new[x] = NoRow \/ new[x] = acc[x]
  BY <1>1 DEF Sheet
<1> HIDE DEF new
<1>4. Whole(t, new)
  BY <1>1, <1>3, NoRowWhole DEF Whole
<1> QED
  BY <1>2, <1>4, SameStat, OneWhole

LEMMA SetAcntsOptsWhole ==
  ASSUME WInv, NEW t \in Token, NEW os, NEW flags, NEW auth, SetAcntsOpts(t, os, flags, auth)
  PROVE  Uncreated' /\ WholeDeposits'
<1> DEFINE acc == accounts[t]
           new == [o \in Owner |->
                     IF o \in os
                     THEN [acc[o] EXCEPT !.frozen = Set(flags, "frozen", @),
                                         !.whitelist = Set(flags, "whitelist", @)]
                     ELSE acc[o]]
<1>1. acc \in Sheet /\ Whole(t, acc)
  BY WholeTables
<1>2. accounts' = [accounts EXCEPT ![t] = new] /\ stat' = stat
  BY DEF SetAcntsOpts
<1>3. \A x \in Owner : new[x].deposit = acc[x].deposit /\ new[x].prec = acc[x].prec
  BY <1>1 DEF Sheet, Row
<1> HIDE DEF new, acc
<1>4. Whole(t, new)
  BY <1>1, <1>3 DEF Whole, WholeRow
<1> QED
  BY <1>2, <1>4, SameStat, OneWhole DEF acc

LEMMA MoveBalanceWhole ==
  ASSUME WInv, NEW t \in Token, NEW from \in Owner, NEW to \in Owner,
         NEW v \in Values, v.amount \in Nat, NEW auth, MoveBalance(t, from, to, v, auth),
         stat' = stat
  PROVE  Uncreated' /\ WholeDeposits'
<1> DEFINE acc == accounts[t]
           paid == SubBalance(acc, from, v)
           new == AddBalance(t, paid, to, v)
<1>1. acc \in Sheet /\ Whole(t, acc) /\ from \in Owner /\ v \in Value
  BY WholeTables, CallAssumption
<1>2. /\ CanSubBalance(t, acc, from, v)
      /\ accounts' = [accounts EXCEPT ![t] = new]
  BY DEF MoveBalance
<1> HIDE DEF acc
<1>3. paid \in Sheet /\ Whole(t, paid)
  BY <1>1, <1>2, SubBalanceLaw, SubBalanceWhole
<1> HIDE DEF paid
<1>4. Whole(t, new)
  BY <1>1, <1>3, AddBalanceWhole
<1> HIDE DEF new
<1> QED
  BY <1>2, <1>4, SameStat, OneWhole

LEMMA RecallWhole ==
  ASSUME WInv, NEW t \in Token, NEW from \in Owner, NEW to \in Owner,
         NEW v \in Values, NEW auth, Recall(t, from, to, v, auth)
  PROVE  Uncreated' /\ WholeDeposits'
<1> DEFINE acc == accounts[t]
           keep == FALSE
           taken == SubDeposit(acc, from, v, keep)
           new == AddBalance(t, taken, to, v)
<1>1. v \in Value /\ v.amount \in Nat
  BY CallAssumption, PositiveValue DEF Recall, Transferable
<1>2. acc \in Sheet /\ Whole(t, acc) /\ from \in Owner /\ keep \in BOOLEAN
  BY WholeTables
<1>3. /\ CanSubDeposit(t, acc, from, v, keep)
      /\ accounts' = [accounts EXCEPT ![t] = new] /\ stat' = stat
  BY DEF Recall
<1> HIDE DEF acc, keep
<1>4. taken \in Sheet /\ Whole(t, taken)
  BY <1>1, <1>2, <1>3, SubDepositLaw, SubDepositWhole
<1> HIDE DEF taken
<1>5. Whole(t, new)
  BY <1>1, <1>4, AddBalanceWhole
<1> HIDE DEF new
<1> QED
  BY <1>3, <1>5, SameStat, OneWhole

LEMMA DepositWhole ==
  ASSUME WInv, NEW t \in Token, NEW from \in Owner, NEW v \in Values, NEW auth,
         Deposit(t, from, v, auth)
  PROVE  Uncreated' /\ WholeDeposits'
<1> DEFINE acc == accounts[t]
           paid == SubBalance(acc, from, v)
           new == AddDeposit(t, paid, from, v)
<1>1. v \in Value /\ v.amount \in Nat
  BY CallAssumption, PositiveValue DEF Deposit
<1>2. acc \in Sheet /\ Whole(t, acc) /\ from \in Owner
  BY WholeTables
<1>3. /\ CanSubBalance(t, acc, from, v) /\ CanAddDeposit(t, paid, from, v, auth, FALSE)
      /\ accounts' = [accounts EXCEPT ![t] = new] /\ stat' = stat
  BY DEF Deposit
<1> HIDE DEF acc
<1>4. paid \in Sheet /\ Whole(t, paid)
  BY <1>1, <1>2, <1>3, SubBalanceLaw, SubBalanceWhole
<1> HIDE DEF paid
<1>5. Whole(t, new)
  BY <1>1, <1>2, <1>3, <1>4, AddDepositWhole
<1> HIDE DEF new
<1> QED
  BY <1>3, <1>5, SameStat, OneWhole

LEMMA PopWithdrawWhole ==
  ASSUME WInv, NEW t \in Token, NEW from \in Requesters, NEW auth, PopWithdraw(t, from, auth)
  PROVE  Uncreated' /\ WholeDeposits'
<1> DEFINE acc == accounts[t]
           v == Requested(requests, from, t)
           paid == SubBalance(acc, TokenContract, v)
           new == AddDeposit(t, paid, from, v)
<1>1. /\ acc \in Sheet /\ Whole(t, acc) /\ from \in Owner /\ TokenContract \in Owner
      /\ requests \in Requests /\ TypeOK
  BY WholeTables, ChainAssumption
<1>2. v \in Value /\ v.amount \in Nat
  <2>1. requests[from][t].amount \in Nat
    BY <1>1, AskedType
  <2> QED
    BY <1>1, <2>1 DEF Requested, Value, TypeOK, Stat
<1>3. /\ CanSubBalance(t, acc, TokenContract, v)
      /\ CanAddDeposit(t, paid, from, v, auth, FALSE)
      /\ accounts' = [accounts EXCEPT ![t] = new] /\ stat' = stat
  BY DEF PopWithdraw
<1> HIDE DEF v, acc
<1>4. paid \in Sheet /\ Whole(t, paid)
  BY <1>1, <1>2, <1>3, SubBalanceLaw, SubBalanceWhole
<1> HIDE DEF paid
<1>5. Whole(t, new)
  BY <1>1, <1>2, <1>3, <1>4, AddDepositWhole
<1> HIDE DEF new
<1> QED
  BY <1>3, <1>5, SameStat, OneWhole

\* A step that refreshes the schedule, after it has changed one token's rows.
LEMMA RefreshOneWhole ==
  ASSUME WInv, NEW t \in Token, NEW new \in Sheet, Whole(t, new),
         NEW accs, accs = [accounts EXCEPT ![t] = new],
         NEW reqs \in Requests, NEW o \in Owner, NEW auth,
         RefreshSchedule(accs, reqs, o, auth), stat' = stat
  PROVE  Uncreated' /\ WholeDeposits'
<1>1. accs \in [Token -> Sheet] /\ TypeOK
  BY WholeTables
<1>2. ASSUME NEW u \in Token
      PROVE  Whole(u, accounts'[u])
  <2>1. accs[u] = IF u = t THEN new ELSE accounts[u]
    BY WholeTables
  <2>2. Whole(u, accs[u])
    BY <2>1, WholeTables
  <2> QED
    BY <1>1, <2>2, RefreshWhole
<1> QED
  BY <1>2, SameStat, WholeThen

LEMMA ClrWithdrawsWhole ==
  ASSUME WInv, NEW o \in Owner, NEW auth, ClrWithdraws(o, auth)
  PROVE  Uncreated' /\ WholeDeposits'
<1>1. RefreshSchedule(accounts, requests, o, auth) /\ stat' = stat
  BY DEF ClrWithdraws
<1>2. ASSUME NEW u \in Token
      PROVE  Whole(u, accounts'[u])
  BY <1>1, WholeTables, RefreshWhole
<1> QED
  BY <1>1, <1>2, SameStat, WholeThen

LEMMA FireDeferredWhole ==
  ASSUME WInv, NEW o \in Owner, FireDeferred(o)
  PROVE  Uncreated' /\ WholeDeposits'
<1>1. CASE RunDeferred(o)
  BY <1>1, ClrWithdrawsWhole DEF RunDeferred
<1>2. CASE DropDeferred(o)
  BY <1>2, SameStat, NoneWhole DEF DropDeferred
<1> QED
  BY <1>1, <1>2 DEF FireDeferred

LEMMA PushWithdrawWhole ==
  ASSUME WInv, NEW t \in Token, NEW from \in Requesters, NEW v \in Values, NEW auth,
         PushWithdraw(t, from, v, auth)
  PROVE  Uncreated' /\ WholeDeposits'
<1> DEFINE at == (now + stat[t].duration) % TimeMod
           acc == accounts[t]
           keep == TRUE
           taken == SubDeposit(acc, from, v, keep)
           new == AddBalance(t, taken, TokenContract, v)
           accs == [accounts EXCEPT ![t] = new]
           reqs == [requests EXCEPT ![from][t] =
                      [amount |-> @.amount + v.amount, at |-> at]]
<1>1. v \in Value /\ v.amount \in Nat
  BY CallAssumption, PositiveValue DEF PushWithdraw
<1>2. /\ acc \in Sheet /\ Whole(t, acc) /\ from \in Owner /\ TokenContract \in Owner
      /\ keep \in BOOLEAN /\ requests \in Requests
  BY WholeTables, ChainAssumption
<1>3. /\ CanSubDeposit(t, acc, from, v, keep)
      /\ RefreshSchedule(accs, reqs, from, {from}) /\ stat' = stat
  BY DEF PushWithdraw
<1>4. at \in Nat
  <2>1. now + stat[t].duration \in Nat /\ TimeMod \in Nat \ {0}
    BY ChainAssumption DEF WInv, IInv, TypeOK, Stat
  <2> QED
    BY <2>1
<1> HIDE DEF keep, at, acc
<1>5. taken \in Sheet /\ Whole(t, taken)
  BY <1>1, <1>2, <1>3, SubDepositLaw, SubDepositWhole
<1> HIDE DEF taken
<1>6. new \in Sheet /\ Whole(t, new)
  BY <1>1, <1>2, <1>5, AddLaw, AddBalanceWhole
<1> HIDE DEF new
<1>7. reqs \in Requests
  <2>1. requests[from][t].amount + v.amount \in Nat
    BY <1>1, <1>2, AskedType
  <2> QED
    BY <1>2, <1>4, <2>1 DEF Requests, Request
<1> HIDE DEF reqs
<1>8. accs = [accounts EXCEPT ![t] = new]
  OBVIOUS
<1> HIDE DEF accs
<1> QED
  BY <1>2, <1>3, <1>6, <1>7, <1>8, RefreshOneWhole

LEMMA RecallPendingWhole ==
  ASSUME WInv, NEW t \in Token, NEW from \in Requesters, NEW to \in Owner, NEW v \in Values,
         NEW auth, RecallPending(t, from, to, v, auth)
  PROVE  Uncreated' /\ WholeDeposits'
<1> DEFINE acc == accounts[t]
           keep == FALSE
           rest == [amount |-> acc[from].deposit, prec |-> v.prec]
           leftover == [amount |-> v.amount - acc[from].deposit, prec |-> v.prec]
           uncustodied == SubBalance(acc, TokenContract, leftover)
           taken == SubDeposit(uncustodied, from, rest, keep)
           new == AddBalance(t, taken, to, v)
           accs == [accounts EXCEPT ![t] = new]
           none == Erase(requests, from, {t})
<1>1. v \in Value /\ v.amount \in Nat /\ v.prec \in Precision
  <2>1. v \in Value /\ Positive(v)
    BY CallAssumption DEF RecallPending, Transferable
  <2> QED
    BY <2>1, PositiveValue DEF Value
<1>2. /\ leftover.amount > 0
      /\ CanSubBalance(t, acc, TokenContract, leftover)
      /\ CanSubDeposit(t, uncustodied, from, rest, keep)
      /\ accounts' = accs \/ RefreshSchedule(accs, none, from, {from})
      /\ stat' = stat
  BY DEF RecallPending
<1>3. /\ acc \in Sheet /\ Whole(t, acc) /\ from \in Owner /\ TokenContract \in Owner
      /\ keep \in BOOLEAN /\ requests \in Requests
  BY WholeTables, ChainAssumption
<1>4. acc[from].deposit \in Nat
  BY <1>3, SheetRow
<1>5. /\ rest \in Value /\ rest.amount \in Nat
      /\ leftover \in Value /\ leftover.amount \in Nat
  BY <1>1, <1>2, <1>4 DEF Value
<1> HIDE DEF acc, rest, leftover, keep
<1>6. uncustodied \in Sheet /\ Whole(t, uncustodied)
  BY <1>2, <1>3, <1>5, SubBalanceLaw, SubBalanceWhole
<1> HIDE DEF uncustodied
<1>7. taken \in Sheet /\ Whole(t, taken)
  <2>1. CanSubDeposit(t, uncustodied, from, rest, keep)
    BY <1>2
  <2> QED
    BY <1>3, <1>5, <1>6, <2>1, SubDepositLaw, SubDepositWhole
<1> HIDE DEF taken
<1>8. new \in Sheet /\ Whole(t, new)
  BY <1>1, <1>7, AddLaw, AddBalanceWhole
<1>9. none \in Requests
  BY <1>3, Erased
<1> HIDE DEF new, none
<1>10. accs = [accounts EXCEPT ![t] = new]
  OBVIOUS
<1> HIDE DEF accs
<1>11. CASE accounts' = accs
  BY <1>2, <1>8, <1>10, <1>11, SameStat, OneWhole
<1>12. CASE RefreshSchedule(accs, none, from, {from})
  BY <1>2, <1>3, <1>8, <1>9, <1>10, <1>12, RefreshOneWhole
<1> QED
  BY <1>2, <1>11, <1>12

LEMMA InitWInv == Init => WInv
<1> SUFFICES ASSUME Init PROVE WInv
  OBVIOUS
<1>1. IInv
  BY InitIInv
<1>2. Uncreated
  BY DEF Init, Uncreated
<1>3. ASSUME NEW t \in Token, NEW o \in Owner
      PROVE  WholeRow(t, accounts[t][o])
  BY NoRowWhole DEF Init
<1> QED
  BY <1>1, <1>2, <1>3 DEF WInv, WholeDeposits, WholeRow

LEMMA NextWInv == WInv /\ [Next]_vars => WInv'
<1> SUFFICES ASSUME WInv, [Next]_vars PROVE WInv'
  OBVIOUS
<1>1. IInv'
  BY NextIInv DEF WInv
<1> DEFINE Goal == Uncreated' /\ WholeDeposits'
<1>2. ASSUME NEW t \in Token, NEW auth \in AuthSets, TokenCall(t, auth)
      PROVE  Goal
  BY <1>2, CreateWhole, MintMoreWhole, SetOptsWhole, IssueWhole, RetireWhole, BurnWhole
     DEF TokenCall
<1>3. ASSUME NEW t \in Token, NEW auth \in AuthSets, AccountCall(t, auth)
      PROVE  Goal
  <2>1. ASSUME NEW o \in Owner, NEW s \in Spenders, NEW v \in Values, Approve(t, o, s, v, auth)
        PROVE  Goal
    BY <2>1, SameStat, NoneWhole DEF Approve
  <2> QED
    BY <1>3, <2>1, OpenWhole, CloseWhole, SetAcntsOptsWhole, CallAssumption DEF AccountCall
<1>4. ASSUME NEW t \in Token, NEW auth \in AuthSets, TransferCall(t, auth)
      PROVE  Goal
  <2>1. PICK v \in Values, from \in Owner, to \in Owner :
           \/ Transfer(t, from, to, v, auth)
           \/ TransferAllowed(t, from, to, v, auth)
           \/ Recall(t, from, to, v, auth)
           \/ from \in Requesters /\ RecallPending(t, from, to, v, auth)
    BY <1>4, CallAssumption DEF TransferCall
  <2>2. CASE Transfer(t, from, to, v, auth)
    <3>1. v.amount \in Nat /\ MoveBalance(t, from, to, v, auth) /\ stat' = stat
      BY <2>2, CallAssumption, PositiveValue DEF Transfer, Transferable
    <3> QED
      BY <3>1, MoveBalanceWhole
  <2>3. CASE TransferAllowed(t, from, to, v, auth)
    <3>1. v.amount \in Nat /\ MoveBalance(t, from, to, v, auth) /\ stat' = stat
      BY <2>3, CallAssumption, PositiveValue DEF TransferAllowed, Transferable
    <3> QED
      BY <3>1, MoveBalanceWhole
  <2> QED
    BY <2>1, <2>2, <2>3, RecallWhole, RecallPendingWhole
<1>5. ASSUME NEW t \in Token, NEW auth \in AuthSets, WithdrawCall(t, auth)
      PROVE  Goal
  BY <1>5, DepositWhole, PushWithdrawWhole, PopWithdrawWhole DEF WithdrawCall
<1>6. ASSUME NEW o \in Requesters, NEW auth \in AuthSets, ClrWithdraws(o, auth)
      PROVE  Goal
  BY <1>6, WholeTables, ClrWithdrawsWhole
<1>7. ASSUME NEW o \in Owner, FireDeferred(o)
      PROVE  Goal
  BY <1>7, FireDeferredWhole
<1>8. ASSUME Tick
      PROVE  Goal
  BY <1>8, SameStat, NoneWhole DEF Tick
<1>9. ASSUME UNCHANGED vars
      PROVE  Goal
  BY <1>9, SameStat, NoneWhole DEF vars
<1>10. Goal
  BY <1>2, <1>3, <1>4, <1>5, <1>6, <1>7, <1>8, <1>9 DEF Next
<1> QED
  BY <1>1, <1>10 DEF WInv

LEMMA WholeInvariant == Spec => []WInv
  BY InitWInv, NextWInv, PTL DEF Spec

\* No deposit of a token that is not floatable ever holds a fraction of it: not
\* by transfers, recalls that go on to the pending withdrawal, cancellations, or
\* settlements that come back as deposit, for any precisions and any option
\* changes.
THEOREM DepositsWhole == Spec => []WholeDeposits
<1>1. WInv => WholeDeposits
  BY DEF WInv
<1> QED
  BY <1>1, WholeInvariant, PTL

-----------------------------------------------------------------------------
(* AlarmSet.  A deferred transaction is dropped when a check of what it does *)
(* fails, and nothing sets it again; so the alarm is kept where a request    *)
(* that is due is refused only for want of the contract's balance.           *)

\* Tokens of one precision, of which whole ones are moved, and which have no
\* whitelist: what may be refused is then refused at the request already.
Plain ==
    /\ \A p, q \in Precision : p = q
    /\ \A v \in Values : v.amount \in Nat => v.amount % Scale[v.prec] = 0
    /\ \A c \in MintOptions : "whitelistable" \in DOMAIN c.flags => ~c.flags["whitelistable"]

\* No token can be whitelisted.
Unlisted == \A t \in Token : {"whitelistable", "whitelist_on"} \cap stat[t].opts = {}

\* A request may be paid as deposit, and the contract makes none.
WholeAsked(t, n) == Is(t, "floatable") \/ n % Scale[stat[t].prec] = 0
Payable(reqs) ==
    \A t \in Token : /\ reqs[TokenContract][t].amount = 0
                     /\ \A o \in Owner : WholeAsked(t, reqs[o][t].amount)

SInv == WInv /\ Unlisted /\ Payable(requests)

LEMMA PlainTables ==
  ASSUME SInv
  PROVE  /\ IInv /\ WInv /\ TypeOK /\ Unlisted /\ Payable(requests)
         /\ requests \in Requests /\ stat \in [Token -> Stat]
         /\ accounts \in [Token -> Sheet]
         /\ \A t \in Token : Whole(t, accounts[t])
         /\ deferred \in [Owner -> Nat \cup {None}]
         /\ Requesters \subseteq Owner /\ TokenContract \notin Requesters /\ TokenContract \in Owner
<1>1. IInv /\ WInv /\ TypeOK /\ Unlisted /\ Payable(requests)
  BY DEF SInv, WInv, IInv
<1>2. requests \in Requests /\ accounts \in [Token -> Sheet]
  BY <1>1 DEF IInv, TypeOK, ClosedEmpty, Requests
<1> QED
  BY <1>1, <1>2, WholeTables, ChainAssumption, CallAssumption DEF TypeOK

\* A request that the contract's balance covers can be settled: the contract is
\* exempt from freezes, and a frozen owner is paid as deposit.
LEMMA CanPay ==
  ASSUME Plain, NEW t \in Token, ~Is(t, "whitelist_on"), NEW acc \in Sheet,
         NEW o \in Owner \ {TokenContract}, TokenContract \in Owner,
         NEW v \in Value, v.amount \in Nat, v.amount > 0, Floats(t, v),
         v.amount <= acc[TokenContract].balance, NEW auth, NEW garbage
  PROVE  CanSettle(t, acc, o, v, auth, garbage)
<1> DEFINE paid == SubBalance(acc, TokenContract, v)
<1>1. /\ acc[TokenContract] \in Row /\ acc[o] \in Row
      /\ acc[TokenContract].open \/ acc[TokenContract].balance = 0
  BY SheetRow
<1>2. v.prec = acc[TokenContract].prec /\ v.prec = acc[o].prec
  BY <1>1 DEF Plain, Value, Row
<1>3. acc[TokenContract].open
  BY <1>1 DEF Row
<1>4. CanSubBalance(t, acc, TokenContract, v)
  BY <1>2, <1>3 DEF CanSubBalance, Usable
<1>5. paid[o] = acc[o]
  BY DEF SubBalance, Sheet
<1> HIDE DEF paid
<1>6. CASE ReadsFrozen(t, paid[o], garbage)
  <2>1. CanAddDeposit(t, paid, o, v, auth, TRUE)
    BY <1>2, <1>5 DEF CanAddDeposit, CanCredit
  <2> QED
    BY <1>4, <1>6, <2>1 DEF CanSettle, paid
<1>7. CASE ~ReadsFrozen(t, paid[o], garbage)
  <2>1. acc[o].open => ~acc[o].frozen
    BY <1>5, <1>7 DEF ReadsFrozen
  <2>2. CanAddBalance(t, paid, o, v, auth)
    BY <1>2, <1>5, <2>1 DEF CanAddBalance, CanCredit, Usable
  <2> QED
    BY <1>4, <1>7, <2>2 DEF CanSettle, paid
<1> QED
  BY <1>6, <1>7

\* What is due can be cleared as long as the contract's balance pays it,
\* whatever is read of rows that are not there.
LEMMA NothingRefused ==
  ASSUME Plain, SInv, NEW o \in Owner, NEW auth, NEW garbage,
         \A u \in Due(requests, o) : ~Short(u, o)
  PROVE  CanClear(accounts, requests, o, auth, garbage)
<1> SUFFICES ASSUME NEW t \in Due(requests, o)
             PROVE  CanSettle(t, accounts[t], o, Requested(requests, o, t), auth, garbage)
  BY DEF CanClear
<1> DEFINE v == Requested(requests, o, t)
<1>1. t \in Token /\ requests[o][t].amount > 0
  BY DEF Due, Pending
<1>2. v \in Value /\ v.amount = requests[o][t].amount /\ v.prec = stat[t].prec
  BY <1>1, PlainTables DEF Requested, Value, Requests, Request, Stat
<1>3. v.amount \in Nat /\ v.amount > 0
  BY <1>1, <1>2, PlainTables DEF Requests, Request
<1>4. o # TokenContract
  BY <1>1, PlainTables DEF Payable
<1>5. ~Is(t, "whitelist_on")
  BY <1>1, PlainTables DEF Unlisted, Is
<1>6. Floats(t, v)
  BY <1>1, <1>2, PlainTables DEF Payable, WholeAsked, Floats
<1>7. v.amount <= accounts[t][TokenContract].balance
  <2>1. accounts[t][TokenContract].balance \in Nat /\ requests[o][t].amount \in Nat
    BY <1>1, PlainTables, SheetRow DEF Requests, Request
  <2> QED
    BY <1>2, <2>1 DEF Short
<1>8. accounts[t] \in Sheet /\ TokenContract \in Owner
  BY <1>1, PlainTables
<1> HIDE DEF v
<1>9. CanSettle(t, accounts[t], o, v, auth, garbage)
  BY <1>1, <1>2, <1>3, <1>4, <1>5, <1>6, <1>7, <1>8, CanPay
<1> QED
  BY <1>9 DEF v

-----------------------------------------------------------------------------
(* What the steps keep.                                                     *)

\* The first of the requests is not later than any of them.
LEMMA HeadFirst ==
  ASSUME NEW reqs \in Requests, NEW o \in Owner, NEW t \in Pending(reqs, o)
  PROVE  HeadTime(reqs, o) # None /\ HeadTime(reqs, o) <= reqs[o][t].at
<1> DEFINE pending == Pending(reqs, o)
           times == {reqs[o][u].at : u \in pending}
           head == CHOOSE x \in pending : \A y \in pending : reqs[o][x].at <= reqs[o][y].at
<1>1. pending \subseteq Token /\ \A u \in Token : reqs[o][u].at \in Nat
  BY DEF Pending, Requests, Request
<1>2. times \in SUBSET Nat /\ times # {}
  BY <1>1
<1>3. PICK n \in times : \A m \in times : n <= m
  BY <1>2, LeastNatural
<1>4. \E x \in pending : \A y \in pending : reqs[o][x].at <= reqs[o][y].at
  BY <1>3
<1>5. head \in pending /\ \A y \in pending : reqs[o][head].at <= reqs[o][y].at
  BY <1>4
<1>6. HeadTime(reqs, o) = reqs[o][head].at
  BY DEF HeadTime
<1> HIDE DEF head
<1>7. reqs[o][head].at \in Nat
  BY <1>1, <1>5
<1> QED
  BY <1>5, <1>6, <1>7 DEF None

\* What `AlarmSet` says of one step.
AlarmsStay ==
    \A t \in Token, o \in Owner :
        Alarmed(t, o) /\ ~Alarmed(t, o)' =>
            Expired(o) /\ \E u \in Due(requests, o) : Short(u, o)

\* It, and the part of SInv that WInv does not have.
AlarmStep == Unlisted' /\ Payable(requests)' /\ AlarmsStay

\* The statistics stay unlisted, and fractions that are allowed stay so.
Lenient ==
    /\ Unlisted'
    /\ \A t \in Token : /\ stat'[t].prec \in Precision
                        /\ Is(t, "floatable") => Is(t, "floatable")'

LEMMA SameLenient ==
  ASSUME SInv, stat' = stat
  PROVE  Lenient
  BY PlainTables DEF Lenient, Unlisted, Is, Stat

\* Requests that could be paid before can be paid afterwards.
LEMMA LenientPays ==
  ASSUME Plain, SInv, Lenient, Payable(requests')
  PROVE  Payable(requests)'
<1>1. ASSUME NEW t \in Token
      PROVE  stat'[t].prec = stat[t].prec
  BY PlainTables DEF Plain, Lenient, Stat
<1> QED
  BY <1>1 DEF Lenient, Payable, WholeAsked, Is

\* No request is touched.
LEMMA AlarmKept ==
  ASSUME Plain, SInv, Lenient, requests' = requests, deferred' = deferred
  PROVE  AlarmStep
<1>1. Payable(requests')
  BY PlainTables
<1>2. Payable(requests)'
  BY <1>1, LenientPays
<1>3. AlarmsStay
  BY PlainTables DEF AlarmsStay, Alarmed, Pending
<1> QED
  BY <1>2, <1>3 DEF AlarmStep, Lenient

\* Requests are taken away or lowered, and none is put off.
LEMMA FewerAsked ==
  ASSUME Plain, SInv, stat' = stat, requests' \in Requests, Payable(requests'),
         deferred' = deferred,
         \A o \in Owner, t \in Token :
             requests'[o][t].amount > 0 =>
                 /\ requests[o][t].amount > 0
                 /\ requests'[o][t].at = requests[o][t].at
  PROVE  AlarmStep
<1>1. Unlisted' /\ Payable(requests)'
  BY SameLenient, LenientPays DEF Lenient
<1>2. AlarmsStay
  BY PlainTables DEF AlarmsStay, Alarmed, Pending
<1> QED
  BY <1>1, <1>2 DEF AlarmStep

\* The schedule of one owner is refreshed.
LEMMA RefreshAlarm ==
  ASSUME Plain, SInv, stat' = stat, NEW reqs \in Requests, Payable(reqs),
         NEW o \in Owner, \A x \in Owner \ {o} : reqs[x] = requests[x],
         NEW accs, NEW auth, RefreshSchedule(accs, reqs, o, auth)
  PROVE  AlarmStep
<1> DEFINE rest == Erase(reqs, o, Due(reqs, o))
<1>1. requests' = rest /\ deferred' = [deferred EXCEPT ![o] = HeadTime(rest, o)]
  BY DEF RefreshSchedule
<1>2. /\ rest \in Requests
      /\ \A x \in Owner \ {o} : rest[x] = requests[x]
      /\ \A x \in Owner, t \in Token : rest[x][t] = NoRequest \/ rest[x][t] = reqs[x][t]
  BY Erased
<1> HIDE DEF rest
<1>3. Payable(rest)
  <2>1. ASSUME NEW t \in Token
        PROVE  WholeAsked(t, 0)
    BY PlainTables, ScaleType, ZeroWhole DEF WholeAsked, Stat
  <2>2. ASSUME NEW t \in Token PROVE rest[TokenContract][t].amount = 0
    <3>1. reqs[TokenContract][t].amount = 0
      BY DEF Payable
    <3> QED
      BY <1>2, <3>1, ChainAssumption DEF NoRequest
  <2>3. ASSUME NEW t \in Token, NEW x \in Owner PROVE WholeAsked(t, rest[x][t].amount)
    <3>1. WholeAsked(t, reqs[x][t].amount)
      BY DEF Payable
    <3> QED
      BY <1>2, <2>1, <3>1 DEF NoRequest
  <2> QED
    BY <2>2, <2>3 DEF Payable
<1>4. Unlisted' /\ Payable(requests)'
  BY <1>1, <1>3, SameLenient, LenientPays DEF Lenient
<1>5. ASSUME NEW x \in Owner, NEW t \in Token, Alarmed(t, x)
      PROVE  Alarmed(t, x)'
  <2>1. CASE x = o
    <3>1. deferred'[o] = HeadTime(rest, o)
      BY <1>1, PlainTables
    <3> QED
      BY <1>1, <1>2, <2>1, <3>1, HeadFirst DEF Alarmed
  <2>2. CASE x # o
    <3>1. deferred'[x] = deferred[x] /\ requests'[x] = requests[x]
      BY <1>1, <1>2, <2>2, PlainTables
    <3> QED
      BY <1>5, <3>1 DEF Alarmed, Pending
  <2> QED
    BY <2>1, <2>2
<1> QED
  BY <1>4, <1>5 DEF AlarmStep, AlarmsStay

-----------------------------------------------------------------------------
(* The actions.                                                             *)

LEMMA LenientUpdate ==
  ASSUME SInv, NEW t \in Token, NEW opts, NEW p \in Precision,
         \A u \in Token \ {t} : stat'[u] = stat[u],
         stat'[t].opts = opts, stat'[t].prec = p,
         {"whitelistable", "whitelist_on"} \cap opts = {},
         Is(t, "floatable") => "floatable" \in opts
  PROVE  Lenient
<1>1. \A u \in Token : stat[u].prec \in Precision
  BY PlainTables DEF Stat
<1> QED
  BY <1>1, PlainTables DEF Lenient, Unlisted, Is

LEMMA CreateLenient ==
  ASSUME Plain, SInv, NEW t \in Token, NEW v \in Values, NEW c \in MintOptions, NEW auth,
         Create(t, v, c, auth)
  PROVE  Lenient
<1> DEFINE opts == WithFlags({"mintable", "recallable", "freezable"}, c.flags)
<1>1. OptionsAllowed(opts, TRUE) /\ ~stat[t].exists
  BY DEF Create
<1>2. /\ \A u \in Token \ {t} : stat'[u] = stat[u]
      /\ stat'[t].opts = opts /\ stat'[t].prec = v.prec
  BY PlainTables DEF Create
<1>3. "whitelistable" \notin opts
  BY DEF WithFlags, Plain, Option
<1> HIDE DEF opts
<1>4. {"whitelistable", "whitelist_on"} \cap opts = {}
  BY <1>1, <1>3 DEF OptionsAllowed
<1>5. ~Is(t, "floatable")
  BY <1>1, PlainTables DEF WInv, Uncreated, Is, NoStat
<1>6. v.prec \in Precision
  BY CallAssumption DEF Value
<1> QED
  BY <1>2, <1>4, <1>5, <1>6, LenientUpdate

LEMMA FlagsLenient ==
  ASSUME SInv, NEW t \in Token, NEW flags, Changeable(flags),
         OptionsAllowed(WithFlags(stat[t].opts, flags), FALSE)
  PROVE  /\ {"whitelistable", "whitelist_on"} \cap WithFlags(stat[t].opts, flags) = {}
         /\ Is(t, "floatable") => "floatable" \in WithFlags(stat[t].opts, flags)
<1> DEFINE opts == WithFlags(stat[t].opts, flags)
<1>1. "whitelistable" \notin stat[t].opts /\ stat[t].opts \in SUBSET Option
  BY PlainTables DEF Unlisted, Stat
<1>2. "whitelistable" \notin opts
  BY <1>1 DEF WithFlags, Changeable
<1>3. Is(t, "floatable") => "floatable" \in opts
  BY <1>1, FlagsKeepKind DEF Is
<1> HIDE DEF opts
<1>4. OptionsAllowed(opts, FALSE)
  BY DEF opts
<1>5. {"whitelistable", "whitelist_on"} \cap opts = {}
  BY <1>2, <1>4 DEF OptionsAllowed
<1> QED
  BY <1>3, <1>5 DEF opts

LEMMA TokenCallAlarm ==
  ASSUME Plain, SInv, NEW t \in Token, NEW auth, TokenCall(t, auth)
  PROVE  AlarmStep
<1>1. requests' = requests /\ deferred' = deferred
  BY DEF TokenCall, Create, MintMore, SetOpts, Issue, Retire, Burn
<1>2. stat[t].prec \in Precision /\ stat[t].opts \cap {"whitelistable", "whitelist_on"} = {}
  BY PlainTables DEF Stat, Unlisted
<1>3. CASE \E v \in Values, c \in MintOptions : Create(t, v, c, auth)
  BY <1>1, <1>3, CreateLenient, AlarmKept
<1>4. ASSUME NEW v \in Values, NEW flags \in OptionLists, MintMore(t, v, flags, auth)
      PROVE  AlarmStep
  <2> DEFINE opts == WithFlags(stat[t].opts, flags)
  <2>1. Changeable(flags) /\ OptionsAllowed(opts, FALSE)
    BY <1>4 DEF MintMore
  <2>2. stat' = [stat EXCEPT ![t].max_supply = @ + v.amount, ![t].opts = opts]
    BY <1>4 DEF MintMore
  <2> HIDE DEF opts
  <2>3. /\ \A u \in Token \ {t} : stat'[u] = stat[u]
        /\ stat'[t].opts = opts /\ stat'[t].prec = stat[t].prec
    BY <2>2, PlainTables DEF Stat
  <2>4. /\ {"whitelistable", "whitelist_on"} \cap opts = {}
        /\ Is(t, "floatable") => "floatable" \in opts
    BY <2>1, FlagsLenient DEF opts
  <2>5. Lenient
    BY <1>2, <2>3, <2>4, LenientUpdate
  <2> QED
    BY <1>1, <2>5, AlarmKept
<1>5. ASSUME NEW flags \in OptionLists, SetOpts(t, flags, auth)
      PROVE  AlarmStep
  <2> DEFINE opts == WithFlags(stat[t].opts, flags)
  <2>1. Changeable(flags) /\ OptionsAllowed(opts, FALSE)
    BY <1>5 DEF SetOpts
  <2>2. stat' = [stat EXCEPT ![t].opts = opts]
    BY <1>5 DEF SetOpts
  <2> HIDE DEF opts
  <2>3. /\ \A u \in Token \ {t} : stat'[u] = stat[u]
        /\ stat'[t].opts = opts /\ stat'[t].prec = stat[t].prec
    BY <2>2, PlainTables DEF Stat
  <2>4. /\ {"whitelistable", "whitelist_on"} \cap opts = {}
        /\ Is(t, "floatable") => "floatable" \in opts
    BY <2>1, FlagsLenient DEF opts
  <2>5. Lenient
    BY <1>2, <2>3, <2>4, LenientUpdate
  <2> QED
    BY <1>1, <2>5, AlarmKept
<1>6. ASSUME /\ \A u \in Token \ {t} : stat'[u] = stat[u]
             /\ stat'[t].opts = stat[t].opts /\ stat'[t].prec = stat[t].prec
      PROVE  AlarmStep
  <2>1. Lenient
    BY <1>2, <1>6, LenientUpdate DEF Is
  <2> QED
    BY <1>1, <2>1, AlarmKept
<1>7. ASSUME NEW v \in Values, NEW o \in Owner,
             Issue(t, o, v, auth) \/ Retire(t, o, v, auth) \/ Burn(t, o, v, auth)
      PROVE  AlarmStep
  <2>1. \/ stat' = [stat EXCEPT ![t].supply = @ + v.amount]
        \/ stat' = [stat EXCEPT ![t].supply = @ - v.amount]
        \/ stat' = [stat EXCEPT ![t].supply = @ - v.amount, ![t].max_supply = @ - v.amount]
    BY <1>7 DEF Issue, Retire, Burn
  <2>2. /\ \A u \in Token \ {t} : stat'[u] = stat[u]
        /\ stat'[t].opts = stat[t].opts /\ stat'[t].prec = stat[t].prec
    BY <2>1, PlainTables DEF Stat
  <2> QED
    BY <1>6, <2>2
<1> QED
  BY <1>3, <1>4, <1>5, <1>7, PlainTables DEF TokenCall

LEMMA ScaleSame ==
  ASSUME Plain, NEW p \in Precision, NEW q \in Precision
  PROVE  Scale[p] = Scale[q] /\ Scale[p] \in Nat \ {0}
  BY ScaleType DEF Plain

LEMMA PushWithdrawAlarm ==
  ASSUME Plain, SInv, NEW t \in Token, NEW from \in Requesters, NEW v \in Values, NEW auth,
         PushWithdraw(t, from, v, auth)
  PROVE  AlarmStep
<1> DEFINE at == (now + stat[t].duration) % TimeMod
           taken == SubDeposit(accounts[t], from, v, TRUE)
           accs == [accounts EXCEPT ![t] = AddBalance(t, taken, TokenContract, v)]
           reqs == [requests EXCEPT ![from][t] = [amount |-> @.amount + v.amount, at |-> at]]
<1>1. /\ RefreshSchedule(accs, reqs, from, {from}) /\ stat' = stat
      /\ CanSubDeposit(t, accounts[t], from, v, TRUE) /\ Positive(v)
  BY DEF PushWithdraw
<1>2. v \in Value /\ v.amount \in Nat /\ from \in Owner /\ from # TokenContract
  BY <1>1, CallAssumption, PositiveValue, PlainTables
<1>3. requests[from][t].amount \in Nat /\ at \in Nat
  BY PlainTables, ChainAssumption DEF Requests, Request, TypeOK, Stat
<1> HIDE DEF at, accs
<1>4. /\ reqs \in Requests
      /\ \A x \in Owner \ {from} : reqs[x] = requests[x]
      /\ \A u \in Token \ {t} : reqs[from][u] = requests[from][u]
      /\ reqs[from][t].amount = requests[from][t].amount + v.amount
  BY <1>2, <1>3, PlainTables DEF Requests, Request
<1> HIDE DEF reqs
<1>5. WholeAsked(t, requests[from][t].amount) /\ Floats(t, v)
  BY <1>1, <1>2, PlainTables DEF Payable, CanSubDeposit
<1>6. WholeAsked(t, reqs[from][t].amount)
  <2>1. /\ Scale[v.prec] = Scale[stat[t].prec] /\ Scale[v.prec] \in Nat \ {0}
    BY <1>2, PlainTables, ScaleSame DEF Value, Stat
  <2> DEFINE a == requests[from][t].amount
             b == v.amount
             s == Scale[v.prec]
  <2>2. a \in Nat /\ b \in Nat /\ s \in Nat \ {0}
    BY <1>2, <1>3, <2>1
  <2>3. Is(t, "floatable") \/ (a % s = 0 /\ b % s = 0)
    BY <1>5, <2>1 DEF WholeAsked, Floats
  <2> HIDE DEF a, b, s
  <2>4. Is(t, "floatable") \/ (a + b) % s = 0
    BY <2>2, <2>3, WholeSum
  <2> QED
    BY <1>4, <2>1, <2>4 DEF a, b, s, WholeAsked
<1>7. Payable(reqs)
  BY <1>2, <1>4, <1>6, PlainTables DEF Payable
<1> QED
  BY <1>1, <1>2, <1>4, <1>7, RefreshAlarm

LEMMA ErasedPayable ==
  ASSUME Plain, SInv, NEW o \in Owner, NEW ts
  PROVE  Payable(Erase(requests, o, ts))
<1>1. \A x \in Owner, t \in Token : \/ Erase(requests, o, ts)[x][t] = NoRequest
                                    \/ Erase(requests, o, ts)[x][t] = requests[x][t]
  BY PlainTables, Erased
<1>2. ASSUME NEW t \in Token
      PROVE  WholeAsked(t, 0)
  BY PlainTables, ScaleType, ZeroWhole DEF WholeAsked, Stat
<1> QED
  BY <1>1, <1>2, PlainTables DEF Payable, NoRequest

LEMMA PopWithdrawAlarm ==
  ASSUME Plain, SInv, NEW t \in Token, NEW from \in Requesters, NEW auth,
         PopWithdraw(t, from, auth)
  PROVE  AlarmStep
<1>1. /\ requests' = Erase(requests, from, {t}) /\ stat' = stat /\ deferred' = deferred
      /\ from \in Owner
  BY PlainTables DEF PopWithdraw
<1>2. requests' \in Requests /\ Payable(requests')
  BY <1>1, PlainTables, Erased, ErasedPayable
<1>3. \A o \in Owner, u \in Token : requests'[o][u] = NoRequest \/ requests'[o][u] = requests[o][u]
  BY <1>1, PlainTables, Erased
<1>4. ASSUME NEW o \in Owner, NEW u \in Token, requests'[o][u].amount > 0
      PROVE  requests[o][u].amount > 0 /\ requests'[o][u].at = requests[o][u].at
  BY <1>3, <1>4 DEF NoRequest
<1> QED
  BY <1>1, <1>2, <1>4, FewerAsked

LEMMA RecallPendingAlarm ==
  ASSUME Plain, SInv, NEW t \in Token, NEW from \in Requesters, NEW to \in Owner,
         NEW v \in Values, NEW auth, RecallPending(t, from, to, v, auth)
  PROVE  AlarmStep
<1> DEFINE acc == accounts[t]
           rest == [amount |-> acc[from].deposit, prec |-> v.prec]
           leftover == [amount |-> v.amount - acc[from].deposit, prec |-> v.prec]
           taken == SubDeposit(SubBalance(acc, TokenContract, leftover), from, rest, FALSE)
           given == [accounts EXCEPT ![t] = AddBalance(t, taken, to, v)]
           asked == requests[from][t].amount
           left == v.amount - acc[from].deposit
<1>1. /\ left > 0 /\ left <= asked /\ stat' = stat /\ Positive(v)
      /\ \/ /\ left < asked
            /\ requests' = [requests EXCEPT ![from][t].amount = @ - left]
            /\ deferred' = deferred
         \/ RefreshSchedule(given, Erase(requests, from, {t}), from, {from})
  BY DEF RecallPending, Transferable
<1>2. v \in Value /\ v.amount \in Nat /\ from \in Owner /\ from # TokenContract
  BY <1>1, CallAssumption, PositiveValue, PlainTables
<1>3. asked \in Nat /\ acc[from].deposit \in Nat /\ acc[from] \in Row
  BY <1>2, PlainTables, SheetRow DEF Requests, Request
<1> HIDE DEF given
<1>4. CASE RefreshSchedule(given, Erase(requests, from, {t}), from, {from})
  BY <1>1, <1>2, <1>4, PlainTables, Erased, ErasedPayable, RefreshAlarm
<1>5. CASE /\ left < asked /\ deferred' = deferred
           /\ requests' = [requests EXCEPT ![from][t].amount = @ - left]
  <2>1. left \in Nat /\ asked - left \in Nat
    BY <1>1, <1>2, <1>3
  <2> HIDE DEF left
  <2>2. /\ requests' \in Requests
        /\ \A x \in Owner \ {from} : requests'[x] = requests[x]
        /\ \A u \in Token \ {t} : requests'[from][u] = requests[from][u]
        /\ requests'[from][t].amount = asked - left
        /\ requests'[from][t].at = requests[from][t].at
    <3>1. requests[from] \in [Token -> Request] /\ requests[from][t] \in Request
      BY <1>2, PlainTables DEF Requests
    <3> DEFINE q == [requests[from][t] EXCEPT !.amount = @ - left]
    <3>2. q \in Request /\ q.amount = asked - left /\ q.at = requests[from][t].at
      BY <2>1, <3>1 DEF Request
    <3>3. requests' = [requests EXCEPT ![from][t] = q]
      BY <1>5
    <3> HIDE DEF q
    <3> QED
      BY <1>2, <3>2, <3>3, PlainTables DEF Requests
  <2>3. WholeAsked(t, asked - left)
    <3>1. /\ Scale[v.prec] = Scale[stat[t].prec] /\ Scale[acc[from].prec] = Scale[v.prec]
          /\ Scale[v.prec] \in Nat \ {0}
      BY <1>2, <1>3, PlainTables, ScaleSame DEF Value, Stat, Row
    <3>2. CASE Is(t, "floatable")
      BY <3>2 DEF WholeAsked
    <3>3. CASE ~Is(t, "floatable")
      <4> DEFINE a == asked
                 b == v.amount
                 d == acc[from].deposit
                 s == Scale[v.prec]
      <4>1. a % s = 0
        BY <1>2, <3>1, <3>3, PlainTables DEF Payable, WholeAsked
      <4>2. b % s = 0
        BY <1>2 DEF Plain
      <4>3. d % s = 0
        BY <1>2, <3>1, <3>3, PlainTables DEF Whole, WholeRow
      <4>4. a \in Nat /\ b \in Nat /\ d \in Nat /\ s \in Nat \ {0} /\ d <= b /\ left = b - d
        BY <1>1, <1>2, <1>3, <3>1 DEF left
      <4>5. a - left = asked - left
        OBVIOUS
      <4> HIDE DEF a, b, d, s
      <4>6. left % s = 0
        BY <4>2, <4>3, <4>4, WholeDifference
      <4>7. left \in Nat /\ left <= a
        BY <1>1, <2>1 DEF a
      <4>8. (a - left) % s = 0
        BY <4>1, <4>4, <4>6, <4>7, WholeDifference
      <4> QED
        BY <3>1, <4>5, <4>8 DEF WholeAsked, s
    <3> QED
      BY <3>2, <3>3
  <2>4. Payable(requests')
    BY <1>2, <2>2, <2>3, PlainTables DEF Payable
  <2>5. asked > 0
    BY <1>1, <2>1, <1>3
  <2>6. \A o \in Owner, u \in Token :
           requests'[o][u].amount > 0 =>
               requests[o][u].amount > 0 /\ requests'[o][u].at = requests[o][u].at
    BY <2>2, <2>5
  <2> QED
    BY <1>1, <1>5, <2>2, <2>4, <2>6, FewerAsked
<1> QED
  BY <1>1, <1>4, <1>5

LEMMA ClrWithdrawsAlarm ==
  ASSUME Plain, SInv, NEW o \in Owner, NEW auth, ClrWithdraws(o, auth)
  PROVE  AlarmStep
<1>1. RefreshSchedule(accounts, requests, o, auth) /\ stat' = stat
  BY DEF ClrWithdraws
<1> QED
  BY <1>1, PlainTables, RefreshAlarm

\* A deferred transaction is dropped only when nothing is pending, or what is
\* due is more than the contract's balance pays.
LEMMA FireDeferredAlarm ==
  ASSUME Plain, SInv, NEW o \in Owner, FireDeferred(o)
  PROVE  AlarmStep
<1>1. CASE RunDeferred(o)
  BY <1>1, ClrWithdrawsAlarm DEF RunDeferred
<1>2. CASE DropDeferred(o)
  <2>1. /\ stat' = stat /\ requests' = requests
        /\ deferred' = [deferred EXCEPT ![o] = None]
    BY <1>2 DEF DropDeferred
  <2>2. /\ Expired(o)
        /\ Pending(requests, o) = {} \/ \E u \in Due(requests, o) : Short(u, o)
    BY <1>2, NothingRefused DEF DropDeferred
  <2>3. Unlisted' /\ Payable(requests)'
    BY <2>1, PlainTables, SameLenient, LenientPays DEF Lenient
  <2>4. \A x \in Owner \ {o} : deferred'[x] = deferred[x]
    BY <2>1
  <2>5. AlarmsStay
    BY <2>1, <2>2, <2>4, PlainTables DEF AlarmsStay, Alarmed, Pending
  <2> QED
    BY <2>3, <2>5 DEF AlarmStep
<1> QED
  BY <1>1, <1>2 DEF FireDeferred

LEMMA NextSInv == Plain /\ SInv /\ [Next]_vars => SInv' /\ AlarmsStay
<1> SUFFICES ASSUME Plain, SInv, [Next]_vars PROVE SInv' /\ AlarmsStay
  OBVIOUS
<1>1. WInv'
  BY NextWInv DEF SInv
<1>2. ASSUME stat' = stat /\ requests' = requests /\ deferred' = deferred
      PROVE  AlarmStep
  BY <1>2, SameLenient, AlarmKept
<1>3. ASSUME NEW t \in Token, NEW auth \in AuthSets, TransferCall(t, auth)
      PROVE  AlarmStep
  <2>1. PICK v \in Values, from \in Owner, to \in Owner :
           \/ Transfer(t, from, to, v, auth)
           \/ TransferAllowed(t, from, to, v, auth)
           \/ Recall(t, from, to, v, auth)
           \/ from \in Requesters /\ RecallPending(t, from, to, v, auth)
    BY <1>3, CallAssumption DEF TransferCall
  <2>2. CASE from \in Requesters /\ RecallPending(t, from, to, v, auth)
    BY <2>2, RecallPendingAlarm
  <2>3. CASE \/ Transfer(t, from, to, v, auth)
             \/ TransferAllowed(t, from, to, v, auth)
             \/ Recall(t, from, to, v, auth)
    BY <1>2, <2>3 DEF Transfer, TransferAllowed, Recall
  <2> QED
    BY <2>1, <2>2, <2>3
<1>4. ASSUME NEW t \in Token, NEW auth \in AuthSets, WithdrawCall(t, auth)
      PROVE  AlarmStep
  <2>1. ASSUME NEW from \in Owner, NEW v \in Values, Deposit(t, from, v, auth)
        PROVE  AlarmStep
    BY <1>2, <2>1 DEF Deposit
  <2> QED
    BY <1>4, <2>1, PushWithdrawAlarm, PopWithdrawAlarm DEF WithdrawCall
<1>5. ASSUME NEW t \in Token, NEW auth \in AuthSets, AccountCall(t, auth)
      PROVE  AlarmStep
  BY <1>2, <1>5 DEF AccountCall, Open, Close, SetAcntsOpts, Approve
<1>6. ASSUME Tick \/ UNCHANGED vars
      PROVE  AlarmStep
  BY <1>2, <1>6 DEF Tick, vars
<1>7. AlarmStep
  BY <1>3, <1>4, <1>5, <1>6, TokenCallAlarm, ClrWithdrawsAlarm, FireDeferredAlarm, PlainTables
     DEF Next
<1> QED
  BY <1>1, <1>7 DEF SInv, AlarmStep

LEMMA InitSInv == Init => SInv
<1> SUFFICES ASSUME Init PROVE SInv
  OBVIOUS
<1>1. WInv
  BY InitWInv
<1>2. Unlisted
  BY DEF Init, Unlisted, NoStat
<1>3. \A o \in Owner, t \in Token : requests[o][t].amount = 0
  BY DEF Init, NoRequest
<1>4. Payable(requests)
  <2>1. ASSUME NEW t \in Token
        PROVE  WholeAsked(t, 0)
    BY NoRowType, ScaleType, ZeroWhole DEF WholeAsked, Init, NoStat
  <2> QED
    BY <1>3, <2>1, ChainAssumption DEF Payable
<1> QED
  BY <1>1, <1>2, <1>4 DEF SInv

\* Of tokens of one precision, in whole ones and without whitelists, a pending
\* withdrawal loses its deferred transaction by nothing but a run of it that
\* finds the contract's balance spent: no top-up, cancellation, recall, freeze or
\* settlement of another token loses it.
THEOREM AlarmsAreSet ==
  ASSUME Plain
  PROVE  Spec => AlarmSet
<1>1. SInv /\ [Next]_vars => SInv'
  BY NextSInv
<1>2. SInv /\ [Next]_vars =>
        [\A t \in Token, o \in Owner :
           Alarmed(t, o) /\ ~Alarmed(t, o)' =>
              Expired(o) /\ \E u \in Due(requests, o) : Short(u, o)]_vars
  BY NextSInv DEF AlarmsStay
<1> QED
  BY <1>1, <1>2, InitSInv, PTL DEF Spec, AlarmSet
=============================================================================
