----------------------------- MODULE TokenSteps -----------------------------
(***************************************************************************)
(* Theorems of Token about its steps: the holdings of a frozen or unlisted *)
(* account stay where they are; an allowance is spent by just what is      *)
(* moved; every step is one of TokenLedger or none; no deposit is paid out *)
(* before its delay.                                                       *)
(***************************************************************************)
EXTENDS TokenProofs

\* The row of o may neither pay nor receive, as far as its flags go.
Barred(t, acc, o) == o # TokenContract /\ acc[o].open /\ ~Usable(t, o, acc[o])

\* No such row differs in the rows `new`.
Kept(t, acc, new) ==
    /\ DOMAIN new = Owner
    /\ \A o \in Owner : Barred(t, acc, o) => new[o] = acc[o]

-----------------------------------------------------------------------------
(* The row operations touch one row, and none that is barred.               *)

LEMMA KeptTrans ==
  ASSUME NEW t, NEW a, NEW b, NEW c, Kept(t, a, b), Kept(t, b, c)
  PROVE  Kept(t, a, c)
  BY DEF Kept, Barred

LEMMA SubBalanceKept ==
  ASSUME NEW t, NEW acc, DOMAIN acc = Owner, NEW o \in Owner, NEW v,
         CanSubBalance(t, acc, o, v)
  PROVE  Kept(t, acc, SubBalance(acc, o, v))
<1>1. ~Barred(t, acc, o)
  BY DEF CanSubBalance, Barred
<1>2. \A x \in Owner \ {o} : SubBalance(acc, o, v)[x] = acc[x]
  BY DEF SubBalance
<1>3. DOMAIN SubBalance(acc, o, v) = Owner
  BY DEF SubBalance
<1> QED
  BY <1>1, <1>2, <1>3 DEF Kept

LEMMA SubDepositKept ==
  ASSUME NEW t, NEW acc, DOMAIN acc = Owner, NEW o \in Owner, NEW v, NEW keep,
         CanSubDeposit(t, acc, o, v, keep)
  PROVE  Kept(t, acc, SubDeposit(acc, o, v, keep))
<1>1. ~Barred(t, acc, o)
  BY DEF CanSubDeposit, Barred
<1>2. \A x \in Owner \ {o} : SubDeposit(acc, o, v, keep)[x] = acc[x]
  BY DEF SubDeposit
<1>3. DOMAIN SubDeposit(acc, o, v, keep) = Owner
  BY DEF SubDeposit
<1> QED
  BY <1>1, <1>2, <1>3 DEF Kept

\* A credit to another row.
LEMMA OthersCredited ==
  ASSUME NEW t, NEW acc, DOMAIN acc = Owner, NEW o \in Owner, NEW v
  PROVE  /\ DOMAIN AddBalance(t, acc, o, v) = Owner
         /\ DOMAIN AddDeposit(t, acc, o, v) = Owner
         /\ \A x \in Owner \ {o} : AddBalance(t, acc, o, v)[x] = acc[x]
         /\ \A x \in Owner \ {o} : AddDeposit(t, acc, o, v)[x] = acc[x]
  BY DEF AddBalance, AddDeposit

LEMMA AddBalanceKept ==
  ASSUME NEW t, NEW acc, DOMAIN acc = Owner, NEW o \in Owner, NEW v, NEW auth,
         CanAddBalance(t, acc, o, v, auth)
  PROVE  Kept(t, acc, AddBalance(t, acc, o, v))
<1>1. ~Barred(t, acc, o)
  BY DEF CanAddBalance, CanCredit, Barred
<1> QED
  BY <1>1, OthersCredited DEF Kept

LEMMA AddDepositKept ==
  ASSUME NEW t, NEW acc, DOMAIN acc = Owner, NEW o \in Owner, NEW v, NEW auth,
         CanAddDeposit(t, acc, o, v, auth, FALSE)
  PROVE  Kept(t, acc, AddDeposit(t, acc, o, v))
<1>1. ~Barred(t, acc, o)
  BY DEF CanAddDeposit, CanCredit, Barred
<1> QED
  BY <1>1, OthersCredited DEF Kept

-----------------------------------------------------------------------------
(* Settling.                                                                *)

\* What a settlement of `req` does to a barred row: the request of a frozen
\* account comes back as deposit.
Returned(was, is, req) ==
    /\ was.frozen
    /\ req.at <= now
    /\ is.balance = was.balance
    /\ is.deposit = was.deposit + req.amount

LEMMA SettleBarred ==
  ASSUME NEW t, NEW acc, DOMAIN acc = Owner, NEW o \in Owner, NEW v, NEW auth,
         NEW garbage, CanSettle(t, acc, o, v, auth, garbage),
         NEW x \in Owner, Barred(t, acc, x), acc[x] \in Row
  PROVE  LET is == Settle(t, acc, o, v, garbage)[x]
         IN  \/ is = acc[x]
             \/ /\ x = o /\ acc[x].frozen
                /\ is.balance = acc[x].balance
                /\ is.deposit = acc[x].deposit + v.amount
<1> DEFINE paid == SubBalance(acc, TokenContract, v)
           is == Settle(t, acc, o, v, garbage)[x]
<1>1. Kept(t, acc, paid)
  <2>1. CanSubBalance(t, acc, TokenContract, v) /\ TokenContract \in Owner
    BY ChainAssumption DEF CanSettle
  <2> QED
    BY <2>1, SubBalanceKept
<1>2. paid[x] = acc[x] /\ DOMAIN paid = Owner /\ Barred(t, paid, x)
  BY <1>1 DEF Kept, Barred
<1>3. /\ Settle(t, acc, o, v, garbage) =
            IF ReadsFrozen(t, paid[o], garbage) THEN AddDeposit(t, paid, o, v)
                                                ELSE AddBalance(t, paid, o, v)
      /\ ~ReadsFrozen(t, paid[o], garbage) => CanAddBalance(t, paid, o, v, auth)
  BY DEF Settle, CanSettle
<1> HIDE DEF paid
<1>4. CASE x # o
  BY <1>2, <1>3, <1>4, OthersCredited
<1>5. CASE x = o
  <2>1. ~CanAddBalance(t, paid, o, v, auth)
    BY <1>2, <1>5 DEF CanAddBalance, CanCredit, Barred
  <2>2. ReadsFrozen(t, paid[o], garbage)
    BY <1>3, <2>1
  <2>3. acc[x].frozen
    BY <1>2, <1>5, <2>2 DEF ReadsFrozen, Barred
  <2>4. Opened(t, paid[o], v) = acc[x]
    BY <1>2, <1>5 DEF Opened, Barred
  <2>5. is = [acc[x] EXCEPT !.deposit = @ + v.amount]
    BY <1>2, <1>3, <1>5, <2>2, <2>4 DEF AddDeposit
  <2> QED
    BY <1>5, <2>3, <2>5 DEF Row
<1> QED
  BY <1>4, <1>5

LEMMA RefreshBarred ==
  ASSUME NEW accs \in [Token -> Sheet], NEW reqs \in Requests, NEW o \in Owner,
         NEW auth, RefreshSchedule(accs, reqs, o, auth),
         NEW t \in Token, NEW x \in Owner, Barred(t, accs[t], x)
  PROVE  \/ accounts'[t][x] = accs[t][x]
         \/ /\ x = o /\ Returned(accs[t][x], accounts'[t][x], reqs[x][t])
            /\ requests'[x][t].amount = 0
<1> DEFINE due == Due(reqs, o)
           v == Requested(reqs, o, t)
<1>1. PICK garbage \in SUBSET Unread(accs, reqs, o) :
         /\ CanClear(accs, reqs, o, auth, garbage)
         /\ accounts' = [u \in Token |->
                IF u \in due
                THEN Settle(u, accs[u], o, Requested(reqs, o, u), garbage)
                ELSE accs[u]]
  BY DEF RefreshSchedule
<1>2. requests' = Erase(reqs, o, due)
  BY DEF RefreshSchedule
<1>3. accs[t] \in Sheet /\ DOMAIN accs[t] = Owner /\ accs[t][x] \in Row
  BY DEF Sheet
<1>4. CASE t \in due
  <2>1. CanSettle(t, accs[t], o, v, auth, garbage)
    BY <1>1, <1>4 DEF CanClear
  <2>2. accounts'[t] = Settle(t, accs[t], o, v, garbage)
    BY <1>1, <1>4
  <2>3. v.amount = reqs[o][t].amount
    BY DEF Requested
  <2>4. reqs[o][t].at <= now
    BY <1>4 DEF Due
  <2>5. requests'[o][t].amount = 0
    BY <1>2, <1>4 DEF Erase, NoRequest, Requests
  <2> HIDE DEF v, due
  <2>6. \/ accounts'[t][x] = accs[t][x]
        \/ /\ x = o /\ accs[t][x].frozen
           /\ accounts'[t][x].balance = accs[t][x].balance
           /\ accounts'[t][x].deposit = accs[t][x].deposit + v.amount
    BY <1>3, <2>1, <2>2, SettleBarred
  <2> QED
    BY <2>3, <2>4, <2>5, <2>6 DEF Returned
<1>5. CASE t \notin due
  BY <1>1, <1>5
<1> QED
  BY <1>4, <1>5

-----------------------------------------------------------------------------
(* The steps.                                                               *)

\* LockedFunds, of one account.
Still(t, o) ==
    LET was == accounts[t][o]
        is  == accounts'[t][o]
        req == requests[o][t]
    IN  Locked(t, o) /\ Locked(t, o)' =>
           /\ is.balance = was.balance
           /\ is.deposit # was.deposit =>
                 /\ was.frozen
                 /\ req.at <= now
                 /\ is.deposit = was.deposit + req.amount
                 /\ requests'[o][t].amount = 0

AllStill == \A t \in Token, o \in Owner : Still(t, o)

LEMMA LockedBarred ==
  ASSUME IInv, NEW t \in Token, NEW o \in Owner, Locked(t, o)
  PROVE  Barred(t, accounts[t], o)
  BY DEF Locked, Barred, Usable

LEMMA Domains ==
  ASSUME IInv
  PROVE  /\ accounts \in [Token -> Sheet] /\ requests \in Requests
         /\ \A t \in Token : DOMAIN accounts[t] = Owner
         /\ Requesters \subseteq Owner /\ TokenContract \in Owner
<1>1. accounts \in [Token -> Sheet] /\ requests \in Requests
  BY DEF IInv, TypeOK, ClosedEmpty, Requests
<1> QED
  BY <1>1, ChainAssumption, CallAssumption DEF Sheet

LEMMA KeptStill ==
  ASSUME IInv, \A t \in Token : Kept(t, accounts[t], accounts'[t])
  PROVE  AllStill
<1> SUFFICES ASSUME NEW t \in Token, NEW o \in Owner, Locked(t, o)
             PROVE  accounts'[t][o] = accounts[t][o]
  BY DEF AllStill, Still
<1> QED
  BY LockedBarred DEF Kept

LEMMA SameStill ==
  ASSUME IInv, accounts' = accounts
  PROVE  AllStill
  BY Domains, KeptStill DEF Kept

\* One token's rows change.
LEMMA OneKept ==
  ASSUME IInv, NEW t \in Token, NEW new, Kept(t, accounts[t], new),
         accounts' = [accounts EXCEPT ![t] = new]
  PROVE  AllStill
<1>1. ASSUME NEW u \in Token
      PROVE  Kept(u, accounts[u], accounts'[u])
  <2>1. accounts'[u] = IF u = t THEN new ELSE accounts[u]
    BY Domains
  <2>2. Kept(u, accounts[u], accounts[u])
    BY Domains DEF Kept
  <2> QED
    BY <2>1, <2>2
<1> QED
  BY <1>1, KeptStill

LEMMA IssueStill ==
  ASSUME IInv, NEW t \in Token, NEW to \in Owner, NEW v, NEW auth, Issue(t, to, v, auth)
  PROVE  AllStill
<1> DEFINE cached == Is(t, "recallable") /\ to # Issuer[t]
           acc == accounts[t]
           new == IF cached THEN AddDeposit(t, acc, to, v) ELSE AddBalance(t, acc, to, v)
<1>1. /\ IF cached THEN CanAddDeposit(t, acc, to, v, auth, FALSE)
                   ELSE CanAddBalance(t, acc, to, v, auth)
      /\ accounts' = [accounts EXCEPT ![t] = new]
  BY DEF Issue
<1>2. DOMAIN acc = Owner
  BY Domains
<1> HIDE DEF acc, cached
<1>3. Kept(t, acc, new)
  BY <1>1, <1>2, AddDepositKept, AddBalanceKept
<1> HIDE DEF new
<1> QED
  BY <1>1, <1>3, OneKept DEF acc

LEMMA RetireStill ==
  ASSUME IInv, NEW t \in Token, NEW from \in Owner, NEW v, NEW auth, Retire(t, from, v, auth)
  PROVE  AllStill
<1> DEFINE acc == accounts[t]
           new == IF from \in auth THEN SubBalance(acc, from, v)
                                   ELSE SubDeposit(acc, from, v, FALSE)
<1>1. /\ IF from \in auth THEN CanSubBalance(t, acc, from, v)
                          ELSE CanSubDeposit(t, acc, from, v, FALSE)
      /\ accounts' = [accounts EXCEPT ![t] = new]
  BY DEF Retire
<1>2. DOMAIN acc = Owner /\ from \in Owner
  BY Domains
<1> HIDE DEF acc
<1>3. Kept(t, acc, new)
  BY <1>1, <1>2, SubBalanceKept, SubDepositKept
<1> HIDE DEF new
<1> QED
  BY <1>1, <1>3, OneKept DEF acc

LEMMA BurnStill ==
  ASSUME IInv, NEW t \in Token, NEW owner \in Owner, NEW v, NEW auth, Burn(t, owner, v, auth)
  PROVE  AllStill
<1> DEFINE acc == accounts[t]
           new == SubBalance(acc, owner, v)
<1>1. /\ CanSubBalance(t, acc, owner, v)
      /\ accounts' = [accounts EXCEPT ![t] = new]
  BY DEF Burn
<1>2. DOMAIN acc = Owner /\ owner \in Owner
  BY Domains
<1> HIDE DEF acc
<1>3. Kept(t, acc, new)
  BY <1>1, <1>2, SubBalanceKept
<1> HIDE DEF new
<1> QED
  BY <1>1, <1>3, OneKept DEF acc

LEMMA OpenStill ==
  ASSUME IInv, NEW t \in Token, NEW o \in Owner, NEW auth, Open(t, o, auth)
  PROVE  AllStill
<1> DEFINE acc == accounts[t]
           row == OpenRow(t, Is(t, "whitelist_on") /\ Issuer[t] \in auth, stat[t].prec)
           new == [acc EXCEPT ![o] = row]
<1>1. ~acc[o].open /\ accounts' = [accounts EXCEPT ![t] = new]
  <2>1. accounts' = [accounts EXCEPT ![t][o] = row]
    BY DEF Open
  <2> QED
    BY <2>1, Domains DEF Open
<1>2. DOMAIN acc = Owner
  BY Domains
<1> HIDE DEF acc, row
<1>3. Kept(t, acc, new)
  BY <1>1, <1>2 DEF Kept, Barred
<1> HIDE DEF new
<1> QED
  BY <1>1, <1>3, OneKept DEF acc

\* The row that is closed is open no more, and so not locked.
LEMMA CloseStill ==
  ASSUME IInv, NEW t \in Token, NEW o \in Owner, NEW auth, Close(t, o, auth)
  PROVE  AllStill
<1> SUFFICES ASSUME NEW u \in Token, NEW x \in Owner, Locked(u, x)'
             PROVE  accounts'[u][x] = accounts[u][x]
  BY DEF AllStill, Still
<1>1. accounts' = [accounts EXCEPT ![t][o] = NoRow]
  BY DEF Close
<1>2. accounts'[t][o] = NoRow
  BY <1>1, Domains
<1>3. ~(u = t /\ x = o)
  BY <1>2, NoRowType DEF Locked
<1> QED
  BY <1>1, <1>3, Domains

\* Flags change, amounts do not.
LEMMA SetAcntsOptsStill ==
  ASSUME IInv, NEW t \in Token, NEW os \in SUBSET Owner, NEW flags, NEW auth,
         SetAcntsOpts(t, os, flags, auth)
  PROVE  AllStill
<1> SUFFICES ASSUME NEW u \in Token, NEW x \in Owner
             PROVE  /\ accounts'[u][x].balance = accounts[u][x].balance
                    /\ accounts'[u][x].deposit = accounts[u][x].deposit
  BY DEF AllStill, Still
<1> DEFINE frozen == Set(flags, "frozen", accounts[t][x].frozen)
           whitelist == Set(flags, "whitelist", accounts[t][x].whitelist)
<1>1. accounts'[t][x] = IF x \in os
                        THEN [accounts[t][x] EXCEPT !.frozen = frozen,
                                                    !.whitelist = whitelist]
                        ELSE accounts[t][x]
  BY Domains DEF SetAcntsOpts
<1>2. u # t => accounts'[u] = accounts[u]
  BY Domains DEF SetAcntsOpts
<1>3. accounts[t] \in Sheet
  BY Domains
<1> HIDE DEF frozen, whitelist
<1>4. accounts[t][x] \in Row
  BY <1>3, SheetRow
<1> QED
  BY <1>1, <1>2, <1>4 DEF Row

LEMMA MoveBalanceStill ==
  ASSUME IInv, NEW t \in Token, NEW from \in Owner, NEW to \in Owner, NEW v, NEW auth,
         MoveBalance(t, from, to, v, auth)
  PROVE  AllStill
<1> DEFINE acc == accounts[t]
           paid == SubBalance(acc, from, v)
           new == AddBalance(t, paid, to, v)
<1>1. /\ CanSubBalance(t, acc, from, v)
      /\ CanAddBalance(t, paid, to, v, auth)
      /\ accounts' = [accounts EXCEPT ![t] = new]
  BY DEF MoveBalance
<1>2. DOMAIN acc = Owner /\ from \in Owner
  BY Domains
<1> HIDE DEF acc
<1>3. Kept(t, acc, paid)
  BY <1>1, <1>2, SubBalanceKept
<1> HIDE DEF paid
<1>4. Kept(t, paid, new)
  BY <1>1, <1>3, AddBalanceKept DEF Kept
<1> HIDE DEF new
<1> QED
  BY <1>1, <1>3, <1>4, KeptTrans, OneKept DEF acc

LEMMA RecallStill ==
  ASSUME IInv, NEW t \in Token, NEW from \in Owner, NEW to \in Owner, NEW v, NEW auth,
         Recall(t, from, to, v, auth)
  PROVE  AllStill
<1> DEFINE acc == accounts[t]
           taken == SubDeposit(acc, from, v, FALSE)
           new == AddBalance(t, taken, to, v)
<1>1. /\ CanSubDeposit(t, acc, from, v, FALSE)
      /\ CanAddBalance(t, taken, to, v, auth)
      /\ accounts' = [accounts EXCEPT ![t] = new]
  BY DEF Recall
<1>2. DOMAIN acc = Owner /\ from \in Owner
  BY Domains
<1> HIDE DEF acc
<1>3. Kept(t, acc, taken)
  BY <1>1, <1>2, SubDepositKept
<1> HIDE DEF taken
<1>4. Kept(t, taken, new)
  BY <1>1, <1>3, AddBalanceKept DEF Kept
<1> HIDE DEF new
<1> QED
  BY <1>1, <1>3, <1>4, KeptTrans, OneKept DEF acc

LEMMA DepositStill ==
  ASSUME IInv, NEW t \in Token, NEW from \in Owner, NEW v, NEW auth, Deposit(t, from, v, auth)
  PROVE  AllStill
<1> DEFINE acc == accounts[t]
           paid == SubBalance(acc, from, v)
           new == AddDeposit(t, paid, from, v)
<1>1. /\ CanSubBalance(t, acc, from, v)
      /\ CanAddDeposit(t, paid, from, v, auth, FALSE)
      /\ accounts' = [accounts EXCEPT ![t] = new]
  BY DEF Deposit
<1>2. DOMAIN acc = Owner /\ from \in Owner
  BY Domains
<1> HIDE DEF acc
<1>3. Kept(t, acc, paid)
  BY <1>1, <1>2, SubBalanceKept
<1>4. DOMAIN paid = Owner
  BY <1>3 DEF Kept
<1> HIDE DEF paid
<1>5. Kept(t, paid, new)
  BY <1>1, <1>2, <1>4, AddDepositKept
<1> HIDE DEF new
<1> QED
  BY <1>1, <1>3, <1>5, KeptTrans, OneKept DEF acc

LEMMA PopWithdrawStill ==
  ASSUME IInv, NEW t \in Token, NEW from \in Requesters, NEW auth, PopWithdraw(t, from, auth)
  PROVE  AllStill
<1> DEFINE acc == accounts[t]
           v == Requested(requests, from, t)
           paid == SubBalance(acc, TokenContract, v)
           new == AddDeposit(t, paid, from, v)
<1>1. /\ CanSubBalance(t, acc, TokenContract, v)
      /\ CanAddDeposit(t, paid, from, v, auth, FALSE)
      /\ accounts' = [accounts EXCEPT ![t] = new]
  BY DEF PopWithdraw
<1>2. DOMAIN acc = Owner /\ from \in Owner /\ TokenContract \in Owner
  BY Domains
<1> HIDE DEF acc, v
<1>3. Kept(t, acc, paid)
  BY <1>1, <1>2, SubBalanceKept
<1>4. DOMAIN paid = Owner
  BY <1>3 DEF Kept
<1> HIDE DEF paid
<1>5. Kept(t, paid, new)
  BY <1>1, <1>2, <1>4, AddDepositKept
<1> HIDE DEF new
<1> QED
  BY <1>1, <1>3, <1>5, KeptTrans, OneKept DEF acc
\* A settlement that starts from tables in which no barred row has changed,
\* and the requests of no barred account.
LEMMA RefreshStill ==
  ASSUME IInv, NEW accs \in [Token -> Sheet], NEW reqs \in Requests, NEW o \in Owner,
         NEW auth, RefreshSchedule(accs, reqs, o, auth),
         \A t \in Token : Kept(t, accounts[t], accs[t]),
         \A t \in Token : Barred(t, accounts[t], o) => reqs[o][t] = requests[o][t]
  PROVE  AllStill
<1> SUFFICES ASSUME NEW t \in Token, NEW x \in Owner, Locked(t, x)
             PROVE  Still(t, x)
  BY DEF AllStill, Still
<1>1. Barred(t, accounts[t], x)
  BY LockedBarred
<1>2. accs[t][x] = accounts[t][x] /\ Barred(t, accs[t], x)
  BY <1>1 DEF Kept, Barred
<1>3. \/ accounts'[t][x] = accs[t][x]
      \/ /\ x = o /\ Returned(accs[t][x], accounts'[t][x], reqs[x][t])
         /\ requests'[x][t].amount = 0
  BY <1>2, RefreshBarred
<1>4. x = o => reqs[x][t] = requests[x][t]
  BY <1>1
<1> QED
  BY <1>2, <1>3, <1>4 DEF Still, Returned

LEMMA ClrWithdrawsStill ==
  ASSUME IInv, NEW o \in Owner, NEW auth, ClrWithdraws(o, auth)
  PROVE  AllStill
<1>1. RefreshSchedule(accounts, requests, o, auth)
  BY DEF ClrWithdraws
<1>2. \A t \in Token : Kept(t, accounts[t], accounts[t])
  BY Domains DEF Kept
<1> QED
  BY <1>1, <1>2, Domains, RefreshStill

LEMMA FireDeferredStill ==
  ASSUME IInv, NEW o \in Owner, FireDeferred(o)
  PROVE  AllStill
<1>1. CASE RunDeferred(o)
  BY <1>1, ClrWithdrawsStill DEF RunDeferred
<1>2. CASE DropDeferred(o)
  BY <1>2, SameStill DEF DropDeferred
<1> QED
  BY <1>1, <1>2 DEF FireDeferred

LEMMA PushWithdrawStill ==
  ASSUME IInv, NEW t \in Token, NEW from \in Requesters, NEW v \in Values, NEW auth,
         PushWithdraw(t, from, v, auth)
  PROVE  AllStill
<1> DEFINE acc == accounts[t]
           keep == TRUE
           taken == SubDeposit(acc, from, v, keep)
           new == AddBalance(t, taken, TokenContract, v)
           accs == [accounts EXCEPT ![t] = new]
           at == (now + stat[t].duration) % TimeMod
           reqs == [requests EXCEPT ![from][t] = [amount |-> @.amount + v.amount, at |-> at]]
<1>1. v \in Value /\ v.amount \in Nat
  BY CallAssumption, PositiveValue DEF PushWithdraw
<1>2. /\ CanSubDeposit(t, acc, from, v, keep)
      /\ CanAddBalance(t, taken, TokenContract, v, auth)
      /\ RefreshSchedule(accs, reqs, from, {from})
  BY DEF PushWithdraw
<1>3. /\ acc \in Sheet /\ DOMAIN acc = Owner /\ from \in Owner /\ TokenContract \in Owner
      /\ keep \in BOOLEAN
  BY Domains
<1>4. reqs \in Requests
  <2>1. at \in Nat
    BY ChainAssumption DEF IInv, TypeOK, Stat
  <2>2. requests[from][t].amount + v.amount \in Nat
    BY <1>1, <1>3, Domains DEF Requests, Request
  <2> QED
    BY <1>3, <2>1, <2>2, Domains DEF Requests, Request
<1>5. ASSUME NEW u \in Token, Barred(u, accounts[u], from)
      PROVE  reqs[from][u] = requests[from][u]
  <2>1. ~Barred(t, acc, from)
    BY <1>2 DEF CanSubDeposit, Barred
  <2> QED
    BY <1>3, <1>5, <2>1, Domains DEF Requests
<1> HIDE DEF reqs, keep
<1>6. Kept(t, acc, taken)
  BY <1>2, <1>3, SubDepositKept
<1>7. taken \in Sheet
  BY <1>1, <1>2, <1>3, SubDepositLaw
<1>8. DOMAIN taken = Owner
  BY <1>6 DEF Kept
<1> HIDE DEF taken
<1>9. Kept(t, taken, new)
  BY <1>2, <1>3, <1>8, AddBalanceKept
<1>10. new \in Sheet
  BY <1>1, <1>3, <1>7, AddLaw
<1> HIDE DEF new
<1>11. Kept(t, accounts[t], new)
  BY <1>6, <1>9, KeptTrans
<1>12. accs \in [Token -> Sheet]
  BY <1>10, Domains
<1>13. ASSUME NEW u \in Token
       PROVE  Kept(u, accounts[u], accs[u])
  <2>1. Kept(u, accounts[u], accounts[u])
    BY Domains DEF Kept
  <2>2. accs[u] = IF u = t THEN new ELSE accounts[u]
    BY Domains
  <2> QED
    BY <1>11, <2>1, <2>2
<1> HIDE DEF accs
<1> QED
  BY <1>2, <1>3, <1>4, <1>5, <1>12, <1>13, RefreshStill

LEMMA RecallPendingStill ==
  ASSUME IInv, NEW t \in Token, NEW from \in Requesters, NEW to \in Owner, NEW v \in Values,
         NEW auth, RecallPending(t, from, to, v, auth)
  PROVE  AllStill
<1> DEFINE acc == accounts[t]
           keep == FALSE
           rest == [amount |-> acc[from].deposit, prec |-> v.prec]
           leftover == [amount |-> v.amount - acc[from].deposit, prec |-> v.prec]
           uncustodied == SubBalance(acc, TokenContract, leftover)
           taken == SubDeposit(uncustodied, from, rest, keep)
           new == AddBalance(t, taken, to, v)
           given == [accounts EXCEPT ![t] = new]
           none == Erase(requests, from, {t})
<1>1. v \in Value /\ v.amount \in Nat /\ v.prec \in Precision
  <2>1. v \in Value /\ Positive(v)
    BY CallAssumption DEF RecallPending, Transferable
  <2> QED
    BY <2>1, PositiveValue DEF Value
<1>2. /\ leftover.amount > 0
      /\ CanSubBalance(t, acc, TokenContract, leftover)
      /\ CanSubDeposit(t, uncustodied, from, rest, keep)
      /\ CanAddBalance(t, taken, to, v, auth)
      /\ \/ accounts' = given
         \/ RefreshSchedule(given, none, from, {from})
  BY DEF RecallPending
<1>3. /\ acc \in Sheet /\ DOMAIN acc = Owner /\ from \in Owner /\ TokenContract \in Owner
      /\ keep \in BOOLEAN /\ requests \in Requests
  BY Domains
<1>4. acc[from].deposit \in Nat
  BY <1>3, SheetRow
<1>5. /\ rest \in Value /\ rest.amount \in Nat
      /\ leftover \in Value /\ leftover.amount \in Nat
  BY <1>1, <1>2, <1>4 DEF Value
<1> HIDE DEF acc, rest, leftover, keep
<1>6. Kept(t, acc, uncustodied)
  BY <1>2, <1>3, SubBalanceKept
<1>7. uncustodied \in Sheet
  BY <1>2, <1>3, <1>5, SubBalanceLaw
<1>8. DOMAIN uncustodied = Owner
  BY <1>6 DEF Kept
<1> HIDE DEF uncustodied
<1>9. Kept(t, uncustodied, taken)
  BY <1>2, <1>3, <1>8, SubDepositKept
<1>10. taken \in Sheet
  <2>1. CanSubDeposit(t, uncustodied, from, rest, keep)
    BY <1>2
  <2> QED
    BY <1>3, <1>5, <1>7, <2>1, SubDepositLaw
<1>11. DOMAIN taken = Owner
  BY <1>9 DEF Kept
<1>12. ~Barred(t, acc, from)
  <2>1. ~Barred(t, uncustodied, from)
    BY <1>2 DEF CanSubDeposit, Barred
  <2> QED
    BY <1>3, <1>6, <2>1 DEF Kept, Barred
<1> HIDE DEF taken
<1>13. Kept(t, taken, new)
  BY <1>2, <1>11, AddBalanceKept
<1>14. new \in Sheet
  BY <1>1, <1>10, AddLaw
<1> HIDE DEF new
<1>15. Kept(t, accounts[t], new)
  <2>1. Kept(t, acc, taken)
    BY <1>6, <1>9, KeptTrans
  <2> QED
    BY <1>13, <2>1, KeptTrans DEF acc
<1>16. CASE accounts' = given
  BY <1>15, <1>16, OneKept
<1>17. CASE RefreshSchedule(given, none, from, {from})
  <2>1. given \in [Token -> Sheet]
    BY <1>14, Domains
  <2>2. none \in Requests
    BY <1>3, Erased
  <2>3. ASSUME NEW u \in Token, Barred(u, accounts[u], from)
        PROVE  none[from][u] = requests[from][u]
    <3>1. u # t
      BY <1>12, <2>3 DEF acc
    <3> QED
      BY <1>3, <3>1, Erased
  <2>4. ASSUME NEW u \in Token
        PROVE  Kept(u, accounts[u], given[u])
    <3>1. Kept(u, accounts[u], accounts[u])
      BY Domains DEF Kept
    <3>2. given[u] = IF u = t THEN new ELSE accounts[u]
      BY Domains
    <3> QED
      BY <1>15, <3>1, <3>2
  <2> HIDE DEF given, none
  <2> QED
    BY <1>3, <1>17, <2>1, <2>2, <2>3, <2>4, RefreshStill
<1> QED
  BY <1>2, <1>16, <1>17

LEMMA NextStill == IInv /\ [Next]_vars => AllStill
<1> SUFFICES ASSUME IInv, [Next]_vars PROVE AllStill
  OBVIOUS
<1>1. Requesters \subseteq Owner
  BY Domains
<1>2. ASSUME NEW t \in Token, NEW auth \in AuthSets, TokenCall(t, auth)
      PROVE  AllStill
  <2>1. ASSUME NEW v \in Values, NEW c \in MintOptions, Create(t, v, c, auth)
        PROVE  AllStill
    BY <2>1, SameStill DEF Create
  <2>2. ASSUME NEW v \in Values, NEW flags \in OptionLists, MintMore(t, v, flags, auth)
        PROVE  AllStill
    BY <2>2, SameStill DEF MintMore
  <2>3. ASSUME NEW flags \in OptionLists, SetOpts(t, flags, auth)
        PROVE  AllStill
    BY <2>3, SameStill DEF SetOpts
  <2> QED
    BY <1>2, <2>1, <2>2, <2>3, IssueStill, RetireStill, BurnStill DEF TokenCall
<1>3. ASSUME NEW t \in Token, NEW auth \in AuthSets, AccountCall(t, auth)
      PROVE  AllStill
  <2>1. ASSUME NEW o \in Owner, NEW s \in Spenders, NEW v \in Values, Approve(t, o, s, v, auth)
        PROVE  AllStill
    BY <2>1, SameStill DEF Approve
  <2> QED
    BY <1>3, <2>1, OpenStill, CloseStill, SetAcntsOptsStill, CallAssumption DEF AccountCall
<1>4. ASSUME NEW t \in Token, NEW auth \in AuthSets, TransferCall(t, auth)
      PROVE  AllStill
  <2>1. PICK v \in Values, from \in Owner, to \in Owner :
           \/ Transfer(t, from, to, v, auth)
           \/ TransferAllowed(t, from, to, v, auth)
           \/ Recall(t, from, to, v, auth)
           \/ from \in Requesters /\ RecallPending(t, from, to, v, auth)
    BY <1>4, CallAssumption DEF TransferCall
  <2>2. CASE Transfer(t, from, to, v, auth)
    BY <2>2, MoveBalanceStill DEF Transfer
  <2>3. CASE TransferAllowed(t, from, to, v, auth)
    BY <2>3, MoveBalanceStill DEF TransferAllowed
  <2> QED
    BY <2>1, <2>2, <2>3, RecallStill, RecallPendingStill
<1>5. ASSUME NEW t \in Token, NEW auth \in AuthSets, WithdrawCall(t, auth)
      PROVE  AllStill
  BY <1>5, DepositStill, PushWithdrawStill, PopWithdrawStill DEF WithdrawCall
<1>6. ASSUME NEW o \in Requesters, NEW auth \in AuthSets, ClrWithdraws(o, auth)
      PROVE  AllStill
  BY <1>1, <1>6, ClrWithdrawsStill
<1>7. ASSUME NEW o \in Owner, FireDeferred(o)
      PROVE  AllStill
  BY <1>7, FireDeferredStill
<1>8. CASE Tick
  BY <1>8, SameStill DEF Tick
<1>9. CASE UNCHANGED vars
  BY <1>9, SameStill DEF vars
<1> QED
  BY <1>2, <1>3, <1>4, <1>5, <1>6, <1>7, <1>8, <1>9 DEF Next

-----------------------------------------------------------------------------
(* Allowances.                                                              *)

\* AllowanceSpent, of one allowance.
SpentAsMoved(t, o, s) ==
    LET used == allowances[t][o][s].amount - allowances'[t][o][s].amount
    IN  used # 0 /\ accounts'[t] # accounts[t] =>
           /\ accounts'[t][s].balance = accounts[t][s].balance + used
           /\ accounts'[t][o].balance = accounts[t][o].balance - used

AllSpentAsMoved == \A t \in Token, o \in Owner, s \in Spenders : SpentAsMoved(t, o, s)

LEMMA UnusedSpent ==
  ASSUME IInv, allowances' = allowances \/ accounts' = accounts
  PROVE  AllSpentAsMoved
<1> SUFFICES ASSUME NEW t \in Token, NEW o \in Owner, NEW s \in Spenders,
                    allowances' = allowances
             PROVE  allowances[t][o][s].amount - allowances'[t][o][s].amount = 0
  BY DEF AllSpentAsMoved, SpentAsMoved
<1>1. allowances[t][o][s].amount \in Nat
  BY DEF IInv, TypeOK, Allowance
<1> QED
  BY <1>1

LEMMA CreditedRows ==
  ASSUME NEW t, NEW acc \in Sheet, NEW o \in Owner, NEW x \in Owner, x # o,
         NEW v \in Value, v.amount \in Nat
  PROVE  /\ AddBalance(t, acc, o, v)[o].balance = acc[o].balance + v.amount
         /\ AddBalance(t, acc, o, v)[x].balance = acc[x].balance
  BY Credited

LEMMA MovedAmounts ==
  ASSUME NEW t, NEW acc \in Sheet, NEW from \in Owner, NEW to \in Owner, to # from,
         NEW v \in Value, v.amount \in Nat, CanSubBalance(t, acc, from, v)
  PROVE  LET new == AddBalance(t, SubBalance(acc, from, v), to, v)
         IN  /\ new[to].balance = acc[to].balance + v.amount
             /\ new[from].balance = acc[from].balance - v.amount
<1> DEFINE paid == SubBalance(acc, from, v)
<1>1. paid \in Sheet
  BY SubBalanceLaw
<1>2. /\ paid[from].balance = acc[from].balance - v.amount
      /\ paid[to].balance = acc[to].balance
  BY BalanceDebited
<1> HIDE DEF paid
<1>3. /\ AddBalance(t, paid, to, v)[to].balance = paid[to].balance + v.amount
      /\ AddBalance(t, paid, to, v)[from].balance = paid[from].balance
  BY <1>1, CreditedRows
<1> QED
  BY <1>2, <1>3 DEF paid

LEMMA TransferAllowedSpent ==
  ASSUME IInv, NEW t \in Token, NEW from \in Owner, NEW to \in Spenders, NEW v \in Values,
         NEW auth, TransferAllowed(t, from, to, v, auth)
  PROVE  AllSpentAsMoved
<1> DEFINE acc == accounts[t]
           paid == SubBalance(acc, from, v)
           left == allowances[t][from][to]
<1>1. v \in Value /\ v.amount \in Nat
  BY CallAssumption, PositiveValue DEF TransferAllowed, Transferable
<1>2. acc \in Sheet /\ from \in Owner /\ to \in Owner /\ to # from
  BY Domains, CallAssumption DEF TransferAllowed, Transferable
<1>3. /\ left.amount \in Nat /\ left \in Allowance
      /\ \A u \in Token, o \in Owner, s \in Spenders : allowances[u][o][s].amount \in Nat
      /\ \A u \in Token, o \in Owner, s \in Spenders :
            allowances'[u][o][s] = IF u = t /\ o = from /\ s = to THEN Spent(left, v)
                                   ELSE allowances[u][o][s]
  <2>1. allowances \in [Token -> [Owner -> [Spenders -> Allowance]]]
    BY DEF IInv, TypeOK
  <2>2. allowances' = [allowances EXCEPT ![t][from][to] = Spent(left, v)]
    BY DEF TransferAllowed
  <2> QED
    BY <1>2, <2>1, <2>2 DEF Allowance
<1>4. Spent(left, v).amount = left.amount - v.amount
  BY <1>1, <1>3 DEF Spent, NoAllowance, Allowance
<1>5. CanSubBalance(t, acc, from, v) /\ accounts' = [accounts EXCEPT ![t] = AddBalance(t, paid, to, v)]
  BY DEF TransferAllowed, MoveBalance
<1> HIDE DEF acc
<1>8. /\ AddBalance(t, paid, to, v)[to].balance = acc[to].balance + v.amount
      /\ AddBalance(t, paid, to, v)[from].balance = acc[from].balance - v.amount
  BY <1>1, <1>2, <1>5, MovedAmounts
<1> HIDE DEF paid
<1>9. accounts'[t] = AddBalance(t, paid, to, v)
  BY <1>5, Domains
<1>10. /\ accounts'[t][to].balance = acc[to].balance + v.amount
       /\ accounts'[t][from].balance = acc[from].balance - v.amount
  BY <1>8, <1>9
<1> HIDE DEF left
<1>11. ASSUME NEW u \in Token, NEW o \in Owner, NEW s \in Spenders
       PROVE  SpentAsMoved(u, o, s)
  <2>1. CASE u = t /\ o = from /\ s = to
    <3>1. allowances[u][o][s] = left /\ allowances'[u][o][s] = Spent(left, v)
      BY <1>3, <2>1 DEF left
    <3>2. allowances[u][o][s].amount - allowances'[u][o][s].amount = v.amount
      BY <1>1, <1>3, <1>4, <3>1
    <3> QED
      BY <1>10, <2>1, <3>2 DEF SpentAsMoved, acc
  <2>2. CASE ~(u = t /\ o = from /\ s = to)
    <3>1. allowances[u][o][s].amount - allowances'[u][o][s].amount = 0
      BY <1>3, <2>2
    <3> QED
      BY <3>1 DEF SpentAsMoved
  <2> QED
    BY <2>1, <2>2
<1> QED
  BY <1>11 DEF AllSpentAsMoved

LEMMA NextSpent == IInv /\ [Next]_vars => AllSpentAsMoved
<1> SUFFICES ASSUME IInv, [Next]_vars PROVE AllSpentAsMoved
  OBVIOUS
<1>1. ASSUME NEW t \in Token, NEW auth \in AuthSets, TokenCall(t, auth)
      PROVE  AllSpentAsMoved
  BY <1>1, UnusedSpent DEF TokenCall, Create, MintMore, SetOpts, Issue, Retire, Burn
<1>2. ASSUME NEW t \in Token, NEW auth \in AuthSets, AccountCall(t, auth)
      PROVE  AllSpentAsMoved
  BY <1>2, UnusedSpent DEF AccountCall, Open, Close, SetAcntsOpts, Approve
<1>3. ASSUME NEW t \in Token, NEW auth \in AuthSets, TransferCall(t, auth)
      PROVE  AllSpentAsMoved
  <2>1. PICK v \in Values, from \in Owner, to \in Owner :
           \/ Transfer(t, from, to, v, auth)
           \/ to \in Spenders /\ TransferAllowed(t, from, to, v, auth)
           \/ Recall(t, from, to, v, auth)
           \/ from \in Requesters /\ RecallPending(t, from, to, v, auth)
    BY <1>3, CallAssumption DEF TransferCall
  <2>2. CASE to \in Spenders /\ TransferAllowed(t, from, to, v, auth)
    BY <2>2, TransferAllowedSpent
  <2>3. CASE \/ Transfer(t, from, to, v, auth)
             \/ Recall(t, from, to, v, auth)
             \/ RecallPending(t, from, to, v, auth)
    BY <2>3, UnusedSpent DEF Transfer, Recall, RecallPending
  <2> QED
    BY <2>1, <2>2, <2>3
<1>4. ASSUME NEW t \in Token, NEW auth \in AuthSets, WithdrawCall(t, auth)
      PROVE  AllSpentAsMoved
  BY <1>4, UnusedSpent DEF WithdrawCall, Deposit, PushWithdraw, PopWithdraw
<1>5. ASSUME NEW o, NEW auth, ClrWithdraws(o, auth)
      PROVE  AllSpentAsMoved
  BY <1>5, UnusedSpent DEF ClrWithdraws
<1>6. ASSUME NEW o, FireDeferred(o)
      PROVE  AllSpentAsMoved
  BY <1>5, <1>6, UnusedSpent DEF FireDeferred, RunDeferred, DropDeferred
<1>7. CASE Tick \/ UNCHANGED vars
  BY <1>7, UnusedSpent DEF Tick, vars
<1> QED
  BY <1>1, <1>2, <1>3, <1>4, <1>5, <1>6, <1>7 DEF Next

-----------------------------------------------------------------------------
(* The theorems.                                                            *)

\* No call moves the holdings of a frozen or unlisted account, whoever signs
\* and whatever else the same transaction settles; only a withdrawal that
\* matured while the account is frozen comes back, as deposit.
THEOREM LockedStay == Spec => LockedFunds
<1>1. IInv /\ [Next]_vars =>
        [\A t \in Token, o \in Owner :
         LET was == accounts[t][o]
             is  == accounts'[t][o]
             req == requests[o][t]
         IN  Locked(t, o) /\ Locked(t, o)' =>
                /\ is.balance = was.balance
                /\ is.deposit # was.deposit =>
                      /\ was.frozen
                      /\ req.at <= now
                      /\ is.deposit = was.deposit + req.amount
                      /\ requests'[o][t].amount = 0]_vars
  BY NextStill DEF AllStill, Still
<1> QED
  BY <1>1, Invariant, PTL DEF Spec, LockedFunds

\* A transfer against an allowance takes off it just what leaves the owner's
\* balance and reaches the spender's.
THEOREM AllowancesSpent == Spec => AllowanceSpent
<1>1. IInv /\ [Next]_vars =>
        [\A t \in Token, o \in Owner, s \in Spenders :
         LET used == allowances[t][o][s].amount - allowances'[t][o][s].amount
         IN  used # 0 /\ accounts'[t] # accounts[t] =>
                /\ accounts'[t][s].balance = accounts[t][s].balance + used
                /\ accounts'[t][o].balance = accounts[t][o].balance - used]_vars
  BY NextSpent DEF AllSpentAsMoved, SpentAsMoved
<1> QED
  BY <1>1, Invariant, PTL DEF Spec, AllowanceSpent

-----------------------------------------------------------------------------
(* The ledger: each table of rows and requests is a table of holdings.      *)

Own(r) == r.balance + r.deposit

At(x, o, n) == IF x = o THEN n ELSE 0

LEMMA OwnType ==
  ASSUME NEW acc \in Sheet, NEW x \in Owner
  PROVE  Own(acc[x]) \in Nat
  BY SheetRow DEF Own

LEMMA SubBalanceOwn ==
  ASSUME NEW t, NEW acc \in Sheet, NEW o \in Owner, NEW v, v.amount \in Nat,
         CanSubBalance(t, acc, o, v), NEW x \in Owner
  PROVE  Own(SubBalance(acc, o, v)[x]) = Own(acc[x]) - At(x, o, v.amount)
<1> DEFINE new == SubBalance(acc, o, v)
<1>1. CASE BalanceDrains(o, acc[o], v)
  <2>1. new = [acc EXCEPT ![o] = NoRow] /\ Own(acc[o]) = v.amount
    BY <1>1, SheetRow DEF SubBalance, BalanceDrains, Own
  <2>2. new[x] = IF x = o THEN NoRow ELSE acc[x]
    BY <2>1 DEF Sheet
  <2>3. Own(NoRow) = 0
    BY NoRowType DEF Own
  <2> QED
    BY <2>1, <2>2, <2>3, OwnType DEF At
<1>2. CASE ~BalanceDrains(o, acc[o], v)
  <2>1. new = [acc EXCEPT ![o].balance = @ - v.amount]
    BY <1>2 DEF SubBalance
  <2>2. new[x] = IF x = o THEN [acc[o] EXCEPT !.balance = @ - v.amount] ELSE acc[x]
    BY <2>1 DEF Sheet
  <2>3. /\ x = o => new[x].balance = acc[x].balance - v.amount /\ new[x].deposit = acc[x].deposit
        /\ x # o => new[x] = acc[x]
    BY <2>2 DEF Sheet, Row
  <2> HIDE DEF new
  <2>4. Own(new[x]) = Own(acc[x]) - At(x, o, v.amount)
    BY <2>3, SheetRow DEF Own, At
  <2> QED
    BY <2>4 DEF new
<1> QED
  BY <1>1, <1>2

LEMMA SubDepositOwn ==
  ASSUME NEW t, NEW acc \in Sheet, NEW o \in Owner, NEW v, v.amount \in Nat, NEW keep,
         CanSubDeposit(t, acc, o, v, keep), NEW x \in Owner
  PROVE  Own(SubDeposit(acc, o, v, keep)[x]) = Own(acc[x]) - At(x, o, v.amount)
<1> DEFINE new == SubDeposit(acc, o, v, keep)
<1>1. CASE DepositDrains(o, acc[o], v, keep)
  <2>1. new = [acc EXCEPT ![o] = NoRow] /\ Own(acc[o]) = v.amount
    BY <1>1, SheetRow DEF SubDeposit, DepositDrains, Own
  <2>2. new[x] = IF x = o THEN NoRow ELSE acc[x]
    BY <2>1 DEF Sheet
  <2>3. Own(NoRow) = 0
    BY NoRowType DEF Own
  <2> QED
    BY <2>1, <2>2, <2>3, OwnType DEF At
<1>2. CASE ~DepositDrains(o, acc[o], v, keep)
  <2>1. new = [acc EXCEPT ![o].deposit = @ - v.amount]
    BY <1>2 DEF SubDeposit
  <2>2. new[x] = IF x = o THEN [acc[o] EXCEPT !.deposit = @ - v.amount] ELSE acc[x]
    BY <2>1 DEF Sheet
  <2>3. /\ x = o => new[x].balance = acc[x].balance /\ new[x].deposit = acc[x].deposit - v.amount
        /\ x # o => new[x] = acc[x]
    BY <2>2 DEF Sheet, Row
  <2> HIDE DEF new
  <2>4. Own(new[x]) = Own(acc[x]) - At(x, o, v.amount)
    BY <2>3, SheetRow DEF Own, At
  <2> QED
    BY <2>4 DEF new
<1> QED
  BY <1>1, <1>2

LEMMA AddOwn ==
  ASSUME NEW t, NEW acc \in Sheet, NEW o \in Owner, NEW v \in Value, v.amount \in Nat,
         NEW x \in Owner
  PROVE  /\ Own(AddBalance(t, acc, o, v)[x]) = Own(acc[x]) + At(x, o, v.amount)
         /\ Own(AddDeposit(t, acc, o, v)[x]) = Own(acc[x]) + At(x, o, v.amount)
<1> DEFINE row == Opened(t, acc[o], v)
           b == [acc EXCEPT ![o] = [row EXCEPT !.balance = @ + v.amount]]
           d == [acc EXCEPT ![o] = [row EXCEPT !.deposit = @ + v.amount]]
<1>1. row \in Row /\ row.balance = acc[o].balance /\ row.deposit = acc[o].deposit
  BY SheetRow, OpenedType
<1>2. AddBalance(t, acc, o, v) = b /\ AddDeposit(t, acc, o, v) = d
  BY DEF AddBalance, AddDeposit
<1> HIDE DEF row
<1>3. /\ x = o => /\ b[x].balance = acc[o].balance + v.amount /\ b[x].deposit = acc[o].deposit
                  /\ d[x].balance = acc[o].balance /\ d[x].deposit = acc[o].deposit + v.amount
      /\ x # o => b[x] = acc[x] /\ d[x] = acc[x]
  BY <1>1 DEF Sheet, Row
<1> HIDE DEF b, d
<1>4. /\ Own(b[x]) = Own(acc[x]) + At(x, o, v.amount)
      /\ Own(d[x]) = Own(acc[x]) + At(x, o, v.amount)
  BY <1>3, SheetRow DEF Own, At
<1> QED
  BY <1>2, <1>4

LEMMA SettleOwn ==
  ASSUME NEW t, NEW acc \in Sheet, NEW o \in Owner, NEW v \in Value, v.amount \in Nat,
         NEW auth, NEW garbage, CanSettle(t, acc, o, v, auth, garbage), NEW x \in Owner
  PROVE  Own(Settle(t, acc, o, v, garbage)[x])
           = Own(acc[x]) - At(x, TokenContract, v.amount) + At(x, o, v.amount)
<1> DEFINE paid == SubBalance(acc, TokenContract, v)
<1>1. CanSubBalance(t, acc, TokenContract, v) /\ TokenContract \in Owner
  BY ChainAssumption DEF CanSettle
<1>2. paid \in Sheet /\ Own(paid[x]) = Own(acc[x]) - At(x, TokenContract, v.amount)
  BY <1>1, SubBalanceLaw, SubBalanceOwn
<1>3. \/ Settle(t, acc, o, v, garbage) = AddDeposit(t, paid, o, v)
      \/ Settle(t, acc, o, v, garbage) = AddBalance(t, paid, o, v)
  BY DEF Settle
<1> HIDE DEF paid
<1>4. /\ Own(AddBalance(t, paid, o, v)[x]) = Own(paid[x]) + At(x, o, v.amount)
      /\ Own(AddDeposit(t, paid, o, v)[x]) = Own(paid[x]) + At(x, o, v.amount)
  BY <1>2, AddOwn
<1> QED
  BY <1>2, <1>3, <1>4

\* The wealth of x under tables that need not be the current ones.
Worth(acc, reqs, t, x) ==
    LET own == Own(acc[x]) + reqs[x][t].amount
    IN  IF x = TokenContract THEN own - Total(AskedIn(reqs, t)) ELSE own

LEMMA WorthType ==
  ASSUME NEW acc \in Sheet, NEW reqs \in Requests, NEW t \in Token, NEW x \in Owner
  PROVE  Worth(acc, reqs, t, x) \in Int
<1>1. Own(acc[x]) \in Nat /\ reqs[x][t].amount \in Nat /\ Total(AskedIn(reqs, t)) \in Nat
  BY OwnType, AskedType
<1> QED
  BY <1>1 DEF Worth

\* What a change of one owner's request and of the rows does to the wealth.
LEMMA WorthUpdate ==
  ASSUME NEW acc \in Sheet, NEW new \in Sheet, NEW reqs \in Requests, NEW then \in Requests,
         NEW t \in Token, NEW o \in Owner,
         \A y \in Owner \ {o} : then[y][t].amount = reqs[y][t].amount,
         NEW x \in Owner
  PROVE  LET n == then[o][t].amount - reqs[o][t].amount
         IN  Worth(new, then, t, x) = Worth(acc, reqs, t, x) + (Own(new[x]) - Own(acc[x]))
                                        + At(x, o, n) - At(x, TokenContract, n)
<1>1. Total(AskedIn(then, t)) = Total(AskedIn(reqs, t)) - reqs[o][t].amount + then[o][t].amount
  BY AskedUpdate
<1>2. /\ Total(AskedIn(reqs, t)) \in Nat /\ Total(AskedIn(then, t)) \in Nat
      /\ reqs[o][t].amount \in Nat /\ then[o][t].amount \in Nat
      /\ reqs[x][t].amount \in Nat
  BY AskedType
<1>3. Own(acc[x]) \in Nat /\ Own(new[x]) \in Nat
  BY OwnType
<1>4. CASE x = o
  BY <1>1, <1>2, <1>3, <1>4 DEF Worth, At
<1>5. CASE x # o
  <2>1. then[x][t].amount = reqs[x][t].amount
    BY <1>5
  <2> QED
    BY <1>1, <1>2, <1>3, <1>5, <2>1 DEF Worth, At
<1> QED
  BY <1>4, <1>5

LEMMA RefreshWorth ==
  ASSUME TypeOK, NEW accs \in [Token -> Sheet], NEW reqs \in Requests, NEW o \in Owner,
         NEW auth, RefreshSchedule(accs, reqs, o, auth), NEW t \in Token, NEW x \in Owner
  PROVE  Worth(accounts'[t], requests', t, x) = Worth(accs[t], reqs, t, x)
<1> DEFINE due == Due(reqs, o)
           rest == Erase(reqs, o, due)
           v == Requested(reqs, o, t)
<1>1. PICK garbage \in SUBSET Unread(accs, reqs, o) :
         /\ CanClear(accs, reqs, o, auth, garbage)
         /\ accounts' = [u \in Token |->
                IF u \in due
                THEN Settle(u, accs[u], o, Requested(reqs, o, u), garbage)
                ELSE accs[u]]
  BY DEF RefreshSchedule
<1>2. requests' = rest
  BY DEF RefreshSchedule
<1>3. /\ rest \in Requests /\ \A y \in Owner \ {o} : rest[y] = reqs[y]
      /\ rest[o][t] = IF t \in due THEN NoRequest ELSE reqs[o][t]
  BY Erased
<1> HIDE DEF rest
<1>4. v \in Value /\ v.amount \in Nat /\ v.amount = reqs[o][t].amount
  BY DEF Requested, Value, Requests, Request, TypeOK, Stat
<1>5. accs[t] \in Sheet /\ TokenContract \in Owner
  BY ChainAssumption
<1>6. Own(accs[t][x]) \in Nat /\ Worth(accs[t], reqs, t, x) \in Int
  BY <1>5, OwnType, WorthType
<1>7. CASE t \in due
  <2>1. CanSettle(t, accs[t], o, v, auth, garbage)
    BY <1>1, <1>7 DEF CanClear
  <2>2. accounts'[t] = Settle(t, accs[t], o, v, garbage)
    BY <1>1, <1>7
  <2>3. rest[o][t].amount = 0
    BY <1>3, <1>7 DEF NoRequest
  <2> HIDE DEF v, due
  <2>4. /\ accounts'[t] \in Sheet
        /\ Own(accounts'[t][x])
             = Own(accs[t][x]) - At(x, TokenContract, v.amount) + At(x, o, v.amount)
    BY <1>4, <1>5, <2>1, <2>2, SettleLaw, SettleOwn
  <2> DEFINE n == rest[o][t].amount - reqs[o][t].amount
  <2>5. Worth(accounts'[t], rest, t, x)
          = Worth(accs[t], reqs, t, x) + (Own(accounts'[t][x]) - Own(accs[t][x]))
              + At(x, o, n) - At(x, TokenContract, n)
    BY <1>3, <1>5, <2>4, WorthUpdate
  <2>6. n = 0 - v.amount
    BY <1>4, <2>3
  <2> HIDE DEF n
  <2> QED
    BY <1>2, <1>4, <1>6, <2>4, <2>5, <2>6 DEF At
<1>8. CASE t \notin due
  <2>1. accounts'[t] = accs[t] /\ rest[o][t] = reqs[o][t]
    BY <1>1, <1>3, <1>8
  <2> DEFINE n == rest[o][t].amount - reqs[o][t].amount
  <2>2. Worth(accs[t], rest, t, x)
          = Worth(accs[t], reqs, t, x) + (Own(accs[t][x]) - Own(accs[t][x]))
              + At(x, o, n) - At(x, TokenContract, n)
    BY <1>3, <1>5, WorthUpdate
  <2>3. n = 0
    BY <1>4, <2>1
  <2> HIDE DEF n
  <2> QED
    BY <1>2, <1>6, <2>1, <2>2, <2>3 DEF At
<1> QED
  BY <1>7, <1>8

-----------------------------------------------------------------------------
(* The steps of the ledger.                                                 *)

Supplies == [t \in Token |-> stat[t].supply]
Ceilings == [t \in Token |-> stat[t].max_supply]
Wealths  == [t \in Token |-> [o \in Owner |-> Wealth(t, o)]]
Amounts  == {v.amount : v \in Values} \ {0}

LEMMA WealthIs ==
  ASSUME WInv, NEW t \in Token, NEW x \in Owner
  PROVE  /\ Wealths[t][x] = Worth(accounts[t], requests, t, x)
         /\ Wealths'[t][x] = Worth(accounts'[t], requests', t, x)
         /\ Wealths[t][x] \in Int
<1>1. /\ Wealths[t][x] = Worth(accounts[t], requests, t, x)
      /\ Wealths'[t][x] = Worth(accounts'[t], requests', t, x)
  BY DEF Wealths, Wealth, Worth, Own, Asked, AskedIn
<1> QED
  BY <1>1, WholeTables, WorthType

LEMMA AllSame ==
  ASSUME WInv, Supplies' = Supplies, Ceilings' = Ceilings,
         \A t \in Token, x \in Owner : Wealths'[t][x] = Wealths[t][x]
  PROVE  UNCHANGED Ledger!vars
<1>1. Wealths' = Wealths
  BY DEF Wealths
<1> QED
  BY <1>1 DEF Ledger!vars, Wealths, Supplies, Ceilings

\* In the table f of amounts, o gains n units of t; o gives n units to p.
Gained(f, g, t, o, n) ==
    \A u \in Token, x \in Owner :
        g[u][x] = IF u # t THEN f[u][x] ELSE f[u][x] + At(x, o, n)

Shifted(f, g, t, o, p, n) ==
    \A u \in Token, x \in Owner :
        g[u][x] = IF u # t THEN f[u][x] ELSE f[u][x] - At(x, o, n) + At(x, p, n)

Shift(f, t, o, p, n) == [f EXCEPT ![t][o] = @ - n, ![t][p] = @ + n]
Add(f, t, o, n) == [f EXCEPT ![t][o] = @ + n]

LEMMA OneEntry ==
  ASSUME NEW f \in [Token -> [Owner -> Int]], NEW g \in [Token -> [Owner -> Int]],
         NEW t \in Token, NEW o \in Owner, NEW n \in Int, Gained(f, g, t, o, n)
  PROVE  g = Add(f, t, o, n)
<1> DEFINE new == [f EXCEPT ![t][o] = @ + n]
<1>1. new \in [Token -> [Owner -> Int]]
  OBVIOUS
<1>2. \A u \in Token, x \in Owner : new[u][x] = IF u = t /\ x = o THEN f[t][o] + n ELSE f[u][x]
  OBVIOUS
<1> HIDE DEF new
<1>3. ASSUME NEW u \in Token, NEW x \in Owner
      PROVE  g[u][x] = new[u][x]
  BY <1>2 DEF At, Gained
<1>4. ASSUME NEW u \in Token
      PROVE  g[u] = new[u]
  <2>1. g[u] \in [Owner -> Int] /\ new[u] \in [Owner -> Int]
    BY <1>1
  <2> QED
    BY <1>3, <2>1
<1>5. g = new
  BY <1>1, <1>4
<1> QED
  BY <1>5 DEF new, Add

LEMMA TwoEntries ==
  ASSUME NEW f \in [Token -> [Owner -> Int]], NEW g \in [Token -> [Owner -> Int]],
         NEW t \in Token, NEW o \in Owner, NEW p \in Owner, o # p, NEW n \in Int,
         Shifted(f, g, t, o, p, n)
  PROVE  g = Shift(f, t, o, p, n)
<1> DEFINE mid == [f EXCEPT ![t][o] = @ - n]
<1>1. mid \in [Token -> [Owner -> Int]]
  OBVIOUS
<1>2. \A u \in Token, x \in Owner : mid[u][x] = IF u = t /\ x = o THEN f[t][o] - n ELSE f[u][x]
  OBVIOUS
<1>3. Add(mid, t, p, n) = [f EXCEPT ![t][o] = @ - n, ![t][p] = @ + n]
  BY DEF Add
<1> HIDE DEF mid
<1>4. ASSUME NEW u \in Token, NEW x \in Owner
      PROVE  g[u][x] = IF u # t THEN mid[u][x] ELSE mid[u][x] + At(x, p, n)
  <2>1. f[u][x] \in Int
    OBVIOUS
  <2> QED
    BY <1>2, <2>1 DEF At, Shifted
<1>5. Gained(mid, g, t, p, n)
  BY <1>4 DEF Gained
<1>6. g = Add(mid, t, p, n)
  BY <1>1, <1>5, OneEntry
<1> QED
  BY <1>3, <1>6 DEF Shift

LEMMA WealthsType ==
  ASSUME WInv, WInv'
  PROVE  Wealths \in [Token -> [Owner -> Int]] /\ Wealths' \in [Token -> [Owner -> Int]]
<1>1. ASSUME NEW t \in Token, NEW x \in Owner
      PROVE  /\ Worth(accounts[t], requests, t, x) \in Int
             /\ Worth(accounts'[t], requests', t, x) \in Int
  <2>1. accounts[t] \in Sheet /\ requests \in Requests
    BY WholeTables
  <2>2. accounts'[t] \in Sheet /\ requests' \in Requests
    BY DEF WInv, IInv, TypeOK, ClosedEmpty, Requests
  <2> QED
    BY <2>1, <2>2, WorthType
<1> QED
  BY <1>1, WealthIs DEF Wealths

\* The ledger's guard of a payment.
MayPay(t, o, n) == o = TokenContract \/ Wealths[t][o] >= n

LEMMA MoveStep ==
  ASSUME WInv, WInv', Supplies' = Supplies, Ceilings' = Ceilings, NEW t \in Token,
         NEW from \in Owner, NEW to \in Owner, from # to, NEW n \in Int,
         MayPay(t, from, n),
         Shifted(Wealths, Wealths', t, from, to, n)
  PROVE  Ledger!Move(t, from, to, n)
<1>1. Wealths \in [Token -> [Owner -> Int]] /\ Wealths' \in [Token -> [Owner -> Int]]
  BY WealthsType
<1>2. Wealths' = Shift(Wealths, t, from, to, n)
  BY <1>1, TwoEntries
<1> QED
  BY <1>2 DEF Shift, MayPay, Ledger!MaySpend, Ledger!Move, Wealths, Supplies, Ceilings

LEMMA IssueLedger ==
  ASSUME WInv, WInv', NEW t \in Token, NEW to \in Owner, NEW n \in Int,
         Supplies[t] + n <= Ceilings[t],
         Supplies' = [Supplies EXCEPT ![t] = @ + n], Ceilings' = Ceilings,
         Gained(Wealths, Wealths', t, to, n)
  PROVE  Ledger!Issue(t, to, n)
<1>1. Wealths \in [Token -> [Owner -> Int]] /\ Wealths' \in [Token -> [Owner -> Int]]
  BY WealthsType
<1>2. Wealths' = Add(Wealths, t, to, n)
  BY <1>1, OneEntry
<1> QED
  BY <1>2 DEF Add, Ledger!Issue, Wealths, Supplies, Ceilings

LEMMA TakenEntry ==
  ASSUME WInv, WInv', NEW t \in Token, NEW from \in Owner, NEW n \in Int,
         Gained(Wealths, Wealths', t, from, 0 - n)
  PROVE  Wealths' = [Wealths EXCEPT ![t][from] = @ - n]
<1>1. Wealths \in [Token -> [Owner -> Int]] /\ Wealths' \in [Token -> [Owner -> Int]]
  BY WealthsType
<1>2. 0 - n \in Int /\ Wealths[t][from] + (0 - n) = Wealths[t][from] - n
  BY <1>1
<1>3. Wealths' = Add(Wealths, t, from, 0 - n)
  BY <1>1, <1>2, OneEntry
<1> QED
  BY <1>1, <1>2, <1>3 DEF Add

LEMMA RetireLedger ==
  ASSUME WInv, WInv', NEW t \in Token, NEW from \in Owner, NEW n \in Int,
         MayPay(t, from, n),
         Supplies' = [Supplies EXCEPT ![t] = @ - n], Ceilings' = Ceilings,
         Gained(Wealths, Wealths', t, from, 0 - n)
  PROVE  Ledger!Retire(t, from, n)
<1>1. Wealths' = [Wealths EXCEPT ![t][from] = @ - n]
  BY TakenEntry
<1> QED
  BY <1>1 DEF MayPay, Ledger!MaySpend, Ledger!Retire, Wealths, Supplies, Ceilings

LEMMA BurnLedger ==
  ASSUME WInv, WInv', NEW t \in Token, NEW from \in Owner, NEW n \in Int,
         MayPay(t, from, n),
         Supplies' = [Supplies EXCEPT ![t] = @ - n],
         Ceilings' = [Ceilings EXCEPT ![t] = @ - n],
         Gained(Wealths, Wealths', t, from, 0 - n)
  PROVE  Ledger!Burn(t, from, n)
<1>1. Wealths' = [Wealths EXCEPT ![t][from] = @ - n]
  BY TakenEntry
<1> QED
  BY <1>1 DEF MayPay, Ledger!MaySpend, Ledger!Burn, Wealths, Supplies, Ceilings

LEMMA MintLedger ==
  ASSUME WInv, NEW t \in Token, NEW n \in Int,
         Ceilings[t] + n <= MaxAmount,
         Supplies' = Supplies, Ceilings' = [Ceilings EXCEPT ![t] = @ + n],
         UNCHANGED <<accounts, requests>>
  PROVE  Ledger!Mint(t, n)
<1>1. Wealths' = Wealths
  BY DEF Wealths, Wealth, Asked
<1> QED
  BY <1>1 DEF Ledger!Mint, Wealths, Supplies, Ceilings

-----------------------------------------------------------------------------
(* Each step of Token is a step of the ledger, or none.                     *)

LedgerStep == [Ledger!Next]_(Ledger!vars)

LEMMA StutterStep ==
  ASSUME WInv, Supplies' = Supplies, Ceilings' = Ceilings,
         \A t \in Token, x \in Owner : Wealths'[t][x] = Wealths[t][x]
  PROVE  LedgerStep
  BY AllSame DEF LedgerStep

LEMMA IdleStep ==
  ASSUME stat' = stat, accounts' = accounts, requests' = requests
  PROVE  LedgerStep
  BY DEF LedgerStep, Ledger!vars, Wealth, Asked

LEMMA ValueMoves ==
  ASSUME NEW v \in Values, Positive(v)
  PROVE  v \in Value /\ v.amount \in Nat /\ v.amount \in Int /\ v.amount \in Amounts
  BY CallAssumption, PositiveValue DEF Amounts

\* The tables have `new` for the rows of t and `reqs` for the requests, or are what
\* refresh_schedule makes of such tables.
Leaves(t, new, reqs) ==
    LET accs == [accounts EXCEPT ![t] = new]
    IN  \/ accounts' = accs /\ requests' = reqs
        \/ \E o \in Owner : \E auth : RefreshSchedule(accs, reqs, o, auth)

AsksOf(reqs, t) == \A u \in Token \ {t} : \A x \in Owner : reqs[x][u] = requests[x][u]

\* The wealth after a step that puts `new` for the rows of t and `reqs` for the
\* requests, and perhaps settles what is due then.
LEMMA WealthAfter ==
  ASSUME WInv, NEW t \in Token, NEW new \in Sheet,
         NEW reqs \in Requests, AsksOf(reqs, t), Leaves(t, new, reqs),
         NEW u \in Token, NEW x \in Owner
  PROVE  Wealths'[u][x] = IF u # t THEN Wealths[u][x] ELSE Worth(new, reqs, t, x)
<1> DEFINE accs == [accounts EXCEPT ![t] = new]
<1>1. accs \in [Token -> Sheet] /\ accs[u] = IF u = t THEN new ELSE accounts[u]
  BY WholeTables
<1> HIDE DEF accs
<1>2. Wealths'[u][x] = Worth(accounts'[u], requests', u, x)
  BY WealthIs
<1>3. Worth(accounts'[u], requests', u, x) = Worth(accs[u], reqs, u, x)
  <2>1. CASE accounts' = accs /\ requests' = reqs
    BY <2>1
  <2>2. ASSUME NEW o \in Owner, NEW auth, RefreshSchedule(accs, reqs, o, auth)
        PROVE  Worth(accounts'[u], requests', u, x) = Worth(accs[u], reqs, u, x)
    <3>1. TypeOK /\ accs \in [Token -> Sheet]
      BY <1>1, WholeTables
    <3> QED
      BY <2>2, <3>1, RefreshWorth, Zenon
  <2> QED
    BY <2>1, <2>2 DEF Leaves, accs
<1>4. CASE u = t
  BY <1>1, <1>2, <1>3, <1>4
<1>5. CASE u # t
  <2>1. accs[u] = accounts[u] /\ \A y \in Owner : reqs[y][u] = requests[y][u]
    BY <1>1, <1>5 DEF AsksOf
  <2>2. AskedIn(reqs, u) = AskedIn(requests, u)
    BY <2>1 DEF AskedIn
  <2>3. Worth(accs[u], reqs, u, x) = Worth(accounts[u], requests, u, x)
    BY <2>1, <2>2 DEF Worth
  <2> QED
    BY <1>2, <1>3, <1>5, <2>3, WealthIs
<1> QED
  BY <1>4, <1>5

\* The requests stay.
LEMMA RowsAfter ==
  ASSUME WInv, NEW t \in Token, NEW new \in Sheet,
         accounts' = [accounts EXCEPT ![t] = new], requests' = requests,
         NEW u \in Token, NEW x \in Owner
  PROVE  Wealths'[u][x] = IF u # t THEN Wealths[u][x]
                          ELSE Wealths[u][x] + (Own(new[x]) - Own(accounts[t][x]))
<1>1. accounts[t] \in Sheet /\ requests \in Requests /\ AsksOf(requests, t)
  BY WholeTables DEF AsksOf
<1>2. Leaves(t, new, requests)
  BY DEF Leaves
<1>3. Wealths'[u][x] = IF u # t THEN Wealths[u][x] ELSE Worth(new, requests, t, x)
  BY <1>1, <1>2, WealthAfter
<1>4. requests[x][t].amount \in Nat
  BY <1>1, AskedType
<1>5. Own(new[x]) \in Nat /\ Own(accounts[t][x]) \in Nat
  BY <1>1, OwnType
<1>6. Wealths[t][x] = Worth(accounts[t], requests, t, x) /\ Wealths[t][x] \in Int
  BY WealthIs
<1> DEFINE n == requests[x][t].amount - requests[x][t].amount
<1>7. Worth(new, requests, t, x)
        = Worth(accounts[t], requests, t, x) + (Own(new[x]) - Own(accounts[t][x]))
            + At(x, x, n) - At(x, TokenContract, n)
  <2>1. \A y \in Owner \ {x} : requests[y][t].amount = requests[y][t].amount
    OBVIOUS
  <2> QED
    BY <1>1, <2>1, WorthUpdate
<1>8. n = 0
  BY <1>4
<1> HIDE DEF n
<1>9. Worth(new, requests, t, x) = Wealths[t][x] + (Own(new[x]) - Own(accounts[t][x]))
  BY <1>5, <1>6, <1>7, <1>8 DEF At
<1> QED
  BY <1>3, <1>9

\* A payer but the contract is worth at least what its row holds.
LEMMA PayerWealth ==
  ASSUME WInv, NEW t \in Token, NEW x \in Owner
  PROVE  /\ x # TokenContract =>
              Wealths[t][x] = Own(accounts[t][x]) + requests[x][t].amount
         /\ requests[x][t].amount \in Nat /\ Own(accounts[t][x]) \in Nat
         /\ accounts[t][x].balance \in Nat /\ accounts[t][x].deposit \in Nat
         /\ Own(accounts[t][x]) = accounts[t][x].balance + accounts[t][x].deposit
<1>1. accounts[t] \in Sheet /\ requests \in Requests
  BY WholeTables
<1>2. Wealths[t][x] = Worth(accounts[t], requests, t, x)
  BY WealthIs
<1> QED
  BY <1>1, <1>2, AskedType, OwnType, SheetRow DEF Worth, Own

LEMMA MintedMore ==
  ASSUME WInv, NEW t \in Token, NEW n \in Nat, n \in Amounts,
         stat[t].max_supply + n <= MaxAmount,
         stat'[t].supply = stat[t].supply,
         stat'[t].max_supply = stat[t].max_supply + n,
         \A u \in Token \ {t} : stat'[u] = stat[u],
         UNCHANGED <<accounts, requests>>
  PROVE  LedgerStep
<1>1. Supplies' = Supplies
  BY DEF Supplies
<1>2. Ceilings' = [Ceilings EXCEPT ![t] = @ + n]
  BY DEF Ceilings
<1>3. Ceilings[t] + n <= MaxAmount /\ n \in Int
  <2>1. Ceilings[t] = stat[t].max_supply
    BY DEF Ceilings
  <2> QED
    BY <2>1
<1>4. Ledger!Mint(t, n)
  BY <1>1, <1>2, <1>3, MintLedger
<1> QED
  BY <1>4 DEF LedgerStep, Ledger!Next, Amounts

LEMMA CreateRefines ==
  ASSUME WInv, NEW t \in Token, NEW v \in Values, NEW c, NEW auth, Create(t, v, c, auth)
  PROVE  LedgerStep
<1> DEFINE n == v.amount
<1>1. /\ Positive(v) /\ UNCHANGED <<accounts, requests>>
      /\ stat'[t].supply = 0 /\ stat'[t].max_supply = n
      /\ \A u \in Token \ {t} : stat'[u] = stat[u]
  BY WholeTables DEF Create
<1>2. n \in Nat /\ n <= MaxAmount /\ n \in Amounts
  BY <1>1, ValueMoves DEF Positive
<1>3. stat[t].supply = 0 /\ stat[t].max_supply = 0
  BY DEF Create, WInv, Uncreated, NoStat
<1> HIDE DEF n
<1>4. stat[t].max_supply + n = n
  BY <1>2, <1>3
<1> QED
  BY <1>1, <1>2, <1>3, <1>4, MintedMore

LEMMA MintMoreRefines ==
  ASSUME WInv, NEW t \in Token, NEW v \in Values, NEW flags, NEW auth,
         MintMore(t, v, flags, auth)
  PROVE  LedgerStep
<1> DEFINE opts == WithFlags(stat[t].opts, flags)
           n == v.amount
<1>1. /\ Positive(v) /\ UNCHANGED <<accounts, requests>>
      /\ stat[t].max_supply + n <= MaxAmount
      /\ stat' = [stat EXCEPT ![t].max_supply = @ + n, ![t].opts = opts]
  BY DEF MintMore
<1>2. n \in Nat /\ n \in Amounts
  BY <1>1, ValueMoves
<1> HIDE DEF opts, n
<1>3. /\ stat'[t].supply = stat[t].supply
      /\ stat'[t].max_supply = stat[t].max_supply + n
      /\ \A u \in Token \ {t} : stat'[u] = stat[u]
  BY <1>1, WholeTables DEF Stat
<1> QED
  BY <1>1, <1>2, <1>3, MintedMore

LEMMA SetOptsRefines ==
  ASSUME WInv, NEW t \in Token, NEW flags, NEW auth, SetOpts(t, flags, auth)
  PROVE  LedgerStep
<1> DEFINE opts == WithFlags(stat[t].opts, flags)
<1>1. stat' = [stat EXCEPT ![t].opts = opts] /\ UNCHANGED <<accounts, requests>>
  BY DEF SetOpts
<1> HIDE DEF opts
<1>2. \A u \in Token : stat'[u].supply = stat[u].supply /\ stat'[u].max_supply = stat[u].max_supply
  BY <1>1, WholeTables DEF Stat
<1>3. Supplies' = Supplies /\ Ceilings' = Ceilings
  BY <1>2 DEF Supplies, Ceilings
<1>4. \A u \in Token, x \in Owner : Wealths'[u][x] = Wealths[u][x]
  BY <1>1 DEF Wealths, Wealth, Asked
<1> QED
  BY <1>3, <1>4, StutterStep

LEMMA IssueRefines ==
  ASSUME WInv, WInv', NEW t \in Token, NEW to \in Owner, NEW v \in Values, NEW auth,
         Issue(t, to, v, auth)
  PROVE  LedgerStep
<1> DEFINE acc == accounts[t]
           cached == Is(t, "recallable") /\ to # Issuer[t]
           new == IF cached THEN AddDeposit(t, acc, to, v) ELSE AddBalance(t, acc, to, v)
           n == v.amount
<1>1. /\ Positive(v) /\ requests' = requests
      /\ n <= stat[t].max_supply - stat[t].supply
      /\ stat' = [stat EXCEPT ![t].supply = @ + n]
      /\ accounts' = [accounts EXCEPT ![t] = new]
  BY DEF Issue, Issuable
<1>2. v \in Value /\ n \in Nat /\ n \in Amounts /\ acc \in Sheet /\ n \in Int
  BY <1>1, ValueMoves, WholeTables
<1>3. new = AddDeposit(t, acc, to, v) \/ new = AddBalance(t, acc, to, v)
  OBVIOUS
<1> HIDE DEF acc, new
<1>4. /\ new \in Sheet
      /\ \A x \in Owner : Own(new[x]) = Own(acc[x]) + At(x, to, n)
  BY <1>2, <1>3, AddLaw, AddOwn
<1>5. ASSUME NEW u \in Token, NEW x \in Owner
      PROVE  Wealths'[u][x] = IF u # t THEN Wealths[u][x] ELSE Wealths[u][x] + At(x, to, n)
  <2>1. Wealths'[u][x] = IF u # t THEN Wealths[u][x]
                         ELSE Wealths[u][x] + (Own(new[x]) - Own(acc[x]))
    BY <1>1, <1>4, RowsAfter DEF acc
  <2>2. Own(acc[x]) \in Nat
    BY <1>2, OwnType
  <2> QED
    BY <1>2, <1>4, <2>1, <2>2 DEF At
<1>6. Gained(Wealths, Wealths', t, to, n)
  BY <1>5 DEF Gained
<1> HIDE DEF n
<1>7. /\ stat'[t].supply = stat[t].supply + n
      /\ stat'[t].max_supply = stat[t].max_supply
      /\ stat[t].supply \in Nat /\ stat[t].max_supply \in Nat
      /\ \A u \in Token \ {t} : stat'[u] = stat[u]
  BY <1>1, WholeTables DEF Stat
<1>8. Supplies' = [Supplies EXCEPT ![t] = @ + n] /\ Ceilings' = Ceilings
  BY <1>7 DEF Supplies, Ceilings
<1>8a. Supplies[t] + n <= Ceilings[t]
  <2>1. stat[t].supply + n <= stat[t].max_supply
    BY <1>1, <1>2, <1>7
  <2>2. Supplies[t] = stat[t].supply /\ Ceilings[t] = stat[t].max_supply
    BY DEF Supplies, Ceilings
  <2> QED
    BY <2>1, <2>2
<1>9. Ledger!Issue(t, to, n)
  BY <1>2, <1>6, <1>8, <1>8a, IssueLedger
<1> QED
  BY <1>2, <1>9 DEF LedgerStep, Ledger!Next, Amounts

LEMMA RetireRefines ==
  ASSUME WInv, WInv', NEW t \in Token, NEW from \in Owner, NEW v \in Values, NEW auth,
         Retire(t, from, v, auth)
  PROVE  LedgerStep
<1> DEFINE acc == accounts[t]
           keep == FALSE
           new == IF from \in auth THEN SubBalance(acc, from, v)
                                   ELSE SubDeposit(acc, from, v, keep)
           n == v.amount
<1>1. /\ Positive(v) /\ requests' = requests
      /\ stat' = [stat EXCEPT ![t].supply = @ - n]
      /\ accounts' = [accounts EXCEPT ![t] = new]
      /\ IF from \in auth THEN CanSubBalance(t, acc, from, v)
                           ELSE CanSubDeposit(t, acc, from, v, keep)
  BY DEF Retire
<1>2. /\ v \in Value /\ n \in Nat /\ n \in Amounts /\ n \in Int
      /\ acc \in Sheet /\ from \in Owner /\ keep \in BOOLEAN
  BY <1>1, ValueMoves, WholeTables
<1>3. MayPay(t, from, n)
  <2>1. n <= accounts[t][from].balance \/ n <= accounts[t][from].deposit
    BY <1>1 DEF CanSubBalance, CanSubDeposit
  <2> QED
    BY <1>2, <2>1, PayerWealth DEF MayPay
<1> HIDE DEF keep
<1> HIDE DEF acc, keep
<1>5. new \in Sheet /\ \A x \in Owner : Own(new[x]) = Own(acc[x]) - At(x, from, n)
  <2>1. CASE from \in auth
    <3>1. CanSubBalance(t, acc, from, v) /\ new = SubBalance(acc, from, v)
      BY <1>1, <2>1
    <3> HIDE DEF new
    <3> QED
      BY <1>2, <3>1, SubBalanceLaw, SubBalanceOwn
  <2>2. CASE from \notin auth
    <3>1. CanSubDeposit(t, acc, from, v, keep) /\ new = SubDeposit(acc, from, v, keep)
      BY <1>1, <2>2
    <3> HIDE DEF new
    <3>2. new \in Sheet
      <4>1. CanSubDeposit(t, acc, from, v, keep)
        BY <3>1
      <4>2. SubDeposit(acc, from, v, keep) \in Sheet
        BY <1>2, <4>1, SubDepositLaw
      <4> QED
        BY <3>1, <4>2
    <3>3. ASSUME NEW x \in Owner PROVE Own(new[x]) = Own(acc[x]) - At(x, from, n)
      <4>1. CanSubDeposit(t, acc, from, v, keep)
        BY <3>1
      <4>2. Own(SubDeposit(acc, from, v, keep)[x]) = Own(acc[x]) - At(x, from, n)
        BY <1>2, <4>1, SubDepositOwn
      <4> QED
        BY <3>1, <4>2
    <3> QED
      BY <3>2, <3>3
  <2> QED
    BY <2>1, <2>2
<1> HIDE DEF new
<1>6. ASSUME NEW u \in Token, NEW x \in Owner
      PROVE  Wealths'[u][x] = IF u # t THEN Wealths[u][x] ELSE Wealths[u][x] + At(x, from, 0 - n)
  <2>1. Wealths'[u][x] = IF u # t THEN Wealths[u][x]
                         ELSE Wealths[u][x] + (Own(new[x]) - Own(acc[x]))
    BY <1>1, <1>5, RowsAfter DEF acc
  <2>2. Own(acc[x]) \in Nat
    BY <1>2, OwnType
  <2> QED
    BY <1>2, <1>5, <2>1, <2>2 DEF At
<1>7. Gained(Wealths, Wealths', t, from, 0 - n)
  BY <1>6 DEF Gained
<1> HIDE DEF n
<1>8. /\ stat'[t].supply = stat[t].supply - n
      /\ stat'[t].max_supply = stat[t].max_supply
      /\ \A u \in Token \ {t} : stat'[u] = stat[u]
  BY <1>1, WholeTables DEF Stat
<1>9. Supplies' = [Supplies EXCEPT ![t] = @ - n] /\ Ceilings' = Ceilings
  BY <1>8 DEF Supplies, Ceilings
<1>10. Ledger!Retire(t, from, n)
  BY <1>2, <1>3, <1>7, <1>9, RetireLedger
<1> QED
  BY <1>2, <1>10 DEF LedgerStep, Ledger!Next, Amounts

LEMMA BurnRefines ==
  ASSUME WInv, WInv', NEW t \in Token, NEW from \in Owner, NEW v \in Values, NEW auth,
         Burn(t, from, v, auth)
  PROVE  LedgerStep
<1> DEFINE acc == accounts[t]
           new == SubBalance(acc, from, v)
           n == v.amount
<1>1. /\ Positive(v) /\ requests' = requests
      /\ stat' = [stat EXCEPT ![t].supply = @ - n, ![t].max_supply = @ - n]
      /\ accounts' = [accounts EXCEPT ![t] = new]
      /\ CanSubBalance(t, acc, from, v)
  BY DEF Burn
<1>2. /\ v \in Value /\ n \in Nat /\ n \in Amounts /\ n \in Int
      /\ acc \in Sheet /\ from \in Owner
  BY <1>1, ValueMoves, WholeTables
<1>3. MayPay(t, from, n)
  <2>1. n <= accounts[t][from].balance
    BY <1>1 DEF CanSubBalance
  <2> QED
    BY <1>2, <2>1, PayerWealth DEF MayPay
<1> HIDE DEF acc
<1>5. /\ new \in Sheet
      /\ \A x \in Owner : Own(new[x]) = Own(acc[x]) - At(x, from, n)
  BY <1>1, <1>2, SubBalanceLaw, SubBalanceOwn
<1> HIDE DEF new
<1>6. ASSUME NEW u \in Token, NEW x \in Owner
      PROVE  Wealths'[u][x] = IF u # t THEN Wealths[u][x] ELSE Wealths[u][x] + At(x, from, 0 - n)
  <2>1. Wealths'[u][x] = IF u # t THEN Wealths[u][x]
                         ELSE Wealths[u][x] + (Own(new[x]) - Own(acc[x]))
    BY <1>1, <1>5, RowsAfter DEF acc
  <2>2. Own(acc[x]) \in Nat
    BY <1>2, OwnType
  <2> QED
    BY <1>2, <1>5, <2>1, <2>2 DEF At
<1>7. Gained(Wealths, Wealths', t, from, 0 - n)
  BY <1>6 DEF Gained
<1> HIDE DEF n
<1>8. /\ stat'[t].supply = stat[t].supply - n
      /\ stat'[t].max_supply = stat[t].max_supply - n
      /\ \A u \in Token \ {t} : stat'[u] = stat[u]
  BY <1>1, WholeTables DEF Stat
<1>9. Supplies' = [Supplies EXCEPT ![t] = @ - n] /\ Ceilings' = [Ceilings EXCEPT ![t] = @ - n]
  BY <1>8 DEF Supplies, Ceilings
<1>10. Ledger!Burn(t, from, n)
  BY <1>2, <1>3, <1>7, <1>9, BurnLedger
<1> QED
  BY <1>2, <1>10 DEF LedgerStep, Ledger!Next, Amounts

\* Steps that leave what each row holds.
LEMMA SameHoldings ==
  ASSUME WInv, NEW t \in Token, NEW new \in Sheet,
         accounts' = [accounts EXCEPT ![t] = new], UNCHANGED <<stat, requests>>,
         \A x \in Owner : Own(new[x]) = Own(accounts[t][x])
  PROVE  LedgerStep
<1>1. ASSUME NEW u \in Token, NEW x \in Owner
      PROVE  Wealths'[u][x] = Wealths[u][x]
  <2>1. Wealths'[u][x] = IF u # t THEN Wealths[u][x]
                         ELSE Wealths[u][x] + (Own(new[x]) - Own(accounts[t][x]))
    <3>1. requests' = requests
      OBVIOUS
    <3> QED
      BY <3>1, RowsAfter, ZenonT(30)
  <2>2. Own(accounts[t][x]) \in Nat /\ Wealths[u][x] \in Int
    BY WholeTables, OwnType, WealthIs
  <2> QED
    BY <2>1, <2>2
<1>2. Supplies' = Supplies /\ Ceilings' = Ceilings
  BY DEF Supplies, Ceilings
<1> QED
  BY <1>1, <1>2, StutterStep

LEMMA OpenRefines ==
  ASSUME WInv, WInv', NEW t \in Token, NEW o \in Owner, NEW auth, Open(t, o, auth)
  PROVE  LedgerStep
<1> DEFINE row == OpenRow(t, Is(t, "whitelist_on") /\ Issuer[t] \in auth, stat[t].prec)
           acc == accounts[t]
           new == [acc EXCEPT ![o] = row]
<1>1. acc \in Sheet
  BY WholeTables
<1>2. /\ ~acc[o].open /\ accounts' = [accounts EXCEPT ![t] = new]
      /\ UNCHANGED <<stat, requests>>
  BY WholeTables DEF Open
<1>3. accounts'[t] = new
  BY <1>2, WholeTables
<1>4. new \in Sheet
  BY <1>3 DEF WInv, IInv, ClosedEmpty
<1>5. Own(row) = 0 /\ Own(acc[o]) = 0
  BY <1>1, <1>2, SheetRow, NoRowType DEF OpenRow, NoRow, Own
<1> HIDE DEF row
<1>6. \A x \in Owner : new[x] = IF x = o THEN row ELSE acc[x]
  BY <1>1 DEF Sheet
<1> HIDE DEF new
<1>7. \A x \in Owner : Own(new[x]) = Own(acc[x])
  BY <1>5, <1>6
<1> QED
  BY <1>2, <1>4, <1>7, SameHoldings

LEMMA CloseRefines ==
  ASSUME WInv, WInv', NEW t \in Token, NEW o \in Owner, NEW auth, Close(t, o, auth)
  PROVE  LedgerStep
<1> DEFINE acc == accounts[t]
           new == [acc EXCEPT ![o] = NoRow]
<1>1. acc \in Sheet
  BY WholeTables
<1>2. /\ acc[o].balance = 0 /\ acc[o].deposit = 0
      /\ accounts' = [accounts EXCEPT ![t] = new]
      /\ UNCHANGED <<stat, requests>>
  BY WholeTables DEF Close
<1>3. accounts'[t] = new
  BY <1>2, WholeTables
<1>4. new \in Sheet
  BY <1>3 DEF WInv, IInv, ClosedEmpty
<1>5. Own(NoRow) = 0 /\ Own(acc[o]) = 0
  BY <1>2, NoRowType DEF NoRow, Own
<1>6. \A x \in Owner : new[x] = IF x = o THEN NoRow ELSE acc[x]
  BY <1>1 DEF Sheet
<1> HIDE DEF new
<1>7. \A x \in Owner : Own(new[x]) = Own(acc[x])
  BY <1>5, <1>6
<1> QED
  BY <1>2, <1>4, <1>7, SameHoldings

LEMMA SetAcntsOptsRefines ==
  ASSUME WInv, WInv', NEW t \in Token, NEW os, NEW flags, NEW auth,
         SetAcntsOpts(t, os, flags, auth)
  PROVE  LedgerStep
<1> DEFINE acc == accounts[t]
           new == [o \in Owner |->
                     IF o \in os
                     THEN [acc[o] EXCEPT !.frozen = Set(flags, "frozen", @),
                                         !.whitelist = Set(flags, "whitelist", @)]
                     ELSE acc[o]]
<1>1. acc \in Sheet
  BY WholeTables
<1>2. /\ accounts' = [accounts EXCEPT ![t] = new]
      /\ UNCHANGED <<stat, requests>>
  BY DEF SetAcntsOpts
<1>3. accounts'[t] = new
  BY <1>2, WholeTables
<1>4. new \in Sheet
  BY <1>3 DEF WInv, IInv, ClosedEmpty
<1>5. \A x \in Owner : new[x].balance = acc[x].balance /\ new[x].deposit = acc[x].deposit
  BY <1>1 DEF Sheet, Row
<1> HIDE DEF new, acc
<1>6. \A x \in Owner : Own(new[x]) = Own(acc[x])
  BY <1>5 DEF Own
<1> QED
  BY <1>2, <1>4, <1>6, SameHoldings DEF acc

\* Steps that move n units from one row to another's.
LEMMA MovedHoldings ==
  ASSUME WInv, WInv', NEW t \in Token, NEW from \in Owner, NEW to \in Owner, from # to,
         NEW n \in Nat, n \in Amounts, MayPay(t, from, n),
         NEW new \in Sheet, accounts' = [accounts EXCEPT ![t] = new],
         UNCHANGED <<stat, requests>>,
         \A x \in Owner : Own(new[x]) = Own(accounts[t][x]) - At(x, from, n) + At(x, to, n)
  PROVE  LedgerStep
<1>1. ASSUME NEW u \in Token, NEW x \in Owner
      PROVE  Wealths'[u][x] = IF u # t THEN Wealths[u][x]
                              ELSE Wealths[u][x] - At(x, from, n) + At(x, to, n)
  <2>1. Wealths'[u][x] = IF u # t THEN Wealths[u][x]
                         ELSE Wealths[u][x] + (Own(new[x]) - Own(accounts[t][x]))
    <3>1. requests' = requests
      OBVIOUS
    <3> QED
      BY <3>1, RowsAfter, ZenonT(30)
  <2>2. Own(accounts[t][x]) \in Nat /\ Wealths[u][x] \in Int
    BY WholeTables, OwnType, WealthIs
  <2> QED
    BY <2>1, <2>2 DEF At
<1>2. Shifted(Wealths, Wealths', t, from, to, n)
  BY <1>1 DEF Shifted
<1>3. Supplies' = Supplies /\ Ceilings' = Ceilings
  BY DEF Supplies, Ceilings
<1>4. n \in Int
  OBVIOUS
<1>5. Ledger!Move(t, from, to, n)
  BY <1>2, <1>3, <1>4, MoveStep
<1> QED
  BY <1>5 DEF LedgerStep, Ledger!Next, Amounts

LEMMA MoveBalanceRefines ==
  ASSUME WInv, WInv', NEW t \in Token, NEW from \in Owner, NEW to \in Owner,
         NEW v \in Values, NEW auth, Transferable(t, from, to, v),
         MoveBalance(t, from, to, v, auth), UNCHANGED <<stat, requests>>
  PROVE  LedgerStep
<1> DEFINE acc == accounts[t]
           paid == SubBalance(acc, from, v)
           new == AddBalance(t, paid, to, v)
           n == v.amount
<1>1. /\ Positive(v) /\ from # to
      /\ accounts' = [accounts EXCEPT ![t] = new]
      /\ CanSubBalance(t, acc, from, v)
  BY DEF MoveBalance, Transferable
<1>2. /\ v \in Value /\ n \in Nat /\ n \in Amounts
      /\ acc \in Sheet /\ from \in Owner
  BY <1>1, ValueMoves, WholeTables
<1>3. MayPay(t, from, n)
  <2>1. n <= accounts[t][from].balance
    BY <1>1 DEF CanSubBalance
  <2> QED
    BY <1>2, <2>1, PayerWealth DEF MayPay
<1> HIDE DEF acc
<1>4. /\ paid \in Sheet
      /\ \A x \in Owner : Own(paid[x]) = Own(acc[x]) - At(x, from, n)
  BY <1>1, <1>2, SubBalanceLaw, SubBalanceOwn
<1> HIDE DEF paid
<1>5. /\ new \in Sheet
      /\ \A x \in Owner : Own(new[x]) = Own(paid[x]) + At(x, to, n)
  BY <1>2, <1>4, AddLaw, AddOwn
<1> HIDE DEF new, n
<1>6. \A x \in Owner : Own(new[x]) = Own(acc[x]) - At(x, from, n) + At(x, to, n)
  BY <1>4, <1>5
<1> QED
  BY <1>1, <1>2, <1>3, <1>5, <1>6, MovedHoldings DEF acc

LEMMA RecallRefines ==
  ASSUME WInv, WInv', NEW t \in Token, NEW from \in Owner, NEW to \in Owner,
         NEW v \in Values, NEW auth, Recall(t, from, to, v, auth)
  PROVE  LedgerStep
<1> DEFINE acc == accounts[t]
           keep == FALSE
           paid == SubDeposit(acc, from, v, keep)
           new == AddBalance(t, paid, to, v)
           n == v.amount
<1>1. /\ Positive(v) /\ from # to /\ UNCHANGED <<stat, requests>>
      /\ accounts' = [accounts EXCEPT ![t] = new]
      /\ CanSubDeposit(t, acc, from, v, keep)
  BY DEF Recall, Transferable
<1>2. /\ v \in Value /\ n \in Nat /\ n \in Amounts
      /\ acc \in Sheet /\ from \in Owner /\ keep \in BOOLEAN
  BY <1>1, ValueMoves, WholeTables
<1>3. MayPay(t, from, n)
  <2>1. n <= accounts[t][from].deposit
    BY <1>1 DEF CanSubDeposit
  <2> QED
    BY <1>2, <2>1, PayerWealth DEF MayPay
<1> HIDE DEF acc, keep
<1>4. /\ paid \in Sheet
      /\ \A x \in Owner : Own(paid[x]) = Own(acc[x]) - At(x, from, n)
  <2>1. CanSubDeposit(t, acc, from, v, keep)
    BY <1>1
  <2> QED
    BY <1>2, <2>1, SubDepositLaw, SubDepositOwn
<1> HIDE DEF paid
<1>5. /\ new \in Sheet
      /\ \A x \in Owner : Own(new[x]) = Own(paid[x]) + At(x, to, n)
  BY <1>2, <1>4, AddLaw, AddOwn
<1> HIDE DEF new, n
<1>6. \A x \in Owner : Own(new[x]) = Own(acc[x]) - At(x, from, n) + At(x, to, n)
  BY <1>4, <1>5
<1> QED
  BY <1>1, <1>2, <1>3, <1>5, <1>6, MovedHoldings DEF acc

LEMMA DepositRefines ==
  ASSUME WInv, WInv', NEW t \in Token, NEW from \in Owner, NEW v \in Values, NEW auth,
         Deposit(t, from, v, auth)
  PROVE  LedgerStep
<1> DEFINE acc == accounts[t]
           paid == SubBalance(acc, from, v)
           new == AddDeposit(t, paid, from, v)
           n == v.amount
<1>1. /\ Positive(v) /\ UNCHANGED <<stat, requests>>
      /\ accounts' = [accounts EXCEPT ![t] = new]
      /\ CanSubBalance(t, acc, from, v)
  BY DEF Deposit
<1>2. /\ v \in Value /\ n \in Nat /\ acc \in Sheet /\ from \in Owner
  BY <1>1, ValueMoves, WholeTables
<1> HIDE DEF acc
<1>4. /\ paid \in Sheet
      /\ \A x \in Owner : Own(paid[x]) = Own(acc[x]) - At(x, from, n)
  BY <1>1, <1>2, SubBalanceLaw, SubBalanceOwn
<1> HIDE DEF paid
<1>5. /\ new \in Sheet
      /\ \A x \in Owner : Own(new[x]) = Own(paid[x]) + At(x, from, n)
  BY <1>2, <1>4, AddLaw, AddOwn
<1> HIDE DEF new, n
<1>6. ASSUME NEW x \in Owner PROVE Own(new[x]) = Own(acc[x])
  <2>1. Own(acc[x]) \in Nat
    BY <1>2, OwnType
  <2> QED
    BY <1>2, <1>4, <1>5, <2>1 DEF At
<1> QED
  BY <1>1, <1>5, <1>6, SameHoldings DEF acc

\* Steps with one owner's request of one token: it and the rows change together.
LEMMA RequestWorth ==
  ASSUME WInv, NEW t \in Token, NEW new \in Sheet, NEW reqs \in Requests,
         AsksOf(reqs, t), Leaves(t, new, reqs),
         NEW o \in Owner, \A y \in Owner \ {o} : reqs[y] = requests[y],
         NEW n \in Int, reqs[o][t].amount = requests[o][t].amount + n,
         NEW u \in Token, NEW x \in Owner
  PROVE  Wealths'[u][x] = IF u # t THEN Wealths[u][x]
                          ELSE Wealths[u][x] + (Own(new[x]) - Own(accounts[t][x]))
                                 + At(x, o, n) - At(x, TokenContract, n)
<1>1. accounts[t] \in Sheet /\ requests \in Requests
  BY WholeTables
<1>2. Wealths'[u][x] = IF u # t THEN Wealths[u][x] ELSE Worth(new, reqs, t, x)
  BY WealthAfter
<1>3. Wealths[t][x] = Worth(accounts[t], requests, t, x)
  BY WealthIs
<1> DEFINE m == reqs[o][t].amount - requests[o][t].amount
<1>4. Worth(new, reqs, t, x)
        = Worth(accounts[t], requests, t, x) + (Own(new[x]) - Own(accounts[t][x]))
            + At(x, o, m) - At(x, TokenContract, m)
  <2>1. \A y \in Owner \ {o} : reqs[y][t].amount = requests[y][t].amount
    OBVIOUS
  <2> QED
    BY <1>1, <2>1, WorthUpdate
<1>5. m = n
  BY <1>1, AskedType
<1> HIDE DEF m
<1> QED
  BY <1>2, <1>3, <1>4, <1>5

\* The rows and a request change, but nobody's wealth.
LEMMA OnItsWay ==
  ASSUME WInv, NEW t \in Token, NEW new \in Sheet, NEW reqs \in Requests,
         AsksOf(reqs, t), Leaves(t, new, reqs), stat' = stat,
         NEW o \in Owner, \A y \in Owner \ {o} : reqs[y] = requests[y],
         NEW n \in Int, reqs[o][t].amount = requests[o][t].amount + n,
         \A x \in Owner :
            Own(new[x]) = Own(accounts[t][x]) - At(x, o, n) + At(x, TokenContract, n)
  PROVE  LedgerStep
<1>1. ASSUME NEW u \in Token, NEW x \in Owner
      PROVE  Wealths'[u][x] = Wealths[u][x]
  <2>1. Wealths'[u][x] = IF u # t THEN Wealths[u][x]
                         ELSE Wealths[u][x] + (Own(new[x]) - Own(accounts[t][x]))
                                + At(x, o, n) - At(x, TokenContract, n)
    BY RequestWorth
  <2>2. Own(accounts[t][x]) \in Nat /\ Wealths[u][x] \in Int
    BY WholeTables, OwnType, WealthIs
  <2>3. Own(new[x]) = Own(accounts[t][x]) - At(x, o, n) + At(x, TokenContract, n)
    OBVIOUS
  <2>4. At(x, o, n) \in Int /\ At(x, TokenContract, n) \in Int
    BY DEF At
  <2> QED
    BY <2>1, <2>2, <2>3, <2>4
<1>2. Supplies' = Supplies /\ Ceilings' = Ceilings
  BY DEF Supplies, Ceilings
<1> QED
  BY <1>1, <1>2, StutterStep

LEMMA PushWithdrawRefines ==
  ASSUME WInv, NEW t \in Token, NEW from \in Requesters, NEW v \in Values, NEW auth,
         PushWithdraw(t, from, v, auth)
  PROVE  LedgerStep
<1> DEFINE at == (now + stat[t].duration) % TimeMod
           acc == accounts[t]
           keep == TRUE
           taken == SubDeposit(acc, from, v, keep)
           new == AddBalance(t, taken, TokenContract, v)
           n == v.amount
           reqs == [requests EXCEPT ![from][t] =
                      [amount |-> @.amount + n, at |-> at]]
<1>1. /\ Positive(v) /\ stat' = stat
      /\ CanSubDeposit(t, acc, from, v, keep)
      /\ RefreshSchedule([accounts EXCEPT ![t] = new], reqs, from, {from})
  BY DEF PushWithdraw
<1>2. /\ v \in Value /\ n \in Nat
      /\ acc \in Sheet /\ from \in Owner /\ TokenContract \in Owner
      /\ keep \in BOOLEAN /\ requests \in Requests
  BY <1>1, ValueMoves, WholeTables, ChainAssumption
<1>3. Leaves(t, new, reqs)
  BY <1>1, <1>2 DEF Leaves
<1>4. at \in Nat
  <2>1. now + stat[t].duration \in Nat /\ TimeMod \in Nat \ {0}
    BY ChainAssumption DEF WInv, IInv, TypeOK, Stat
  <2> QED
    BY <2>1
<1> HIDE DEF keep, at, acc
<1>5. /\ taken \in Sheet
      /\ \A x \in Owner : Own(taken[x]) = Own(acc[x]) - At(x, from, n)
  <2>1. CanSubDeposit(t, acc, from, v, keep)
    BY <1>1
  <2> QED
    BY <1>2, <2>1, SubDepositLaw, SubDepositOwn
<1> HIDE DEF taken
<1>6. /\ new \in Sheet
      /\ \A x \in Owner : Own(new[x]) = Own(taken[x]) + At(x, TokenContract, n)
  BY <1>2, <1>5, AddLaw, AddOwn
<1> HIDE DEF new, n
<1>7. requests[from][t].amount \in Nat
  BY <1>2, AskedType
<1>8. /\ reqs \in Requests
      /\ \A y \in Owner \ {from} : reqs[y] = requests[y]
      /\ AsksOf(reqs, t)
      /\ reqs[from][t].amount = requests[from][t].amount + n
  <2>1. requests[from][t].amount + n \in Nat
    BY <1>2, <1>7
  <2> QED
    BY <1>2, <1>4, <2>1 DEF Requests, Request, AsksOf
<1> HIDE DEF reqs
<1>9. \A x \in Owner :
         Own(new[x]) = Own(acc[x]) - At(x, from, n) + At(x, TokenContract, n)
  BY <1>5, <1>6
<1>10. n \in Int
  BY <1>2
<1> QED
  BY <1>1, <1>2, <1>3, <1>6, <1>8, <1>9, <1>10, OnItsWay DEF acc

LEMMA PopWithdrawRefines ==
  ASSUME WInv, NEW t \in Token, NEW from \in Requesters, NEW auth, PopWithdraw(t, from, auth)
  PROVE  LedgerStep
<1> DEFINE acc == accounts[t]
           v == Requested(requests, from, t)
           paid == SubBalance(acc, TokenContract, v)
           new == AddDeposit(t, paid, from, v)
           reqs == Erase(requests, from, {t})
           n == 0 - v.amount
<1>1. /\ acc \in Sheet /\ from \in Owner /\ TokenContract \in Owner
      /\ requests \in Requests /\ TypeOK
  BY WholeTables, ChainAssumption
<1>2. v \in Value /\ v.amount \in Nat /\ v.amount = requests[from][t].amount
  <2>1. requests[from][t].amount \in Nat
    BY <1>1, AskedType
  <2> QED
    BY <1>1, <2>1 DEF Requested, Value, TypeOK, Stat
<1>3. /\ CanSubBalance(t, acc, TokenContract, v)
      /\ accounts' = [accounts EXCEPT ![t] = new] /\ requests' = reqs /\ stat' = stat
  BY DEF PopWithdraw
<1>4. Leaves(t, new, reqs)
  BY <1>3 DEF Leaves
<1> HIDE DEF v, acc
<1>5. /\ paid \in Sheet
      /\ \A x \in Owner : Own(paid[x]) = Own(acc[x]) - At(x, TokenContract, v.amount)
  BY <1>1, <1>2, <1>3, SubBalanceLaw, SubBalanceOwn
<1> HIDE DEF paid
<1>6. /\ new \in Sheet
      /\ \A x \in Owner : Own(new[x]) = Own(paid[x]) + At(x, from, v.amount)
  BY <1>1, <1>2, <1>5, AddLaw, AddOwn
<1> HIDE DEF new
<1>7. /\ reqs \in Requests
      /\ \A x \in Owner \ {from} : reqs[x] = requests[x]
      /\ \A u \in Token \ {t} : reqs[from][u] = requests[from][u]
      /\ reqs[from][t].amount = 0
  BY <1>1, Erased DEF NoRequest
<1> HIDE DEF reqs
<1>8. AsksOf(reqs, t)
  BY <1>7 DEF AsksOf
<1>9. n \in Int /\ reqs[from][t].amount = requests[from][t].amount + n
  BY <1>2, <1>7
<1>10. ASSUME NEW x \in Owner
       PROVE  Own(new[x]) = Own(acc[x]) - At(x, from, n) + At(x, TokenContract, n)
  <2>1. Own(acc[x]) \in Nat
    BY <1>1, OwnType
  <2> QED
    BY <1>2, <1>5, <1>6, <2>1 DEF At
<1> HIDE DEF n
<1> QED
  BY <1>1, <1>3, <1>4, <1>6, <1>7, <1>8, <1>9, <1>10, OnItsWay DEF acc

LEMMA RecallPendingRefines ==
  ASSUME WInv, WInv', NEW t \in Token, NEW from \in Requesters, NEW to \in Owner,
         NEW v \in Values, NEW auth, RecallPending(t, from, to, v, auth)
  PROVE  LedgerStep
<1> DEFINE acc == accounts[t]
           keep == FALSE
           rest == [amount |-> acc[from].deposit, prec |-> v.prec]
           leftover == [amount |-> v.amount - acc[from].deposit, prec |-> v.prec]
           uncustodied == SubBalance(acc, TokenContract, leftover)
           taken == SubDeposit(uncustodied, from, rest, keep)
           new == AddBalance(t, taken, to, v)
           given == [accounts EXCEPT ![t] = new]
           asked == requests[from][t].amount
           less == [requests EXCEPT ![from][t].amount = @ - leftover.amount]
           none == Erase(requests, from, {t})
           n == v.amount
           l == leftover.amount
           m == 0 - l
<1>1. v \in Value /\ n \in Nat /\ v.prec \in Precision /\ n \in Amounts /\ from # to
  <2>1. Positive(v) /\ from # to
    BY DEF RecallPending, Transferable
  <2> QED
    BY <2>1, ValueMoves DEF Value
<1>2. /\ leftover.amount > 0 /\ leftover.amount <= asked
      /\ CanSubBalance(t, acc, TokenContract, leftover)
      /\ CanSubDeposit(t, uncustodied, from, rest, keep)
      /\ \/ accounts' = given /\ requests' = less
         \/ leftover.amount = asked /\ RefreshSchedule(given, none, from, {from})
      /\ stat' = stat
  BY DEF RecallPending
<1>3. /\ acc \in Sheet /\ from \in Owner /\ TokenContract \in Owner
      /\ keep \in BOOLEAN /\ requests \in Requests
  BY WholeTables, ChainAssumption
<1>4. asked \in Nat /\ acc[from].deposit \in Nat
  BY <1>3, AskedType, SheetRow
<1>5. /\ rest \in Value /\ rest.amount \in Nat
      /\ leftover \in Value /\ l \in Nat
      /\ rest.amount + l = n
  BY <1>1, <1>2, <1>4 DEF Value
<1>6. MayPay(t, from, n)
  <2>1. n <= acc[from].deposit + asked
    BY <1>1, <1>2, <1>4
  <2>2. from # TokenContract
    BY CallAssumption
  <2>3. /\ Wealths[t][from] = Own(acc[from]) + asked
        /\ acc[from].balance \in Nat /\ acc[from].deposit \in Nat
        /\ Own(acc[from]) = acc[from].balance + acc[from].deposit
    BY <1>3, <2>2, PayerWealth
  <2> QED
    BY <1>1, <1>4, <2>1, <2>3 DEF MayPay
<1> HIDE DEF acc, rest, leftover, keep
<1>7. /\ uncustodied \in Sheet
      /\ \A x \in Owner : Own(uncustodied[x]) = Own(acc[x]) - At(x, TokenContract, l)
  BY <1>2, <1>3, <1>5, SubBalanceLaw, SubBalanceOwn
<1> HIDE DEF uncustodied
<1>8. /\ taken \in Sheet
      /\ \A x \in Owner : Own(taken[x]) = Own(uncustodied[x]) - At(x, from, rest.amount)
  <2>1. CanSubDeposit(t, uncustodied, from, rest, keep)
    BY <1>2
  <2> QED
    BY <1>3, <1>5, <1>7, <2>1, SubDepositLaw, SubDepositOwn
<1> HIDE DEF taken
<1>9. /\ new \in Sheet
      /\ \A x \in Owner : Own(new[x]) = Own(taken[x]) + At(x, to, n)
  BY <1>1, <1>8, AddLaw, AddOwn
<1>10. PICK reqs \in Requests :
         /\ Leaves(t, new, reqs)
         /\ AsksOf(reqs, t)
         /\ \A y \in Owner \ {from} : reqs[y] = requests[y]
         /\ reqs[from][t].amount = asked - l
  <2>1. CASE accounts' = given /\ requests' = less
    <3>1. asked - l \in Nat
      BY <1>2, <1>4, <1>5
    <3>2. /\ less \in Requests
          /\ \A y \in Owner \ {from} : less[y] = requests[y]
          /\ AsksOf(less, t)
          /\ less[from][t].amount = asked - l
      BY <1>3, <3>1 DEF Requests, Request, AsksOf
    <3>3. Leaves(t, new, less)
      BY <2>1 DEF Leaves
    <3> HIDE DEF less
    <3> QED
      BY <3>2, <3>3
  <2>2. CASE leftover.amount = asked /\ RefreshSchedule(given, none, from, {from})
    <3>1. /\ none \in Requests
          /\ \A y \in Owner \ {from} : none[y] = requests[y]
          /\ \A u \in Token \ {t} : none[from][u] = requests[from][u]
          /\ none[from][t].amount = 0
      BY <1>3, Erased DEF NoRequest
    <3>2. none[from][t].amount = asked - l
      BY <1>4, <2>2, <3>1
    <3>3. Leaves(t, new, none)
      BY <1>3, <2>2 DEF Leaves
    <3> HIDE DEF none
    <3>4. AsksOf(none, t)
      BY <3>1 DEF AsksOf
    <3> QED
      BY <3>1, <3>2, <3>3, <3>4
  <2> QED
    BY <1>2, <2>1, <2>2
<1> HIDE DEF new, asked, n, l
<1>11. m \in Int /\ reqs[from][t].amount = requests[from][t].amount + m
  BY <1>4, <1>5, <1>10 DEF asked
<1>12. ASSUME NEW u \in Token, NEW x \in Owner
       PROVE  Wealths'[u][x] = IF u # t THEN Wealths[u][x]
                               ELSE Wealths[u][x] - At(x, from, n) + At(x, to, n)
  <2>1. Wealths'[u][x] = IF u # t THEN Wealths[u][x]
                         ELSE Wealths[u][x] + (Own(new[x]) - Own(acc[x]))
                                + At(x, from, m) - At(x, TokenContract, m)
    <3> HIDE DEF m
    <3> QED
      BY <1>3, <1>9, <1>10, <1>11, RequestWorth DEF acc
  <2>2. Own(acc[x]) \in Nat /\ Wealths[u][x] \in Int
    BY <1>3, OwnType, WealthIs
  <2> QED
    BY <1>1, <1>5, <1>7, <1>8, <1>9, <2>1, <2>2 DEF At
<1>13. Shifted(Wealths, Wealths', t, from, to, n)
  BY <1>12 DEF Shifted
<1>14. Supplies' = Supplies /\ Ceilings' = Ceilings
  BY <1>2 DEF Supplies, Ceilings
<1>15. n \in Int
  BY <1>1
<1>16. Ledger!Move(t, from, to, n)
  BY <1>1, <1>3, <1>6, <1>13, <1>14, <1>15, MoveStep
<1> QED
  BY <1>1, <1>3, <1>16 DEF LedgerStep, Ledger!Next, Amounts

LEMMA ClrWithdrawsRefines ==
  ASSUME WInv, NEW o \in Owner, NEW auth, ClrWithdraws(o, auth)
  PROVE  LedgerStep
<1>1. RefreshSchedule(accounts, requests, o, auth) /\ stat' = stat
  BY DEF ClrWithdraws
<1>2. TypeOK /\ accounts \in [Token -> Sheet] /\ requests \in Requests
  BY WholeTables
<1>3. ASSUME NEW u \in Token, NEW x \in Owner
      PROVE  Wealths'[u][x] = Wealths[u][x]
  <2>1. Worth(accounts'[u], requests', u, x) = Worth(accounts[u], requests, u, x)
    BY <1>1, <1>2, RefreshWorth
  <2> QED
    BY <2>1, WealthIs
<1>4. Supplies' = Supplies /\ Ceilings' = Ceilings
  BY <1>1 DEF Supplies, Ceilings
<1> QED
  BY <1>3, <1>4, StutterStep

LEMMA FireDeferredRefines ==
  ASSUME WInv, NEW o \in Owner, FireDeferred(o)
  PROVE  LedgerStep
<1>1. CASE RunDeferred(o)
  BY <1>1, ClrWithdrawsRefines DEF RunDeferred
<1>2. CASE DropDeferred(o)
  BY <1>2, IdleStep DEF DropDeferred
<1> QED
  BY <1>1, <1>2 DEF FireDeferred

LEMMA InitRefines == Init => Ledger!Init
<1> SUFFICES ASSUME Init PROVE Ledger!Init
  OBVIOUS
<1>1. ASSUME NEW t \in Token
      PROVE  Total(Asked(t)) = 0
  <2>1. Asked(t) \in [Owner -> Nat] /\ \A o \in Owner : Asked(t)[o] = 0
    BY DEF Init, Asked, NoRequest
  <2> QED
    BY <2>1, TotalZero
<1>2. ASSUME NEW t \in Token, NEW o \in Owner
      PROVE  Wealth(t, o) = 0
  BY <1>1, NoRowType DEF Init, Wealth, NoRequest
<1>3. ASSUME NEW t \in Token
      PROVE  stat[t].supply = 0 /\ stat[t].max_supply = 0
  BY DEF Init, NoStat
<1> QED
  BY <1>2, <1>3 DEF Ledger!Init

LEMMA NextRefines == WInv /\ WInv' /\ [Next]_vars => [Ledger!Next]_(Ledger!vars)
<1> SUFFICES ASSUME WInv, WInv', [Next]_vars PROVE LedgerStep
  BY DEF LedgerStep
<1>2. ASSUME NEW t \in Token, NEW auth \in AuthSets, TokenCall(t, auth)
      PROVE  LedgerStep
  BY <1>2, CreateRefines, MintMoreRefines, SetOptsRefines, IssueRefines, RetireRefines,
     BurnRefines DEF TokenCall
<1>3. ASSUME NEW t \in Token, NEW auth \in AuthSets, AccountCall(t, auth)
      PROVE  LedgerStep
  <2>1. ASSUME NEW o \in Owner, NEW s \in Spenders, NEW v \in Values, Approve(t, o, s, v, auth)
        PROVE  LedgerStep
    BY <2>1, IdleStep DEF Approve
  <2> QED
    BY <1>3, <2>1, OpenRefines, CloseRefines, SetAcntsOptsRefines, CallAssumption
     DEF AccountCall
<1>4. ASSUME NEW t \in Token, NEW auth \in AuthSets, TransferCall(t, auth)
      PROVE  LedgerStep
  <2>1. PICK v \in Values, from \in Owner, to \in Owner :
           \/ Transfer(t, from, to, v, auth)
           \/ TransferAllowed(t, from, to, v, auth)
           \/ Recall(t, from, to, v, auth)
           \/ from \in Requesters /\ RecallPending(t, from, to, v, auth)
    BY <1>4, CallAssumption DEF TransferCall
  <2>2. CASE Transfer(t, from, to, v, auth)
    BY <2>2, MoveBalanceRefines DEF Transfer
  <2>3. CASE TransferAllowed(t, from, to, v, auth)
    BY <2>3, MoveBalanceRefines DEF TransferAllowed
  <2> QED
    BY <2>1, <2>2, <2>3, RecallRefines, RecallPendingRefines
<1>5. ASSUME NEW t \in Token, NEW auth \in AuthSets, WithdrawCall(t, auth)
      PROVE  LedgerStep
  BY <1>5, DepositRefines, PushWithdrawRefines, PopWithdrawRefines DEF WithdrawCall
<1>6. ASSUME NEW o \in Requesters, NEW auth \in AuthSets, ClrWithdraws(o, auth)
      PROVE  LedgerStep
  BY <1>6, WholeTables, ClrWithdrawsRefines
<1>7. ASSUME NEW o \in Owner, FireDeferred(o)
      PROVE  LedgerStep
  BY <1>7, FireDeferredRefines
<1>8. CASE Tick
  BY <1>8, IdleStep DEF Tick
<1>9. CASE UNCHANGED vars
  BY <1>9, IdleStep DEF vars
<1> QED
  BY <1>2, <1>3, <1>4, <1>5, <1>6, <1>7, <1>8, <1>9 DEF Next

\* The contract implements the ledger: whatever is deposited, requested, settled,
\* cancelled, recalled, frozen or erased, in one step one account's wealth is
\* issued, retired, burned or moved to another, by the amount of the call, or
\* nobody's changes.
THEOREM TokenImplementsLedger == Spec => ImplementsLedger
<1>1. Init => Ledger!Init
  BY InitRefines
<1>2. WInv /\ WInv' /\ [Next]_vars => [Ledger!Next]_(Ledger!vars)
  BY NextRefines
<1> QED
  BY <1>1, <1>2, WholeInvariant, PTL DEF Spec, ImplementsLedger, Ledger!Spec

-----------------------------------------------------------------------------
(* Delays.  What is paid out without its delay would be a balance that      *)
(* grows while a deposit shrinks, or while a request shrinks that is not    *)
(* due: so it is followed which way the row operations move either side.    *)

\* No deposit shrinks, and no balance grows.
DepositsStay(acc, new) == \A x \in Owner : acc[x].deposit <= new[x].deposit
BalancesStay(acc, new) == \A x \in Owner : new[x].balance <= acc[x].balance

\* No balance grows out of the deposit of the same row.
Apart(acc, new) ==
    \A x \in Owner : \/ new[x].balance <= acc[x].balance
                     \/ acc[x].deposit <= new[x].deposit

LEMMA StayApart ==
  ASSUME NEW acc, NEW new, DepositsStay(acc, new) \/ BalancesStay(acc, new)
  PROVE  Apart(acc, new)
  BY DEF Apart, DepositsStay, BalancesStay

LEMMA SubBalanceDeposits ==
  ASSUME NEW acc \in Sheet, NEW o \in Owner, NEW v, NEW x \in Owner
  PROVE  SubBalance(acc, o, v)[x].deposit = acc[x].deposit
<1>1. CASE BalanceDrains(o, acc[o], v)
  BY <1>1, NoRowType DEF SubBalance, BalanceDrains, Sheet, Row
<1>2. CASE ~BalanceDrains(o, acc[o], v)
  BY <1>2 DEF SubBalance, Sheet, Row
<1> QED
  BY <1>1, <1>2

LEMMA SubBalanceBalances ==
  ASSUME NEW t, NEW acc \in Sheet, NEW o \in Owner, NEW v, v.amount \in Nat,
         CanSubBalance(t, acc, o, v), NEW x \in Owner
  PROVE  SubBalance(acc, o, v)[x].balance <= acc[x].balance
<1>1. CASE x = o
  <2>1. SubBalance(acc, o, v)[o].balance = acc[o].balance - v.amount
    BY BalanceDebited
  <2>2. acc[o].balance \in Nat
    BY SheetRow
  <2> QED
    BY <1>1, <2>1, <2>2
<1>2. CASE x # o
  <2>1. SubBalance(acc, o, v)[x].balance = acc[x].balance
    BY <1>2, BalanceDebited
  <2>2. acc[x].balance \in Nat
    BY SheetRow
  <2> QED
    BY <2>1, <2>2
<1> QED
  BY <1>1, <1>2

LEMMA OthersDeposits ==
  ASSUME NEW acc \in Sheet, NEW o \in Owner, NEW v, NEW keep, NEW x \in Owner \ {o}
  PROVE  SubDeposit(acc, o, v, keep)[x] = acc[x]
  BY DEF SubDeposit, Sheet

LEMMA CreditDeposits ==
  ASSUME NEW t, NEW acc \in Sheet, NEW o \in Owner, NEW v \in Value, v.amount \in Nat,
         NEW x \in Owner
  PROVE  /\ AddBalance(t, acc, o, v)[x].deposit = acc[x].deposit
         /\ acc[x].deposit <= AddDeposit(t, acc, o, v)[x].deposit
<1> DEFINE row == Opened(t, acc[o], v)
           b == [acc EXCEPT ![o] = [row EXCEPT !.balance = @ + v.amount]]
           d == [acc EXCEPT ![o] = [row EXCEPT !.deposit = @ + v.amount]]
<1>1. row \in Row /\ row.deposit = acc[o].deposit
  BY SheetRow, OpenedType
<1>2. AddBalance(t, acc, o, v) = b /\ AddDeposit(t, acc, o, v) = d
  BY DEF AddBalance, AddDeposit
<1>3. acc[x].deposit \in Nat
  BY SheetRow
<1> HIDE DEF row
<1>4. /\ b[x].deposit = acc[x].deposit
      /\ x = o => d[x].deposit = acc[x].deposit + v.amount
      /\ x # o => d[x].deposit = acc[x].deposit
  BY <1>1 DEF Sheet, Row
<1> HIDE DEF b, d
<1> QED
  BY <1>2, <1>3, <1>4

LEMMA SettleDeposits ==
  ASSUME NEW t, NEW acc \in Sheet, NEW o \in Owner, NEW v \in Value, v.amount \in Nat,
         NEW auth, NEW garbage, CanSettle(t, acc, o, v, auth, garbage), NEW x \in Owner
  PROVE  acc[x].deposit <= Settle(t, acc, o, v, garbage)[x].deposit
<1> DEFINE paid == SubBalance(acc, TokenContract, v)
<1>1. TokenContract \in Owner /\ CanSubBalance(t, acc, TokenContract, v)
  BY ChainAssumption DEF CanSettle
<1>2. paid \in Sheet /\ paid[x].deposit = acc[x].deposit
  BY <1>1, SubBalanceLaw, SubBalanceDeposits
<1>3. \/ Settle(t, acc, o, v, garbage) = AddDeposit(t, paid, o, v)
      \/ Settle(t, acc, o, v, garbage) = AddBalance(t, paid, o, v)
  BY DEF Settle
<1>4. acc[x].deposit \in Nat
  BY SheetRow
<1> HIDE DEF paid
<1>5. /\ AddBalance(t, paid, o, v)[x].deposit = paid[x].deposit
      /\ paid[x].deposit <= AddDeposit(t, paid, o, v)[x].deposit
  BY <1>2, CreditDeposits
<1> QED
  BY <1>2, <1>3, <1>4, <1>5

\* A request that asks for something and is due.
Matured(req) == req.amount > 0 /\ req.at <= now

\* Refreshing takes requests that are due away and leaves the others; it takes
\* no deposit, and without a due request leaves a token's rows alone.
LEMMA RefreshTimely ==
  ASSUME TypeOK, NEW accs \in [Token -> Sheet], NEW reqs \in Requests,
         NEW o \in Owner, NEW auth, RefreshSchedule(accs, reqs, o, auth),
         NEW t \in Token, NEW x \in Owner
  PROVE  /\ accs[t][x].deposit <= accounts'[t][x].deposit
         /\ \/ requests'[x][t] = reqs[x][t]
            \/ x = o /\ requests'[x][t] = NoRequest /\ Matured(reqs[x][t])
         /\ ~Matured(reqs[o][t]) => accounts'[t] = accs[t]
<1> DEFINE due == Due(reqs, o)
           v == Requested(reqs, o, t)
<1>1. PICK garbage \in SUBSET Unread(accs, reqs, o) :
         /\ CanClear(accs, reqs, o, auth, garbage)
         /\ accounts' = [u \in Token |->
                IF u \in due
                THEN Settle(u, accs[u], o, Requested(reqs, o, u), garbage)
                ELSE accs[u]]
  BY DEF RefreshSchedule
<1>2. requests' = Erase(reqs, o, due)
  BY DEF RefreshSchedule
<1>3. t \in due <=> Matured(reqs[o][t])
  BY DEF Due, Pending, Matured
<1>4. /\ x # o => requests'[x][t] = reqs[x][t]
      /\ requests'[o][t] = IF t \in due THEN NoRequest ELSE reqs[o][t]
  BY <1>2, Erased
<1>5. accs[t] \in Sheet /\ accs[t][x].deposit \in Nat
  BY SheetRow
<1>6. CASE t \in due
  <2>1. v \in Value /\ v.amount \in Nat
    BY AskedType DEF Requested, Value, TypeOK, Stat
  <2>2. CanSettle(t, accs[t], o, v, auth, garbage)
    BY <1>1, <1>6 DEF CanClear
  <2>3. accounts'[t] = Settle(t, accs[t], o, v, garbage)
    BY <1>1, <1>6
  <2> HIDE DEF v, due
  <2>4. accs[t][x].deposit <= accounts'[t][x].deposit
    BY <1>5, <2>1, <2>2, <2>3, SettleDeposits
  <2> QED
    BY <1>3, <1>4, <1>6, <2>4
<1>7. CASE t \notin due
  BY <1>1, <1>3, <1>4, <1>5, <1>7
<1> QED
  BY <1>6, <1>7

-----------------------------------------------------------------------------
(* The invariant.                                                           *)

\* No delay takes a time past what a time_point_sec holds while the clock is
\* within its bound.
DelaysFit ==
    /\ MaxTime + DefaultDelay < TimeMod
    /\ \A c \in MintOptions : MaxTime + c.delay < TimeMod

\* A request is of a token that exists, and due no later than its delay from now.
Timely ==
    \A t \in Token, o \in Owner :
        requests[o][t].amount > 0 =>
            /\ stat[t].exists
            /\ requests[o][t].at <= now + stat[t].duration

DInv ==
    /\ IInv
    /\ now <= MaxTime
    /\ \A t \in Token : MaxTime + stat[t].duration < TimeMod
    /\ Timely

LEMMA DelayTables ==
  ASSUME DInv
  PROVE  /\ IInv /\ TypeOK /\ requests \in Requests /\ stat \in [Token -> Stat]
         /\ accounts \in [Token -> Sheet] /\ Requesters \subseteq Owner
         /\ TokenContract \in Owner /\ TokenContract \notin Requesters
         /\ now \in Nat /\ now <= MaxTime /\ MaxTime \in Nat /\ TimeMod \in Nat \ {0}
         /\ \A t \in Token : stat[t].duration \in Nat
<1>1. IInv /\ TypeOK /\ now \in Nat
  BY DEF DInv, IInv, TypeOK
<1>2. accounts \in [Token -> Sheet] /\ requests \in Requests /\ TokenContract \in Owner
  BY <1>1, Domains
<1>3. stat \in [Token -> Stat]
  BY <1>1 DEF TypeOK
<1> QED
  BY <1>1, <1>2, <1>3, ChainAssumption, CallAssumption DEF DInv, Stat

\* The steps that keep the terms of every token that exists.
TermsKept ==
    \A t \in Token : /\ stat[t].exists => stat'[t].exists
                     /\ stat'[t].duration = stat[t].duration

\* The steps that ask for nothing.
NoneAsked ==
    \A t \in Token, o \in Owner :
        \/ requests'[o][t].amount = 0
        \/ requests'[o][t].at = requests[o][t].at /\ requests[o][t].amount > 0

LEMMA SameTerms ==
  ASSUME stat' = stat
  PROVE  TermsKept
  BY DEF TermsKept

LEMMA SameRequests ==
  ASSUME DInv, requests' = requests
  PROVE  NoneAsked
<1> SUFFICES ASSUME NEW t \in Token, NEW o \in Owner
             PROVE  requests[o][t].amount = 0 \/ requests[o][t].amount > 0
  BY DEF NoneAsked
<1>1. requests[o][t].amount \in Nat
  BY DelayTables, AskedType
<1> QED
  BY <1>1

LEMMA KeptTimely ==
  ASSUME DInv, IInv', TermsKept, NoneAsked, now' = now
  PROVE  DInv'
<1>1. \A t \in Token : MaxTime + stat'[t].duration < TimeMod
  BY DEF DInv, TermsKept
<1>2. ASSUME NEW t \in Token, NEW o \in Owner, requests'[o][t].amount > 0
      PROVE  stat'[t].exists /\ requests'[o][t].at <= now' + stat'[t].duration
  <2>1. requests'[o][t].at = requests[o][t].at /\ requests[o][t].amount > 0
    BY <1>2 DEF NoneAsked
  <2>2. stat[t].exists /\ requests[o][t].at <= now + stat[t].duration
    BY <2>1 DEF DInv, Timely
  <2> QED
    BY <2>1, <2>2 DEF TermsKept
<1> QED
  BY <1>1, <1>2 DEF DInv, Timely

LEMMA CreateTimely ==
  ASSUME DInv, IInv', DelaysFit, NEW t \in Token, NEW v \in Values, NEW c \in MintOptions,
         NEW auth, Create(t, v, c, auth)
  PROVE  DInv'
<1> DEFINE opts == WithFlags({"mintable", "recallable", "freezable"}, c.flags)
           given == IF c.delay # None THEN c.delay ELSE DefaultDelay
           duration == IF "recallable" \in opts THEN given % TimeMod ELSE 0
<1>1. /\ ~stat[t].exists /\ requests' = requests /\ now' = now
      /\ stat' = [stat EXCEPT ![t] =
            [exists |-> TRUE, supply |-> 0, max_supply |-> v.amount,
             opts |-> opts, prec |-> v.prec,
             amount |-> IF "recallable" \in opts
                        THEN (IF c.min # None THEN c.min ELSE 0) ELSE 0,
             duration |-> duration]]
  BY DEF Create
<1>2. /\ given \in Nat /\ MaxTime + given < TimeMod
      /\ MaxTime \in Nat /\ TimeMod \in Nat \ {0}
  BY ChainAssumption, CallAssumption DEF DelaysFit, None
<1>3. MaxTime + duration < TimeMod
  <2> HIDE DEF given, opts
  <2> QED
    BY <1>2
<1> HIDE DEF duration, opts
<1>4. \A u \in Token : /\ u = t => stat'[u].duration = duration
                       /\ u # t => stat'[u] = stat[u]
  BY <1>1, DelayTables
<1>5. ASSUME NEW u \in Token, NEW o \in Owner, requests'[o][u].amount > 0
      PROVE  stat'[u].exists /\ requests'[o][u].at <= now' + stat'[u].duration
  <2>1. stat[u].exists /\ requests[o][u].at <= now + stat[u].duration
    BY <1>1, <1>5 DEF DInv, Timely
  <2> QED
    BY <1>1, <1>4, <2>1
<1>6. \A u \in Token : MaxTime + stat'[u].duration < TimeMod
  BY <1>3, <1>4 DEF DInv
<1> QED
  BY <1>1, <1>5, <1>6 DEF DInv, Timely

LEMMA TableTerms ==
  ASSUME DInv, NEW t \in Token, NEW v, NEW auth
  PROVE  /\ \A flags : MintMore(t, v, flags, auth) => TermsKept
         /\ \A flags : SetOpts(t, flags, auth) => TermsKept
         /\ \A to : Issue(t, to, v, auth) => TermsKept
         /\ \A from : Retire(t, from, v, auth) => TermsKept
         /\ \A owner : Burn(t, owner, v, auth) => TermsKept
<1>1. stat \in [Token -> Stat]
  BY DelayTables
<1>2. ASSUME NEW m, NEW opts, stat' = [stat EXCEPT ![t].max_supply = m, ![t].opts = opts]
      PROVE  TermsKept
  BY <1>1, <1>2 DEF TermsKept, Stat
<1>3. ASSUME NEW opts, stat' = [stat EXCEPT ![t].opts = opts]
      PROVE  TermsKept
  BY <1>1, <1>3 DEF TermsKept, Stat
<1>4. ASSUME NEW s, stat' = [stat EXCEPT ![t].supply = s]
      PROVE  TermsKept
  BY <1>1, <1>4 DEF TermsKept, Stat
<1>5. ASSUME NEW s, NEW m, stat' = [stat EXCEPT ![t].supply = s, ![t].max_supply = m]
      PROVE  TermsKept
  BY <1>1, <1>5 DEF TermsKept, Stat
<1>6. ASSUME NEW flags, MintMore(t, v, flags, auth) PROVE TermsKept
  BY <1>2, <1>6 DEF MintMore
<1>7. ASSUME NEW flags, SetOpts(t, flags, auth) PROVE TermsKept
  BY <1>3, <1>7 DEF SetOpts
<1>8. ASSUME NEW to, Issue(t, to, v, auth) PROVE TermsKept
  BY <1>4, <1>8 DEF Issue
<1>9. ASSUME NEW from, Retire(t, from, v, auth) PROVE TermsKept
  BY <1>4, <1>9 DEF Retire
<1>10. ASSUME NEW owner, Burn(t, owner, v, auth) PROVE TermsKept
  BY <1>5, <1>10 DEF Burn
<1> QED
  BY <1>6, <1>7, <1>8, <1>9, <1>10

\* The schedule is refreshed over requests that ask for nothing new.
LEMMA RefreshedNone ==
  ASSUME DInv, NEW accs \in [Token -> Sheet], NEW reqs \in Requests, NEW o \in Owner,
         NEW auth, RefreshSchedule(accs, reqs, o, auth),
         \A u \in Token, x \in Owner : reqs[x][u] = requests[x][u] \/ reqs[x][u].amount = 0
  PROVE  NoneAsked
<1> SUFFICES ASSUME NEW u \in Token, NEW x \in Owner
             PROVE  \/ requests'[x][u].amount = 0
                    \/ /\ requests'[x][u].at = requests[x][u].at
                       /\ requests[x][u].amount > 0
  BY DEF NoneAsked
<1>1. requests'[x][u] = reqs[x][u] \/ requests'[x][u] = NoRequest
  BY DelayTables, RefreshTimely
<1>2. requests[x][u].amount \in Nat /\ NoRequest.amount = 0
  BY DelayTables, AskedType DEF NoRequest
<1> QED
  BY <1>1, <1>2

LEMMA ClrWithdrawsNone ==
  ASSUME DInv, NEW o \in Owner, NEW auth, ClrWithdraws(o, auth)
  PROVE  NoneAsked
<1>1. RefreshSchedule(accounts, requests, o, auth)
  BY DEF ClrWithdraws
<1> QED
  BY <1>1, DelayTables, RefreshedNone

LEMMA PopWithdrawNone ==
  ASSUME DInv, NEW t \in Token, NEW from \in Requesters, NEW auth, PopWithdraw(t, from, auth)
  PROVE  NoneAsked
<1> SUFFICES ASSUME NEW u \in Token, NEW x \in Owner
             PROVE  \/ requests'[x][u].amount = 0
                    \/ /\ requests'[x][u].at = requests[x][u].at
                       /\ requests[x][u].amount > 0
  BY DEF NoneAsked
<1>1. requests' = Erase(requests, from, {t}) /\ from \in Owner
  BY DelayTables DEF PopWithdraw
<1>2. requests'[x][u] = requests[x][u] \/ requests'[x][u] = NoRequest
  BY <1>1, DelayTables, Erased
<1>3. requests[x][u].amount \in Nat /\ NoRequest.amount = 0
  BY DelayTables, AskedType DEF NoRequest
<1> QED
  BY <1>2, <1>3

-----------------------------------------------------------------------------
(* The steps.                                                               *)

\* DelayHonoured, of one account.
Honoured(t, o) ==
    LET was == requests[o][t]
        is  == requests'[o][t]
        paid == accounts'[t][o].balance > accounts[t][o].balance
    IN  /\ is.amount > was.amount => is.at >= now + stat[t].duration
        /\ paid /\ is.amount < was.amount => was.at <= now
        /\ paid /\ accounts'[t][o].deposit < accounts[t][o].deposit
             => stat[t].duration = 0

AllHonoured == \A t \in Token, o \in Owner : Honoured(t, o)

\* Every amount of the tables is a number, before the step and after it.
LEMMA DelayAmounts ==
  ASSUME DInv, IInv', NEW t \in Token, NEW o \in Owner
  PROVE  /\ accounts[t][o].balance \in Nat /\ accounts[t][o].deposit \in Nat
         /\ accounts'[t][o].balance \in Nat /\ accounts'[t][o].deposit \in Nat
         /\ requests[o][t].amount \in Nat /\ requests[o][t].at \in Nat
         /\ requests'[o][t].amount \in Nat /\ requests'[o][t].at \in Nat
<1>1. accounts \in [Token -> [Owner -> Row]] /\ requests \in [Owner -> [Token -> Request]]
  BY DEF DInv, IInv, TypeOK
<1>2. accounts' \in [Token -> [Owner -> Row]] /\ requests' \in [Owner -> [Token -> Request]]
  BY DEF IInv, TypeOK
<1> QED
  BY <1>1, <1>2 DEF Row, Request

\* Requests stay as they are, and so is each row's balance or deposit.
LEMMA ApartHonoured ==
  ASSUME DInv, IInv', requests' = requests,
         \A t \in Token : Apart(accounts[t], accounts'[t])
  PROVE  AllHonoured
<1> SUFFICES ASSUME NEW t \in Token, NEW o \in Owner
             PROVE  Honoured(t, o)
  BY DEF AllHonoured
<1>1. \/ accounts'[t][o].balance <= accounts[t][o].balance
      \/ accounts[t][o].deposit <= accounts'[t][o].deposit
  BY DEF Apart
<1> QED
  BY <1>1, DelayAmounts DEF Honoured

LEMMA SameHonoured ==
  ASSUME DInv, IInv', accounts' = accounts, requests' = requests
  PROVE  AllHonoured
<1>1. ASSUME NEW t \in Token
      PROVE  Apart(accounts[t], accounts'[t])
  <2>1. \A x \in Owner : accounts'[t][x].balance <= accounts[t][x].balance
    BY DelayAmounts
  <2> QED
    BY <2>1 DEF Apart
<1> QED
  BY <1>1, ApartHonoured

\* One token's rows change.
LEMMA OneApart ==
  ASSUME DInv, IInv', requests' = requests, NEW t \in Token, NEW new,
         Apart(accounts[t], new), accounts' = [accounts EXCEPT ![t] = new]
  PROVE  AllHonoured
<1>1. ASSUME NEW u \in Token
      PROVE  Apart(accounts[u], accounts'[u])
  <2>1. accounts'[u] = IF u = t THEN new ELSE accounts[u]
    BY DelayTables
  <2>2. \A x \in Owner : accounts[u][x].balance <= accounts[u][x].balance
    BY DelayAmounts
  <2> QED
    BY <2>1, <2>2 DEF Apart
<1> QED
  BY <1>1, ApartHonoured

LEMMA IssueHonoured ==
  ASSUME DInv, IInv', NEW t \in Token, NEW to \in Owner, NEW v \in Values, NEW auth,
         Issue(t, to, v, auth)
  PROVE  AllHonoured
<1> DEFINE acc == accounts[t]
           cached == Is(t, "recallable") /\ to # Issuer[t]
           new == IF cached THEN AddDeposit(t, acc, to, v) ELSE AddBalance(t, acc, to, v)
<1>1. v \in Value /\ v.amount \in Nat
  BY CallAssumption, PositiveValue DEF Issue
<1>2. accounts' = [accounts EXCEPT ![t] = new] /\ requests' = requests
  BY DEF Issue
<1>3. acc \in Sheet
  BY DelayTables
<1> HIDE DEF acc, cached
<1>4. \A x \in Owner : /\ AddBalance(t, acc, to, v)[x].deposit = acc[x].deposit
                       /\ acc[x].deposit <= AddDeposit(t, acc, to, v)[x].deposit
                       /\ acc[x].deposit \in Nat
  BY <1>1, <1>3, CreditDeposits, SheetRow
<1>5. DepositsStay(acc, new)
  BY <1>4 DEF DepositsStay
<1> HIDE DEF new
<1> QED
  BY <1>2, <1>5, StayApart, OneApart DEF acc

LEMMA RetireHonoured ==
  ASSUME DInv, IInv', NEW t \in Token, NEW from \in Owner, NEW v \in Values, NEW auth,
         Retire(t, from, v, auth)
  PROVE  AllHonoured
<1> DEFINE acc == accounts[t]
           keep == FALSE
           new == IF from \in auth THEN SubBalance(acc, from, v)
                                   ELSE SubDeposit(acc, from, v, keep)
<1>1. v \in Value /\ v.amount \in Nat
  BY CallAssumption, PositiveValue DEF Retire
<1>2. /\ accounts' = [accounts EXCEPT ![t] = new] /\ requests' = requests
      /\ from \in auth => CanSubBalance(t, acc, from, v)
  BY DEF Retire
<1>3. acc \in Sheet /\ from \in Owner
  BY DelayTables
<1> HIDE DEF acc, keep
<1>4. ASSUME NEW x \in Owner PROVE new[x].balance <= acc[x].balance
  <2>1. acc[x].balance \in Nat
    BY <1>3, SheetRow
  <2>2. CASE from \in auth
    BY <1>1, <1>2, <1>3, <2>2, SubBalanceBalances
  <2>3. CASE from \notin auth
    BY <1>3, <2>1, <2>3, DepositDebited
  <2> QED
    BY <2>2, <2>3
<1>5. BalancesStay(acc, new)
  BY <1>4 DEF BalancesStay
<1> HIDE DEF new
<1> QED
  BY <1>2, <1>5, StayApart, OneApart DEF acc

LEMMA BurnHonoured ==
  ASSUME DInv, IInv', NEW t \in Token, NEW owner \in Owner, NEW v \in Values, NEW auth,
         Burn(t, owner, v, auth)
  PROVE  AllHonoured
<1> DEFINE acc == accounts[t]
           new == SubBalance(acc, owner, v)
<1>1. accounts' = [accounts EXCEPT ![t] = new] /\ requests' = requests
  BY DEF Burn
<1>2. acc \in Sheet /\ owner \in Owner
  BY DelayTables
<1>3. \A x \in Owner : acc[x].deposit <= new[x].deposit
  BY <1>2, SubBalanceDeposits, SheetRow
<1>4. DepositsStay(acc, new)
  BY <1>3 DEF DepositsStay
<1> HIDE DEF new
<1> QED
  BY <1>1, <1>4, StayApart, OneApart

\* A row that is opened, closed or flagged pays nothing.
LEMMA OpenHonoured ==
  ASSUME DInv, IInv', NEW t \in Token, NEW o \in Owner, NEW auth, Open(t, o, auth)
  PROVE  AllHonoured
<1> DEFINE row == OpenRow(t, Is(t, "whitelist_on") /\ Issuer[t] \in auth, stat[t].prec)
           acc == accounts[t]
           new == [acc EXCEPT ![o] = row]
<1>1. accounts' = [accounts EXCEPT ![t] = new] /\ requests' = requests
  <2>1. accounts' = [accounts EXCEPT ![t][o] = row] /\ requests' = requests
    BY DEF Open
  <2> QED
    BY <2>1, DelayTables
<1>2. acc \in Sheet
  BY DelayTables
<1>3. row.balance = 0
  BY NoRowType DEF OpenRow, Row
<1> HIDE DEF row
<1>4. ASSUME NEW x \in Owner PROVE new[x].balance <= acc[x].balance
  <2>1. acc[x].balance \in Nat
    BY <1>2, SheetRow
  <2> QED
    BY <1>2, <1>3, <2>1 DEF Sheet
<1>5. BalancesStay(acc, new)
  BY <1>4 DEF BalancesStay
<1> HIDE DEF new
<1> QED
  BY <1>1, <1>5, StayApart, OneApart

LEMMA CloseHonoured ==
  ASSUME DInv, IInv', NEW t \in Token, NEW o \in Owner, NEW auth, Close(t, o, auth)
  PROVE  AllHonoured
<1> DEFINE acc == accounts[t]
           new == [acc EXCEPT ![o] = NoRow]
<1>1. accounts' = [accounts EXCEPT ![t] = new] /\ requests' = requests
  <2>1. accounts' = [accounts EXCEPT ![t][o] = NoRow] /\ requests' = requests
    BY DEF Close
  <2> QED
    BY <2>1, DelayTables
<1>2. acc \in Sheet
  BY DelayTables
<1>3. ASSUME NEW x \in Owner PROVE new[x].balance <= acc[x].balance
  <2>1. acc[x].balance \in Nat
    BY <1>2, SheetRow
  <2> QED
    BY <1>2, <2>1, NoRowType DEF Sheet
<1>4. BalancesStay(acc, new)
  BY <1>3 DEF BalancesStay
<1> HIDE DEF new
<1> QED
  BY <1>1, <1>4, StayApart, OneApart

LEMMA SetAcntsOptsHonoured ==
  ASSUME DInv, IInv', NEW t \in Token, NEW os \in SUBSET Owner, NEW flags, NEW auth,
         SetAcntsOpts(t, os, flags, auth)
  PROVE  AllHonoured
<1> DEFINE acc == accounts[t]
           new == [o \in Owner |->
                     IF o \in os
                     THEN [acc[o] EXCEPT !.frozen = Set(flags, "frozen", @),
                                         !.whitelist = Set(flags, "whitelist", @)]
                     ELSE acc[o]]
<1>1. accounts' = [accounts EXCEPT ![t] = new] /\ requests' = requests
  BY DEF SetAcntsOpts
<1>2. acc \in Sheet
  BY DelayTables
<1>3. ASSUME NEW x \in Owner PROVE new[x].balance <= acc[x].balance
  <2>1. acc[x] \in Row /\ acc[x].balance \in Nat
    BY <1>2, SheetRow
  <2> QED
    BY <2>1 DEF Row
<1>4. BalancesStay(acc, new)
  BY <1>3 DEF BalancesStay
<1> HIDE DEF new
<1> QED
  BY <1>1, <1>4, StayApart, OneApart

LEMMA MoveBalanceHonoured ==
  ASSUME DInv, IInv', NEW t \in Token, NEW from \in Owner, NEW to \in Owner,
         NEW v \in Value, v.amount \in Nat, NEW auth, MoveBalance(t, from, to, v, auth),
         requests' = requests
  PROVE  AllHonoured
<1> DEFINE acc == accounts[t]
           paid == SubBalance(acc, from, v)
           new == AddBalance(t, paid, to, v)
<1>1. CanSubBalance(t, acc, from, v) /\ accounts' = [accounts EXCEPT ![t] = new]
  BY DEF MoveBalance
<1>2. acc \in Sheet /\ from \in Owner
  BY DelayTables
<1>3. /\ paid \in Sheet
      /\ \A x \in Owner : paid[x].deposit = acc[x].deposit /\ acc[x].deposit \in Nat
  BY <1>1, <1>2, SubBalanceLaw, SubBalanceDeposits, SheetRow
<1> HIDE DEF paid
<1>4. \A x \in Owner : new[x].deposit = paid[x].deposit
  BY <1>3, CreditDeposits
<1>5. DepositsStay(acc, new)
  BY <1>3, <1>4 DEF DepositsStay
<1> HIDE DEF new
<1> QED
  BY <1>1, <1>5, StayApart, OneApart

LEMMA RecallHonoured ==
  ASSUME DInv, IInv', NEW t \in Token, NEW from \in Owner, NEW to \in Owner,
         NEW v \in Values, NEW auth, Recall(t, from, to, v, auth)
  PROVE  AllHonoured
<1> DEFINE acc == accounts[t]
           keep == FALSE
           taken == SubDeposit(acc, from, v, keep)
           new == AddBalance(t, taken, to, v)
<1>1. v \in Value /\ v.amount \in Nat
  BY CallAssumption, PositiveValue DEF Recall, Transferable
<1>2. /\ CanSubDeposit(t, acc, from, v, keep) /\ from # to
      /\ accounts' = [accounts EXCEPT ![t] = new] /\ requests' = requests
  BY DEF Recall, Transferable
<1>3. acc \in Sheet /\ from \in Owner /\ keep \in BOOLEAN
  BY DelayTables
<1> HIDE DEF acc, keep
<1>4. /\ taken \in Sheet /\ taken[from].balance = acc[from].balance
      /\ \A x \in Owner \ {from} : taken[x] = acc[x]
  BY <1>1, <1>2, <1>3, SubDepositLaw, DepositDebited, OthersDeposits
<1> HIDE DEF taken
<1>5. /\ new[from].balance = taken[from].balance
      /\ \A x \in Owner : new[x].deposit = taken[x].deposit
  BY <1>1, <1>2, <1>3, <1>4, CreditDeposits, Credited
<1>6. ASSUME NEW x \in Owner
      PROVE  \/ new[x].balance <= acc[x].balance
             \/ acc[x].deposit <= new[x].deposit
  BY <1>3, <1>4, <1>5, SheetRow
<1>7. Apart(acc, new)
  BY <1>6 DEF Apart
<1> HIDE DEF new
<1> QED
  BY <1>2, <1>7, OneApart DEF acc

LEMMA DepositHonoured ==
  ASSUME DInv, IInv', NEW t \in Token, NEW from \in Owner, NEW v \in Values, NEW auth,
         Deposit(t, from, v, auth)
  PROVE  AllHonoured
<1> DEFINE acc == accounts[t]
           paid == SubBalance(acc, from, v)
           new == AddDeposit(t, paid, from, v)
<1>1. v \in Value /\ v.amount \in Nat
  BY CallAssumption, PositiveValue DEF Deposit
<1>2. /\ CanSubBalance(t, acc, from, v) /\ requests' = requests
      /\ accounts' = [accounts EXCEPT ![t] = new]
  BY DEF Deposit
<1>3. acc \in Sheet /\ from \in Owner
  BY DelayTables
<1>4. /\ paid \in Sheet
      /\ \A x \in Owner : paid[x].deposit = acc[x].deposit
  BY <1>1, <1>2, <1>3, SubBalanceLaw, SubBalanceDeposits
<1> HIDE DEF paid
<1>5. \A x \in Owner : paid[x].deposit <= new[x].deposit
  BY <1>1, <1>3, <1>4, CreditDeposits
<1>6. DepositsStay(acc, new)
  BY <1>4, <1>5 DEF DepositsStay
<1> HIDE DEF new
<1> QED
  BY <1>2, <1>6, StayApart, OneApart

\* A cancelled request comes back as deposit, and no balance grows.
LEMMA PopWithdrawHonoured ==
  ASSUME DInv, IInv', NEW t \in Token, NEW from \in Requesters, NEW auth,
         PopWithdraw(t, from, auth)
  PROVE  AllHonoured
<1> DEFINE acc == accounts[t]
           v == Requested(requests, from, t)
           paid == SubBalance(acc, TokenContract, v)
           new == AddDeposit(t, paid, from, v)
<1>1. acc \in Sheet /\ from \in Owner /\ TokenContract \in Owner
  BY DelayTables
<1>2. v \in Value /\ v.amount \in Nat
  BY <1>1, DelayTables, AskedType DEF Requested, Value, TypeOK, Stat
<1>3. /\ CanSubBalance(t, acc, TokenContract, v)
      /\ accounts' = [accounts EXCEPT ![t] = new] /\ requests' = Erase(requests, from, {t})
  BY DEF PopWithdraw
<1> HIDE DEF acc, v
<1>4. /\ paid \in Sheet
      /\ \A x \in Owner : paid[x].balance <= acc[x].balance
  BY <1>1, <1>2, <1>3, SubBalanceLaw, SubBalanceBalances
<1> HIDE DEF paid
<1>5. \A x \in Owner : new[x].balance = paid[x].balance
  BY <1>1, <1>2, <1>4, Grows
<1> SUFFICES ASSUME NEW u \in Token, NEW x \in Owner
             PROVE  Honoured(u, x)
  BY DEF AllHonoured
<1>6. accounts'[u][x].balance <= accounts[u][x].balance
  <2>1. accounts'[u] = IF u = t THEN new ELSE accounts[u]
    BY <1>3, DelayTables
  <2>2. accounts[u][x].balance \in Nat
    BY DelayAmounts
  <2> HIDE DEF new
  <2> QED
    BY <1>4, <1>5, <2>1, <2>2 DEF acc
<1>7. requests'[x][u].amount <= requests[x][u].amount
  <2>1. requests'[x][u] = requests[x][u] \/ requests'[x][u] = NoRequest
    BY <1>1, <1>3, DelayTables, Erased
  <2> QED
    BY <2>1, DelayAmounts DEF NoRequest
<1> QED
  BY <1>6, <1>7, DelayAmounts DEF Honoured

\* A refresh honours the delay of a request that it is given as it is, with no
\* less deposit.
LEMMA RefreshHonoured ==
  ASSUME DInv, IInv', NEW accs \in [Token -> Sheet], NEW reqs \in Requests,
         NEW o \in Owner, NEW auth, RefreshSchedule(accs, reqs, o, auth),
         NEW u \in Token, NEW x \in Owner, reqs[x][u] = requests[x][u],
         accounts[u][x].deposit <= accs[u][x].deposit
  PROVE  Honoured(u, x)
<1>1. /\ accs[u][x].deposit <= accounts'[u][x].deposit
      /\ \/ requests'[x][u] = reqs[x][u]
         \/ requests'[x][u] = NoRequest /\ Matured(reqs[x][u])
  BY DelayTables, RefreshTimely
<1>2. accs[u][x].deposit \in Nat
  BY SheetRow
<1>3. accounts[u][x].deposit <= accounts'[u][x].deposit
  BY <1>1, <1>2, DelayAmounts
<1>4. /\ requests'[x][u].amount <= requests[x][u].amount
      /\ requests'[x][u].amount < requests[x][u].amount => requests[x][u].at <= now
  BY <1>1, DelayAmounts DEF Matured, NoRequest
<1> QED
  BY <1>3, <1>4, DelayAmounts DEF Honoured

LEMMA ClrWithdrawsHonoured ==
  ASSUME DInv, IInv', NEW o \in Owner, NEW auth, ClrWithdraws(o, auth)
  PROVE  AllHonoured
<1> SUFFICES ASSUME NEW u \in Token, NEW x \in Owner
             PROVE  Honoured(u, x)
  BY DEF AllHonoured
<1>1. RefreshSchedule(accounts, requests, o, auth)
  BY DEF ClrWithdraws
<1>2. accounts[u][x].deposit <= accounts[u][x].deposit
  BY DelayAmounts
<1> QED
  BY <1>1, <1>2, DelayTables, RefreshHonoured

\* The deposit goes to the contract under a request a full delay ahead; when
\* that is at once, the refresh pays it.
LEMMA PushWithdrawHonoured ==
  ASSUME DInv, IInv', NEW t \in Token, NEW from \in Requesters, NEW v \in Values, NEW auth,
         PushWithdraw(t, from, v, auth), now' = now
  PROVE  AllHonoured /\ (TermsKept => DInv')
<1> DEFINE acc == accounts[t]
           keep == TRUE
           at == (now + stat[t].duration) % TimeMod
           taken == SubDeposit(acc, from, v, keep)
           new == AddBalance(t, taken, TokenContract, v)
           accs == [accounts EXCEPT ![t] = new]
           req == [amount |-> requests[from][t].amount + v.amount, at |-> at]
           reqs == [requests EXCEPT ![from][t] = [amount |-> @.amount + v.amount, at |-> at]]
<1>1. v \in Value /\ v.amount \in Nat /\ v.amount > 0
  BY CallAssumption, PositiveValue DEF PushWithdraw
<1>2. /\ CanSubDeposit(t, acc, from, v, keep) /\ stat[t].exists
      /\ RefreshSchedule(accs, reqs, from, {from})
  BY DEF PushWithdraw
<1>3. /\ acc \in Sheet /\ from \in Owner /\ TokenContract \in Owner
      /\ from # TokenContract /\ keep \in BOOLEAN /\ requests \in Requests
  BY DelayTables
<1>4. at = now + stat[t].duration
  <2>1. now + stat[t].duration < TimeMod
    BY DelayTables DEF DInv
  <2> QED
    BY <2>1, DelayTables
<1>5. req \in Request
  BY <1>1, <1>3, <1>4, DelayTables, DelayAmounts DEF Request
<1>6. /\ reqs \in Requests /\ reqs[from][t] = req
      /\ \A u \in Token, x \in Owner : u # t \/ x # from => reqs[x][u] = requests[x][u]
  <2>1. reqs = [requests EXCEPT ![from] = [requests[from] EXCEPT ![t] = req]]
    BY <1>3 DEF Requests
  <2> HIDE DEF req
  <2> QED
    BY <1>3, <1>5, <2>1 DEF Requests
<1> HIDE DEF acc, keep, reqs, at
<1>7. /\ taken \in Sheet /\ taken[from].balance = acc[from].balance
      /\ \A x \in Owner \ {from} : taken[x] = acc[x]
  BY <1>1, <1>2, <1>3, SubDepositLaw, DepositDebited, OthersDeposits
<1> HIDE DEF taken
<1>8. /\ new \in Sheet /\ new[from].balance = acc[from].balance
      /\ \A x \in Owner \ {from} : new[x].deposit = acc[x].deposit
  BY <1>1, <1>3, <1>7, AddLaw, CreditDeposits, Credited
<1> HIDE DEF new
<1>9. /\ accs \in [Token -> Sheet]
      /\ \A u \in Token : accs[u] = IF u = t THEN new ELSE accounts[u]
  BY <1>8, DelayTables
<1> HIDE DEF accs
<1>10. /\ \/ requests'[from][t] = req
          \/ requests'[from][t] = NoRequest /\ Matured(req)
       /\ ~Matured(req) => accounts'[t] = new
  BY <1>2, <1>3, <1>6, <1>9, DelayTables, RefreshTimely
<1>11. Honoured(t, from)
  <2>1. CASE Matured(req)
    <3>1. stat[t].duration = 0
      BY <1>4, <2>1, DelayTables DEF Matured
    <3>2. requests[from][t].amount > 0 => requests[from][t].at <= now
      BY <1>3, <3>1, DelayTables DEF DInv, Timely
    <3>3. requests'[from][t] = req => requests'[from][t].at = now
      BY <1>4, <3>1, DelayTables
    <3> HIDE DEF req
    <3> QED
      BY <1>3, <1>10, <3>1, <3>2, <3>3, DelayTables, DelayAmounts DEF Honoured, NoRequest
  <2>2. CASE ~Matured(req)
    <3>1. accounts'[t][from].balance = accounts[t][from].balance
      BY <1>8, <1>10, <2>2 DEF acc
    <3>2. requests'[from][t].at = now + stat[t].duration
      BY <1>4, <1>10, <2>2
    <3> QED
      BY <1>3, <3>1, <3>2, DelayTables, DelayAmounts DEF Honoured
  <2> QED
    BY <2>1, <2>2
<1>12. ASSUME NEW u \in Token, NEW x \in Owner, u # t \/ x # from
       PROVE  Honoured(u, x)
  <2>1. accounts[u][x].deposit <= accs[u][x].deposit
    BY <1>8, <1>9, <1>12, DelayAmounts DEF acc
  <2>2. reqs[x][u] = requests[x][u]
    BY <1>6, <1>12
  <2> QED
    BY <1>2, <1>3, <1>6, <1>9, <2>1, <2>2, RefreshHonoured
<1>13. ASSUME TermsKept PROVE DInv'
  <2>1. ASSUME NEW u \in Token, NEW x \in Owner, requests'[x][u].amount > 0
        PROVE  stat'[u].exists /\ requests'[x][u].at <= now' + stat'[u].duration
    <3>1. requests'[x][u] = reqs[x][u]
      BY <1>2, <1>3, <1>6, <1>9, <2>1, DelayTables, RefreshTimely DEF NoRequest
    <3>2. CASE u = t /\ x = from
      <4>1. requests'[x][u].at = now + stat[t].duration
        BY <1>4, <1>6, <3>1, <3>2
      <4>2. now + stat[t].duration \in Nat
        BY DelayTables
      <4>3. stat'[t].exists /\ stat'[t].duration = stat[t].duration
        BY <1>2, <1>13 DEF TermsKept
      <4> QED
        BY <3>2, <4>1, <4>2, <4>3
    <3>3. CASE u # t \/ x # from
      <4>1. requests'[x][u] = requests[x][u]
        BY <1>6, <3>1, <3>3
      <4>2. stat[u].exists /\ requests[x][u].at <= now + stat[u].duration
        BY <2>1, <4>1 DEF DInv, Timely
      <4>3. stat'[u].exists /\ stat'[u].duration = stat[u].duration
        BY <1>13, <4>2 DEF TermsKept
      <4> QED
        BY <4>1, <4>2, <4>3
    <3> QED
      BY <3>2, <3>3
  <2>2. \A u \in Token : MaxTime + stat'[u].duration < TimeMod
    BY <1>13 DEF TermsKept, DInv
  <2> QED
    BY <2>1, <2>2 DEF DInv, Timely
<1> QED
  BY <1>11, <1>12, <1>13 DEF AllHonoured

\* What is recalled beyond the deposit comes off the request and leaves to `to`.
LEMMA RecallPendingHonoured ==
  ASSUME DInv, IInv', NEW t \in Token, NEW from \in Requesters, NEW to \in Owner,
         NEW v \in Values, NEW auth, RecallPending(t, from, to, v, auth)
  PROVE  AllHonoured /\ NoneAsked
<1> DEFINE acc == accounts[t]
           keep == FALSE
           asked == requests[from][t].amount
           rest == [amount |-> acc[from].deposit, prec |-> v.prec]
           leftover == [amount |-> v.amount - acc[from].deposit, prec |-> v.prec]
           uncustodied == SubBalance(acc, TokenContract, leftover)
           taken == SubDeposit(uncustodied, from, rest, keep)
           new == AddBalance(t, taken, to, v)
           given == [accounts EXCEPT ![t] = new]
           none == Erase(requests, from, {t})
           l == leftover.amount
<1>1. v \in Value /\ v.amount \in Nat /\ v.prec \in Precision
  <2>1. v \in Value /\ Positive(v)
    BY CallAssumption DEF RecallPending, Transferable
  <2> QED
    BY <2>1, PositiveValue DEF Value
<1>2. /\ l > 0 /\ l <= asked /\ from # to
      /\ CanSubBalance(t, acc, TokenContract, leftover)
      /\ CanSubDeposit(t, uncustodied, from, rest, keep)
      /\ \/ /\ l < asked /\ accounts' = given
            /\ requests' = [requests EXCEPT ![from][t].amount = @ - l]
         \/ l = asked /\ RefreshSchedule(given, none, from, {from})
  BY DEF RecallPending, Transferable
<1>3. /\ acc \in Sheet /\ from \in Owner /\ TokenContract \in Owner
      /\ from # TokenContract /\ keep \in BOOLEAN /\ requests \in Requests
  BY DelayTables
<1>4. acc[from].deposit \in Nat /\ asked \in Nat
  BY <1>3, SheetRow, AskedType
<1>5. /\ rest \in Value /\ rest.amount \in Nat
      /\ leftover \in Value /\ l \in Nat
  BY <1>1, <1>2, <1>4 DEF Value
<1> HIDE DEF acc, rest, leftover, keep
<1>6. /\ uncustodied \in Sheet /\ uncustodied[from].balance = acc[from].balance
      /\ \A x \in Owner : uncustodied[x].deposit = acc[x].deposit
  BY <1>2, <1>3, <1>5, SubBalanceLaw, BalanceDebited, SubBalanceDeposits
<1> HIDE DEF uncustodied
<1>7. taken \in Sheet
  <2>1. CanSubDeposit(t, uncustodied, from, rest, keep)
    BY <1>2
  <2> QED
    BY <1>3, <1>5, <1>6, <2>1, SubDepositLaw
<1>8. /\ taken[from].balance = acc[from].balance
      /\ \A x \in Owner \ {from} : taken[x].deposit = acc[x].deposit
  BY <1>3, <1>6, DepositDebited, OthersDeposits
<1> HIDE DEF taken
<1>9. /\ new \in Sheet /\ new[from].balance = acc[from].balance
      /\ \A x \in Owner \ {from} : new[x].deposit = acc[x].deposit
  <2>1. new \in Sheet
    BY <1>1, <1>7, AddLaw
  <2>2. new[from].balance = taken[from].balance
    <3>1. from # to
      BY <1>2
    <3> QED
      BY <1>1, <1>3, <1>7, <3>1, CreditedRows
  <2>3. \A x \in Owner : new[x].deposit = taken[x].deposit
    BY <1>1, <1>7, CreditDeposits
  <2> QED
    BY <1>8, <2>1, <2>2, <2>3
<1> HIDE DEF new, l
<1>10. /\ given \in [Token -> Sheet]
       /\ \A u \in Token : given[u] = IF u = t THEN new ELSE accounts[u]
  BY <1>9, DelayTables
<1> HIDE DEF given
<1>11. CASE l < asked /\ accounts' = given
            /\ requests' = [requests EXCEPT ![from][t].amount = @ - l]
  <2>1. /\ requests'[from][t].amount = asked - l
        /\ requests'[from][t].at = requests[from][t].at
        /\ \A u \in Token, x \in Owner : u # t \/ x # from => requests'[x][u] = requests[x][u]
    BY <1>3, <1>11 DEF Requests, Request
  <2>2. ASSUME NEW u \in Token, NEW x \in Owner
        PROVE  Honoured(u, x)
    <3>1. CASE u = t /\ x = from
      <4>1. accounts'[u][x].balance = accounts[u][x].balance
        BY <1>9, <1>10, <1>11, <3>1 DEF acc
      <4>2. requests'[x][u].amount <= requests[x][u].amount
        BY <1>4, <1>5, <2>1, <3>1
      <4> QED
        BY <4>1, <4>2, DelayAmounts DEF Honoured
    <3>2. CASE u # t \/ x # from
      <4>1. accounts[u][x].deposit <= accounts'[u][x].deposit
        BY <1>9, <1>10, <1>11, <3>2, DelayAmounts DEF acc
      <4>2. requests'[x][u] = requests[x][u]
        BY <2>1, <3>2
      <4> QED
        BY <4>1, <4>2, DelayAmounts DEF Honoured
    <3> QED
      BY <3>1, <3>2
  <2>3. ASSUME NEW u \in Token, NEW x \in Owner
        PROVE  \/ requests'[x][u].amount = 0
               \/ /\ requests'[x][u].at = requests[x][u].at
                  /\ requests[x][u].amount > 0
    BY <1>4, <1>5, <1>11, <2>1, <2>3, DelayAmounts
  <2> QED
    BY <2>2, <2>3 DEF AllHonoured, NoneAsked
<1>12. CASE l = asked /\ RefreshSchedule(given, none, from, {from})
  <2>1. /\ none \in Requests /\ none[from][t] = NoRequest
        /\ \A u \in Token, x \in Owner : u # t \/ x # from => none[x][u] = requests[x][u]
    BY <1>3, Erased
  <2> HIDE DEF none
  <2>2. ~Matured(none[from][t])
    BY <2>1 DEF Matured, NoRequest
  <2>3. accounts'[t] = given[t] /\ requests'[from][t] = NoRequest
    BY <1>3, <1>10, <1>12, <2>1, <2>2, DelayTables, RefreshTimely
  <2>4. Honoured(t, from)
    <3>1. accounts'[t][from].balance = accounts[t][from].balance
      BY <1>9, <1>10, <2>3 DEF acc
    <3>2. requests'[from][t].amount = 0
      BY <2>3 DEF NoRequest
    <3> QED
      BY <1>3, <3>1, <3>2, DelayAmounts DEF Honoured
  <2>5. ASSUME NEW u \in Token, NEW x \in Owner, u # t \/ x # from
        PROVE  Honoured(u, x)
    <3>1. accounts[u][x].deposit <= given[u][x].deposit
      BY <1>9, <1>10, <2>5, DelayAmounts DEF acc
    <3>2. none[x][u] = requests[x][u]
      BY <2>1, <2>5
    <3> QED
      BY <1>3, <1>10, <1>12, <2>1, <3>1, <3>2, RefreshHonoured
  <2>6. \A u \in Token, x \in Owner : none[x][u] = requests[x][u] \/ none[x][u].amount = 0
    BY <2>1 DEF NoRequest
  <2>7. NoneAsked
    BY <1>3, <1>10, <1>12, <2>1, <2>6, RefreshedNone
  <2> QED
    BY <2>4, <2>5, <2>7 DEF AllHonoured
<1> QED
  BY <1>2, <1>11, <1>12

\* What a step does to the delays, all together.
DelayStep == DInv' /\ AllHonoured

LEMMA QuietDelay ==
  ASSUME DInv, IInv', TermsKept, requests' = requests, now' = now, AllHonoured
  PROVE  DelayStep
  BY SameRequests, KeptTimely DEF DelayStep

LEMMA TokenCallDelay ==
  ASSUME DInv, IInv', DelaysFit, NEW t \in Token, NEW auth \in AuthSets, TokenCall(t, auth)
  PROVE  DelayStep
<1>1. ASSUME NEW v \in Values, NEW c \in MintOptions, Create(t, v, c, auth)
      PROVE  DelayStep
  BY <1>1, CreateTimely, SameHonoured DEF Create, DelayStep
<1>2. ASSUME NEW v \in Values, NEW flags \in OptionLists, MintMore(t, v, flags, auth)
      PROVE  DelayStep
  <2>1. TermsKept
    BY <1>2, TableTerms
  <2> QED
    BY <1>2, <2>1, SameHonoured, QuietDelay DEF MintMore
<1>3. ASSUME NEW flags \in OptionLists, SetOpts(t, flags, auth)
      PROVE  DelayStep
  <2>1. TermsKept
    BY <1>3, TableTerms
  <2> QED
    BY <1>3, <2>1, SameHonoured, QuietDelay DEF SetOpts
<1>4. ASSUME NEW v \in Values, NEW to \in Owner, Issue(t, to, v, auth)
      PROVE  DelayStep
  <2>1. TermsKept /\ AllHonoured
    BY <1>4, TableTerms, IssueHonoured
  <2> QED
    BY <1>4, <2>1, QuietDelay DEF Issue
<1>5. ASSUME NEW v \in Values, NEW from \in Owner, Retire(t, from, v, auth)
      PROVE  DelayStep
  <2>1. TermsKept /\ AllHonoured
    BY <1>5, TableTerms, RetireHonoured
  <2> QED
    BY <1>5, <2>1, QuietDelay DEF Retire
<1>6. ASSUME NEW v \in Values, NEW owner \in Owner, Burn(t, owner, v, auth)
      PROVE  DelayStep
  <2>1. TermsKept /\ AllHonoured
    BY <1>6, TableTerms, BurnHonoured
  <2> QED
    BY <1>6, <2>1, QuietDelay DEF Burn
<1> QED
  BY <1>1, <1>2, <1>3, <1>4, <1>5, <1>6 DEF TokenCall

LEMMA AccountCallDelay ==
  ASSUME DInv, IInv', NEW t \in Token, NEW auth \in AuthSets, AccountCall(t, auth)
  PROVE  DelayStep
<1>1. ASSUME NEW o \in Owner, Open(t, o, auth)
      PROVE  DelayStep
  BY <1>1, SameTerms, OpenHonoured, QuietDelay DEF Open
<1>2. ASSUME NEW o \in Owner, Close(t, o, auth)
      PROVE  DelayStep
  BY <1>2, SameTerms, CloseHonoured, QuietDelay DEF Close
<1>3. ASSUME NEW os \in (SUBSET Owner) \ {{}}, NEW flags \in RowOptionLists,
             SetAcntsOpts(t, os, flags, auth)
      PROVE  DelayStep
  BY <1>3, SameTerms, SetAcntsOptsHonoured, QuietDelay DEF SetAcntsOpts
<1>4. ASSUME NEW o \in Owner, NEW s \in Spenders, NEW v \in Values, Approve(t, o, s, v, auth)
      PROVE  DelayStep
  BY <1>4, SameTerms, SameHonoured, QuietDelay DEF Approve
<1> QED
  BY <1>1, <1>2, <1>3, <1>4, CallAssumption DEF AccountCall

LEMMA TransferCallDelay ==
  ASSUME DInv, IInv', NEW t \in Token, NEW auth \in AuthSets, TransferCall(t, auth)
  PROVE  DelayStep
<1>1. PICK v \in Values, from \in Owner, to \in Owner :
         \/ Transfer(t, from, to, v, auth)
         \/ TransferAllowed(t, from, to, v, auth)
         \/ Recall(t, from, to, v, auth)
         \/ from \in Requesters /\ RecallPending(t, from, to, v, auth)
  BY CallAssumption DEF TransferCall
<1>2. v \in Value /\ v.amount \in Nat
  <2>1. Transferable(t, from, to, v)
    BY <1>1 DEF Transfer, TransferAllowed, Recall, RecallPending
  <2> QED
    BY <2>1, CallAssumption, PositiveValue DEF Transferable
<1>3. CASE Transfer(t, from, to, v, auth)
  BY <1>2, <1>3, SameTerms, MoveBalanceHonoured, QuietDelay DEF Transfer
<1>4. CASE TransferAllowed(t, from, to, v, auth)
  BY <1>2, <1>4, SameTerms, MoveBalanceHonoured, QuietDelay DEF TransferAllowed
<1>5. CASE Recall(t, from, to, v, auth)
  <2>1. AllHonoured
    BY <1>5, RecallHonoured
  <2> QED
    BY <1>5, <2>1, SameTerms, QuietDelay DEF Recall
<1>6. CASE from \in Requesters /\ RecallPending(t, from, to, v, auth)
  <2>1. AllHonoured /\ NoneAsked
    BY <1>6, RecallPendingHonoured
  <2> QED
    BY <1>6, <2>1, SameTerms, KeptTimely DEF RecallPending, DelayStep
<1> QED
  BY <1>1, <1>3, <1>4, <1>5, <1>6

LEMMA WithdrawCallDelay ==
  ASSUME DInv, IInv', NEW t \in Token, NEW auth \in AuthSets, WithdrawCall(t, auth)
  PROVE  DelayStep
<1>1. ASSUME NEW from \in Owner, NEW v \in Values, Deposit(t, from, v, auth)
      PROVE  DelayStep
  BY <1>1, SameTerms, DepositHonoured, QuietDelay DEF Deposit
<1>2. ASSUME NEW from \in Requesters, NEW v \in Values, PushWithdraw(t, from, v, auth)
      PROVE  DelayStep
  BY <1>2, SameTerms, PushWithdrawHonoured DEF PushWithdraw, DelayStep
<1>3. ASSUME NEW from \in Requesters, PopWithdraw(t, from, auth)
      PROVE  DelayStep
  BY <1>3, SameTerms, PopWithdrawHonoured, PopWithdrawNone, KeptTimely
     DEF PopWithdraw, DelayStep
<1> QED
  BY <1>1, <1>2, <1>3 DEF WithdrawCall

LEMMA ClrWithdrawsDelay ==
  ASSUME DInv, IInv', NEW o \in Owner, NEW auth, ClrWithdraws(o, auth)
  PROVE  DelayStep
<1>1. AllHonoured /\ NoneAsked
  BY ClrWithdrawsHonoured, ClrWithdrawsNone
<1> QED
  BY <1>1, SameTerms, KeptTimely DEF ClrWithdraws, DelayStep

LEMMA TickDelay ==
  ASSUME DInv, IInv', Tick
  PROVE  DelayStep
<1>1. /\ now < MaxTime /\ now' = now + 1 /\ stat' = stat /\ requests' = requests
      /\ accounts' = accounts
  BY DEF Tick
<1>2. ASSUME NEW t \in Token, NEW o \in Owner, requests'[o][t].amount > 0
      PROVE  stat'[t].exists /\ requests'[o][t].at <= now' + stat'[t].duration
  <2>1. stat[t].exists /\ requests[o][t].at <= now + stat[t].duration
    BY <1>1, <1>2 DEF DInv, Timely
  <2>2. requests[o][t].at \in Nat
    BY DelayAmounts
  <2> QED
    BY <1>1, <2>1, <2>2, DelayTables
<1>3. now' <= MaxTime /\ \A t \in Token : MaxTime + stat'[t].duration < TimeMod
  BY <1>1, DelayTables DEF DInv
<1> QED
  BY <1>1, <1>2, <1>3, SameHonoured DEF DelayStep, DInv, Timely

LEMMA InitDInv == DelaysFit /\ Init => DInv
<1> SUFFICES ASSUME DelaysFit, Init PROVE DInv
  OBVIOUS
<1>1. IInv
  BY InitIInv
<1>2. now <= MaxTime
  BY CallAssumption DEF Init
<1>3. \A t \in Token : MaxTime + stat[t].duration < TimeMod
  BY ChainAssumption, CallAssumption DEF Init, NoStat, DelaysFit
<1>4. Timely
  BY DEF Init, Timely, NoRequest
<1> QED
  BY <1>1, <1>2, <1>3, <1>4 DEF DInv

LEMMA NextDInv == DelaysFit /\ DInv /\ [Next]_vars => DelayStep
<1> SUFFICES ASSUME DelaysFit, DInv, [Next]_vars PROVE DelayStep
  OBVIOUS
<1>1. IInv'
  BY NextIInv DEF DInv
<1>2. ASSUME NEW t \in Token, NEW auth \in AuthSets,
             \/ TokenCall(t, auth) \/ AccountCall(t, auth)
             \/ TransferCall(t, auth) \/ WithdrawCall(t, auth)
      PROVE  DelayStep
  BY <1>1, <1>2, TokenCallDelay, AccountCallDelay, TransferCallDelay, WithdrawCallDelay
<1>3. ASSUME NEW o \in Requesters, NEW auth \in AuthSets, ClrWithdraws(o, auth)
      PROVE  DelayStep
  BY <1>1, <1>3, DelayTables, ClrWithdrawsDelay
<1>4. ASSUME NEW o \in Owner, FireDeferred(o)
      PROVE  DelayStep
  <2>1. CASE RunDeferred(o)
    BY <1>1, <2>1, ClrWithdrawsDelay DEF RunDeferred
  <2>2. CASE DropDeferred(o)
    BY <1>1, <2>2, SameTerms, SameHonoured, QuietDelay DEF DropDeferred
  <2> QED
    BY <1>4, <2>1, <2>2 DEF FireDeferred
<1>5. CASE Tick
  BY <1>1, <1>5, TickDelay
<1>6. CASE UNCHANGED vars
  BY <1>1, <1>6, SameTerms, SameHonoured, QuietDelay DEF vars
<1> QED
  BY <1>2, <1>3, <1>4, <1>5, <1>6 DEF Next

\* While no delay reaches past the last time there is, a withdrawal waits its
\* whole delay from the last top-up, whoever clears, cancels, recalls or tops up
\* what else meanwhile, and no deposit turns into balance in one step.
THEOREM DelaysHonoured ==
  ASSUME DelaysFit
  PROVE  Spec => DelayHonoured
<1>1. Init => DInv
  BY InitDInv
<1>2. DInv /\ [Next]_vars => DInv'
  BY NextDInv DEF DelayStep
<1>3. DInv /\ [Next]_vars =>
        [\A t \in Token, o \in Owner :
         LET was == requests[o][t]
             is  == requests'[o][t]
             paid == accounts'[t][o].balance > accounts[t][o].balance
         IN  /\ is.amount > was.amount => is.at >= now + stat[t].duration
             /\ paid /\ is.amount < was.amount => was.at <= now
             /\ paid /\ accounts'[t][o].deposit < accounts[t][o].deposit
                  => stat[t].duration = 0]_vars
  BY NextDInv DEF DelayStep, AllHonoured, Honoured
<1> QED
  BY <1>1, <1>2, <1>3, PTL DEF Spec, DelayHonoured
=============================================================================
