----------------------------- MODULE HtlcProofs -----------------------------
(***************************************************************************)
(* Theorems of Htlc: what is locked is paid from what was locked, but for  *)
(* the ways out that Escrow names, and each lock has one outcome.          *)
(***************************************************************************)
EXTENDS Htlc, TotalsProofs

LockRow == [there : {TRUE}, recipient : Locals \cup Digests, token : Token, value : Nat,
            hashlock : Secrets, timelock : Nat]

Locks == [Account -> [Name -> LockRow \cup {NoLock}]]

HInv ==
    /\ locks \in Locks
    /\ bank \in [Token -> [Account -> Nat]]
    /\ supply \in [Token -> Int]
    /\ now \in Nat

-----------------------------------------------------------------------------
(* What is locked.                                                          *)

Holds(lock, t) == IF lock.there /\ lock.token = t THEN lock.value ELSE 0

LockedIn(table, t) ==
    [x \in (Account \ {Vault}) \X Name |-> Holds(table[x[1]][x[2]], t)]

LEMMA LockedIs ==
  ASSUME NEW t
  PROVE  Locked(t) = LockedIn(locks, t) /\ Locked(t)' = LockedIn(locks', t)
  BY DEF Locked, LockedIn, Holds

LEMMA NoLockFacts == NoLock.there = FALSE
  BY DEF NoLock

LEMMA HoldsType ==
  ASSUME NEW lock \in LockRow \cup {NoLock}, NEW t
  PROVE  Holds(lock, t) \in Nat
<1>1. CASE lock = NoLock
  BY <1>1, NoLockFacts DEF Holds
<1>2. CASE lock \in LockRow
  BY <1>2 DEF Holds, LockRow
<1> QED
  BY <1>1, <1>2

LEMMA LockedType ==
  ASSUME NEW table \in Locks, NEW t
  PROVE  /\ LockedIn(table, t) \in [(Account \ {Vault}) \X Name -> Nat]
         /\ IsFiniteSet((Account \ {Vault}) \X Name)
<1>1. \A x \in (Account \ {Vault}) \X Name : Holds(table[x[1]][x[2]], t) \in Nat
  BY HoldsType DEF Locks
<1>2. IsFiniteSet(Account \ {Vault}) /\ IsFiniteSet(Name)
  BY HtlcAssumption, FS_Subset
<1> QED
  BY <1>1, <1>2, FS_Product DEF LockedIn

\* One lock changes what is locked by what it held and what it holds.
LEMMA LockedUpdate ==
  ASSUME NEW old \in Locks, NEW new \in Locks, NEW t,
         NEW o \in Account, NEW n \in Name,
         \A p \in Account, m \in Name : p # o \/ m # n => new[p][m] = old[p][m]
  PROVE  /\ o = Vault => Total(LockedIn(new, t)) = Total(LockedIn(old, t))
         /\ o # Vault => Total(LockedIn(new, t)) =
              Total(LockedIn(old, t)) - Holds(old[o][n], t) + Holds(new[o][n], t)
<1> DEFINE S == (Account \ {Vault}) \X Name
<1>1. /\ LockedIn(old, t) \in [S -> Nat] /\ LockedIn(new, t) \in [S -> Nat]
      /\ IsFiniteSet(S)
  BY LockedType
<1>2. CASE o = Vault
  <2>1. \A x \in S : LockedIn(new, t)[x] = LockedIn(old, t)[x]
    BY <1>2 DEF LockedIn
  <2>2. LockedIn(new, t) = LockedIn(old, t)
    BY <1>1, <2>1
  <2> QED
    BY <1>2, <2>2
<1>3. CASE o # Vault
  <2>1. <<o, n>> \in S
    BY <1>3
  <2>2. \A x \in S \ {<<o, n>>} : LockedIn(new, t)[x] = LockedIn(old, t)[x]
    BY DEF LockedIn
  <2>3. /\ LockedIn(old, t)[<<o, n>>] = Holds(old[o][n], t)
        /\ LockedIn(new, t)[<<o, n>>] = Holds(new[o][n], t)
    BY <2>1 DEF LockedIn
  <2> HIDE DEF S
  <2>4. Total(LockedIn(new, t)) =
          Total(LockedIn(old, t)) - LockedIn(old, t)[<<o, n>>] + LockedIn(new, t)[<<o, n>>]
    BY <1>1, <2>1, <2>2, TotalUpdate
  <2> QED
    BY <1>3, <2>3, <2>4
<1> QED
  BY <1>2, <1>3

-----------------------------------------------------------------------------
(* Payments.                                                                *)

SentIn(old, t, a, b, v) == [old EXCEPT ![t][a] = @ - v, ![t][b] = @ + v]
SetTo(old, t, a, w) == [old EXCEPT ![t][a] = w]
LockSet(old, o, n, row) == [old EXCEPT ![o][n] = row]

\* v of a token, from one account to another.
LEMMA Sent ==
  ASSUME NEW old \in [Token -> [Account -> Nat]], NEW t \in Token,
         NEW a \in Account, NEW b \in Account, a # b, NEW v \in Nat, v <= old[t][a]
  PROVE  LET new == SentIn(old, t, a, b, v)
         IN  /\ new \in [Token -> [Account -> Nat]]
             /\ \A s \in Token \ {t} : new[s] = old[s]
             /\ new[t][a] = old[t][a] - v /\ new[t][b] = old[t][b] + v
             /\ \A c \in Account \ {a, b} : new[t][c] = old[t][c]
<1> DEFINE new == SentIn(old, t, a, b, v)
           one == [old EXCEPT ![t][a] = @ - v]
<1>1. /\ one \in [Token -> [Account -> Nat]]
      /\ \A s \in Token \ {t} : one[s] = old[s]
      /\ one[t][a] = old[t][a] - v
      /\ \A c \in Account \ {a} : one[t][c] = old[t][c]
  OBVIOUS
<1>2. new = [one EXCEPT ![t][b] = @ + v]
  BY DEF SentIn
<1> HIDE DEF one, new
<1>3. /\ new \in [Token -> [Account -> Nat]]
      /\ \A s \in Token \ {t} : new[s] = old[s]
      /\ new[t][a] = old[t][a] - v /\ new[t][b] = old[t][b] + v
      /\ \A c \in Account \ {a, b} : new[t][c] = old[t][c]
  BY <1>1, <1>2
<1> QED
  BY <1>3 DEF new

LEMMA Changed ==
  ASSUME NEW old \in [Token -> [Account -> Nat]], NEW t \in Token,
         NEW a \in Account, NEW w \in Nat
  PROVE  LET new == SetTo(old, t, a, w)
         IN  /\ new \in [Token -> [Account -> Nat]]
             /\ \A s \in Token \ {t} : new[s] = old[s]
             /\ new[t][a] = w
             /\ \A c \in Account \ {a} : new[t][c] = old[t][c]
  BY DEF SetTo

LEMMA LockChanged ==
  ASSUME NEW old \in Locks, NEW o \in Account, NEW n \in Name,
         NEW row \in LockRow \cup {NoLock}
  PROVE  LET new == LockSet(old, o, n, row)
         IN  /\ new \in Locks /\ new[o][n] = row
             /\ \A p \in Account, m \in Name : p # o \/ m # n => new[p][m] = old[p][m]
  BY DEF Locks, LockSet

LEMMA Tables ==
  ASSUME HInv
  PROVE  /\ locks \in Locks /\ bank \in [Token -> [Account -> Nat]]
         /\ supply \in [Token -> Int] /\ now \in Nat
         /\ Self \in Account /\ Senders \subseteq Account \ {Self}
  BY HtlcAssumption DEF HInv

\* A lock that is there is a row.
LEMMA LockIs ==
  ASSUME HInv, NEW o \in Account, NEW n \in Name, locks[o][n].there
  PROVE  /\ locks[o][n] \in LockRow /\ locks[o][n].token \in Token
         /\ locks[o][n].value \in Nat /\ locks[o][n].timelock \in Nat
         /\ locks[o][n].recipient \in Locals \cup Digests
<1>1. locks[o][n] \in LockRow \cup {NoLock}
  BY DEF HInv, Locks
<1>2. locks[o][n] \in LockRow
  BY <1>1, NoLockFacts
<1> QED
  BY <1>2 DEF LockRow

\* One balance of the bank is set.
LEMMA BankSet ==
  ASSUME HInv, NEW t \in Token, NEW a \in Account, NEW w \in Nat, bank' = SetTo(bank, t, a, w)
  PROVE  /\ bank' \in [Token -> [Account -> Nat]]
         /\ \A s \in Token \ {t} : bank'[s] = bank[s]
         /\ bank'[t][a] = w
         /\ \A c \in Account \ {a} : bank'[t][c] = bank[t][c]
<1>1. bank \in [Token -> [Account -> Nat]]
  BY DEF HInv
<1> QED
  BY <1>1, Changed

\* An amount goes from one balance to another.
LEMMA BankSent ==
  ASSUME HInv, NEW t \in Token, NEW a \in Account, NEW b \in Account, a # b, NEW v \in Nat,
         v <= bank[t][a], bank' = SentIn(bank, t, a, b, v)
  PROVE  /\ bank' \in [Token -> [Account -> Nat]]
         /\ \A s \in Token \ {t} : bank'[s] = bank[s]
         /\ bank'[t][a] = bank[t][a] - v /\ bank'[t][b] = bank[t][b] + v
         /\ \A c \in Account \ {a, b} : bank'[t][c] = bank[t][c]
<1>1. bank \in [Token -> [Account -> Nat]]
  BY DEF HInv
<1> QED
  BY <1>1, Sent

-----------------------------------------------------------------------------
(* What the handlers do.                                                    *)

\* Issued to a recipient here, out of nothing the contract holds.
IssuedBy(o, lock) ==
    LET t == lock.token
    IN  /\ o = Vault /\ lock.recipient \in Locals /\ lock.timelock >= now
        /\ supply'[t] = supply[t] + lock.value
        /\ bank'[t][Self] >= bank[t][Self]

\* Out of what the contract holds, retired or given back.
PaidBy(o, lock) ==
    LET t == lock.token
    IN  /\ lock.recipient \in Digests
        /\ bank'[t][Self] = bank[t][Self] - lock.value
        /\ \/ /\ lock.timelock >= now
              /\ supply'[t] = supply[t] - lock.value
              /\ bank'[t][o] = bank[t][o]
           \/ /\ lock.timelock < now
              /\ supply'[t] = supply[t]
              /\ bank'[t][o] = bank[t][o] + lock.value

\* A lock for a recipient here that nobody opened is dropped.
DroppedBy(o, lock) ==
    /\ o = Vault /\ lock.recipient \in Locals /\ lock.timelock < now
    /\ bank' = bank /\ supply' = supply

\* The effect of an opened or refunded lock.
Settled(o, n) ==
    LET lock == locks[o][n]
    IN  /\ o \in Account \ {Self} /\ lock.there
        /\ locks' = LockSet(locks, o, n, NoLock) /\ now' = now
        /\ bank' \in [Token -> [Account -> Nat]] /\ supply' \in [Token -> Int]
        /\ \A s \in Token \ {lock.token} : bank'[s] = bank[s] /\ supply'[s] = supply[s]
        /\ IssuedBy(o, lock) \/ PaidBy(o, lock) \/ DroppedBy(o, lock)

LEMMA WithdrawSettles ==
  ASSUME HInv, NEW o \in Senders, NEW n \in Name, NEW secret, Withdraw(o, n, secret)
  PROVE  Settled(o, n)
<1> DEFINE lock == locks[o][n]
           t == lock.token
           v == lock.value
           r == lock.recipient
<1>1. /\ o \in Account \ {Self} /\ lock.there /\ lock.timelock >= now
      /\ locks' = LockSet(locks, o, n, NoLock) /\ now' = now
  BY Tables DEF Withdraw, Openable, LockSet
<1>2. t \in Token /\ v \in Nat /\ r \in Locals \cup Digests
  BY <1>1, LockIs
<1>3. supply[t] \in Int /\ bank \in [Token -> [Account -> Nat]] /\ bank[t][Self] \in Nat
  BY <1>2, Tables
<1>4. \/ /\ r \in Locals /\ o = Vault
         /\ supply' = [supply EXCEPT ![t] = @ + v]
         /\ bank' = Received(t, r, v)
      \/ /\ r \in Digests /\ v <= bank[t][Self]
         /\ supply' = [supply EXCEPT ![t] = @ - v]
         /\ bank' = [bank EXCEPT ![t][Self] = @ - v]
  BY DEF Withdraw
<1> HIDE DEF t, v, r
<1>5. CASE /\ r \in Locals /\ o = Vault
           /\ supply' = [supply EXCEPT ![t] = @ + v]
           /\ bank' = Received(t, r, v)
  <2> DEFINE w == bank[t][r] + v
  <2>1. r \in Account
    BY <1>5, HtlcAssumption
  <2>2. w \in Nat /\ bank[t][r] <= w
    BY <1>2, <1>3, <2>1
  <2>3. bank' = bank \/ bank' = SetTo(bank, t, r, w)
    BY <1>5 DEF Received, SetTo
  <2> HIDE DEF w
  <2>4. /\ bank' \in [Token -> [Account -> Nat]]
        /\ \A s \in Token \ {t} : bank'[s] = bank[s]
        /\ bank'[t][Self] >= bank[t][Self]
    <3>1. CASE bank' = bank
      BY <1>3, <3>1
    <3>2. CASE bank' = SetTo(bank, t, r, w)
      <4>1. /\ bank' \in [Token -> [Account -> Nat]]
            /\ \A s \in Token \ {t} : bank'[s] = bank[s]
            /\ bank'[t][r] = w
            /\ \A a \in Account \ {r} : bank'[t][a] = bank[t][a]
        BY <1>2, <1>3, <2>1, <2>2, <3>2, Changed
      <4>2. CASE r = Self
        BY <1>3, <2>2, <4>1, <4>2
      <4>3. CASE r # Self
        BY <1>3, <4>1, <4>3, HtlcAssumption
      <4> QED
        BY <4>1, <4>2, <4>3
    <3> QED
      BY <2>3, <3>1, <3>2
  <2>5. /\ supply' \in [Token -> Int] /\ supply'[t] = supply[t] + v
        /\ \A s \in Token \ {t} : supply'[s] = supply[s]
    BY <1>2, <1>3, <1>5, Tables
  <2>6. IssuedBy(o, lock)
    BY <1>1, <1>5, <2>4, <2>5 DEF IssuedBy, t, v, r
  <2> QED
    BY <1>1, <2>4, <2>5, <2>6 DEF Settled, t
<1>6. CASE /\ r \in Digests /\ v <= bank[t][Self]
           /\ supply' = [supply EXCEPT ![t] = @ - v]
           /\ bank' = [bank EXCEPT ![t][Self] = @ - v]
  <2> DEFINE w == bank[t][Self] - v
  <2>1. w \in Nat
    BY <1>2, <1>3, <1>6
  <2>2. bank' = SetTo(bank, t, Self, w)
    BY <1>6 DEF SetTo
  <2>3. w = bank[t][Self] - v
    OBVIOUS
  <2> HIDE DEF w
  <2>4. /\ bank' \in [Token -> [Account -> Nat]]
        /\ \A s \in Token \ {t} : bank'[s] = bank[s]
        /\ \A a \in Account \ {Self} : bank'[t][a] = bank[t][a]
        /\ bank'[t][Self] = w
    BY <1>2, <2>1, <2>2, BankSet, HtlcAssumption
  <2>5. /\ supply' \in [Token -> Int] /\ supply'[t] = supply[t] - v
        /\ \A s \in Token \ {t} : supply'[s] = supply[s]
    BY <1>2, <1>3, <1>6, Tables
  <2>6. PaidBy(o, lock)
    BY <1>1, <1>6, <2>3, <2>4, <2>5 DEF PaidBy, t, v, r
  <2> QED
    BY <1>1, <2>4, <2>5, <2>6 DEF Settled, t
<1> QED
  BY <1>4, <1>5, <1>6

LEMMA RefundSettles ==
  ASSUME HInv, NEW o \in Senders, NEW n \in Name, Refund(o, n)
  PROVE  Settled(o, n)
<1> DEFINE lock == locks[o][n]
           t == lock.token
           v == lock.value
           r == lock.recipient
<1>1. /\ o \in Account \ {Self} /\ lock.there /\ lock.timelock < now
      /\ locks' = LockSet(locks, o, n, NoLock) /\ now' = now /\ supply' = supply
  BY Tables DEF Refund, Refunded, Expired, LockSet
<1>2. t \in Token /\ v \in Nat
  BY <1>1, LockIs
<1>3. supply \in [Token -> Int] /\ bank \in [Token -> [Account -> Nat]] /\ Self \in Account
  BY Tables
<1>4. \/ r \in Locals /\ o = Vault /\ bank' = bank
      \/ r \in Digests /\ v <= bank[t][Self] /\ bank' = SentIn(bank, t, Self, o, v)
  BY DEF Refund, SentIn
<1> HIDE DEF t, v, r
<1>5. CASE r \in Locals /\ o = Vault /\ bank' = bank
  <2>1. DroppedBy(o, lock)
    BY <1>1, <1>5 DEF DroppedBy, r
  <2> QED
    BY <1>1, <1>3, <1>5, <2>1 DEF Settled
<1>6. CASE r \in Digests /\ v <= bank[t][Self] /\ bank' = SentIn(bank, t, Self, o, v)
  <2>1. /\ bank' \in [Token -> [Account -> Nat]]
        /\ \A s \in Token \ {t} : bank'[s] = bank[s]
        /\ bank'[t][Self] = bank[t][Self] - v /\ bank'[t][o] = bank[t][o] + v
    BY <1>1, <1>2, <1>3, <1>6, Sent
  <2>2. PaidBy(o, lock)
    BY <1>1, <1>6, <2>1 DEF PaidBy, t, v, r
  <2> QED
    BY <1>1, <1>3, <2>1, <2>2 DEF Settled, t
<1> QED
  BY <1>4, <1>5, <1>6

\* A new lock takes the place of none, with its value if it is not the vault's.
LEMMA NewContractLocks ==
  ASSUME HInv, NEW o \in Senders, NEW n \in Name, NEW to \in Locals \cup Digests,
         NEW t \in Token, NEW v \in Amounts, NEW secret \in Secrets,
         NEW timelock \in 0 .. MaxTime, NEW auth,
         NewContract(o, n, to, t, v, secret, timelock, auth)
  PROVE  /\ o \in Account /\ ~locks[o][n].there
         /\ locks' \in Locks /\ bank' \in [Token -> [Account -> Nat]]
         /\ \A p \in Account, m \in Name : p # o \/ m # n => locks'[p][m] = locks[p][m]
         /\ UNCHANGED <<supply, now>>
         /\ o = Vault => bank' = bank
         /\ o # Vault => \A s \in Token :
               bank'[s][Self] = bank[s][Self] + Holds(locks'[o][n], s)
<1> DEFINE row == [there |-> TRUE, recipient |-> to, token |-> t, value |-> v,
                   hashlock |-> secret, timelock |-> timelock]
<1>1. o \in Account /\ Self \in Account /\ o # Self /\ v \in Nat /\ timelock \in Nat
  BY Tables, HtlcAssumption
<1>2. /\ ~locks[o][n].there
      /\ o # Vault => v <= bank[t][o]
      /\ locks' = LockSet(locks, o, n, row)
      /\ bank' = Escrowed(o, t, v)
      /\ UNCHANGED <<supply, now>>
  BY DEF NewContract, LockSet
<1>3. row \in LockRow /\ row.there /\ row.token = t /\ row.value = v
  BY <1>1 DEF LockRow
<1> HIDE DEF row
<1>4. /\ locks' \in Locks /\ locks'[o][n] = row
      /\ \A p \in Account, m \in Name : p # o \/ m # n => locks'[p][m] = locks[p][m]
  BY <1>1, <1>2, <1>3, LockChanged, Tables
<1>5. CASE o = Vault
  BY <1>1, <1>2, <1>4, <1>5, Tables DEF Escrowed
<1>6. CASE o # Vault
  <2>1. bank' = SentIn(bank, t, o, Self, v)
    BY <1>2, <1>6 DEF Escrowed, SentIn
  <2>2. /\ bank' \in [Token -> [Account -> Nat]]
        /\ \A s \in Token \ {t} : bank'[s] = bank[s]
        /\ bank'[t][Self] = bank[t][Self] + v
    BY <1>1, <1>2, <1>6, <2>1, BankSent
  <2>3. ASSUME NEW s \in Token
        PROVE  bank'[s][Self] = bank[s][Self] + Holds(locks'[o][n], s)
    <3>1. bank[s][Self] \in Nat
      BY Tables
    <3> QED
      BY <1>3, <1>4, <2>2, <3>1 DEF Holds
  <2> QED
    BY <1>1, <1>2, <1>4, <1>6, <2>2, <2>3
<1> QED
  BY <1>5, <1>6

\* A transfer, a deposit or its return leaves the locks, and the contract's
\* balance falls only by its deposit.
LEMMA BalancesMove ==
  ASSUME HInv, NEW t \in Token, NEW v \in Amounts, NEW a \in Account, NEW to \in Account, NEW auth,
         Transfer(t, a, to, v, auth) \/ Deposit(t, a, v) \/ Undeposit(t, a, v)
  PROVE  /\ bank' \in [Token -> [Account -> Nat]]
         /\ UNCHANGED <<locks, supply, now>>
         /\ \A s \in Token : bank'[s][Self] < bank[s][Self] => Deposited(s)
<1>0. bank \in [Token -> [Account -> Nat]] /\ Self \in Account /\ v \in Nat
  BY Tables, HtlcAssumption
<1>1. CASE Transfer(t, a, to, v, auth)
  <2>1. /\ a # Self /\ a # to /\ v <= bank[t][a] /\ UNCHANGED <<locks, supply, now>>
        /\ bank' = SentIn(bank, t, a, to, v)
    BY <1>1 DEF Transfer, SentIn
  <2>2. /\ bank' \in [Token -> [Account -> Nat]]
        /\ \A s \in Token \ {t} : bank'[s] = bank[s]
        /\ bank'[t][to] = bank[t][to] + v
        /\ \A c \in Account \ {a, to} : bank'[t][c] = bank[t][c]
    BY <1>0, <2>1, Sent
  <2>3. ASSUME NEW s \in Token
        PROVE  ~(bank'[s][Self] < bank[s][Self])
    <3>1. bank[s][Self] \in Nat
      BY <1>0
    <3> QED
      BY <1>0, <2>1, <2>2, <3>1
  <2> QED
    BY <2>1, <2>2, <2>3
<1>2. CASE Deposit(t, a, v)
  <2> DEFINE w == bank[t][a] - v
  <2>1. /\ t \in Recallable /\ v <= bank[t][a] /\ UNCHANGED <<locks, supply, now>>
        /\ bank' = SetTo(bank, t, a, w)
    BY <1>2 DEF Deposit, SetTo
  <2>2. w \in Nat
    BY <1>0, <2>1
  <2> HIDE DEF w
  <2>3. /\ bank' \in [Token -> [Account -> Nat]]
        /\ \A s \in Token \ {t} : bank'[s] = bank[s]
        /\ \A c \in Account \ {a} : bank'[t][c] = bank[t][c]
    BY <2>1, <2>2, BankSet
  <2>4. ASSUME NEW s \in Token, bank'[s][Self] < bank[s][Self]
        PROVE  Deposited(s)
    <3>1. bank[s][Self] \in Nat
      BY <1>0
    <3>2. s = t /\ a = Self
      BY <1>0, <2>3, <2>4, <3>1
    <3> QED
      BY <2>1, <2>3, <3>2 DEF Deposited
  <2> QED
    BY <2>1, <2>3, <2>4
<1>3. CASE Undeposit(t, a, v)
  <2> DEFINE w == bank[t][a] + v
  <2>1. /\ a # Self /\ UNCHANGED <<locks, supply, now>>
        /\ bank' = SetTo(bank, t, a, w)
    BY <1>3 DEF Undeposit, SetTo
  <2>2. w \in Nat
    BY <1>0
  <2> HIDE DEF w
  <2>3. /\ bank' \in [Token -> [Account -> Nat]]
        /\ \A s \in Token \ {t} : bank'[s] = bank[s]
        /\ \A c \in Account \ {a} : bank'[t][c] = bank[t][c]
    BY <2>1, <2>2, BankSet
  <2>4. ASSUME NEW s \in Token
        PROVE  ~(bank'[s][Self] < bank[s][Self])
    <3>1. bank[s][Self] \in Nat
      BY <1>0
    <3> QED
      BY <1>0, <2>1, <2>3, <3>1
  <2> QED
    BY <2>1, <2>3, <2>4
<1> QED
  BY <1>1, <1>2, <1>3

-----------------------------------------------------------------------------
(* The types.                                                               *)

LEMMA InitHInv == Init => HInv
<1> SUFFICES ASSUME Init PROVE HInv
  OBVIOUS
<1>1. locks \in Locks
  BY DEF Init, Locks
<1>2. bank \in [Token -> [Account -> Nat]] /\ now \in Nat
  BY HtlcAssumption DEF Init
<1>3. supply \in [Token -> Int]
  <2>1. Total(Funds) \in Nat
    BY HtlcAssumption, CoinsFinite
  <2> QED
    BY <2>1 DEF Init
<1> QED
  BY <1>1, <1>2, <1>3 DEF HInv

\* Every step is a new lock, a lock settled, balances moved, or none of these.
Elsewhere ==
    /\ bank' \in [Token -> [Account -> Nat]]
    /\ UNCHANGED <<locks, supply>> /\ now' \in Nat
    /\ \A s \in Token : bank'[s][Self] < bank[s][Self] => Deposited(s)

LEMMA StepKinds ==
  ASSUME HInv, [Next]_vars
  PROVE  \/ \E o \in Senders, n \in Name, to \in Locals \cup Digests, t \in Token,
               v \in Amounts, secret \in Secrets, timelock \in 0 .. MaxTime, auth \in AuthSets :
               NewContract(o, n, to, t, v, secret, timelock, auth)
         \/ \E o \in Account, n \in Name : Settled(o, n)
         \/ Elsewhere
<1>1. ASSUME NEW o \in Senders, NEW n \in Name, NEW secret \in Secrets, Withdraw(o, n, secret)
      PROVE  o \in Account /\ Settled(o, n)
  BY <1>1, WithdrawSettles, Tables
<1>2. ASSUME NEW o \in Senders, NEW n \in Name, Refund(o, n)
      PROVE  o \in Account /\ Settled(o, n)
  BY <1>2, RefundSettles, Tables
<1>3. ASSUME NEW auth \in AuthSets, NEW t \in Token, NEW v \in Amounts,
             NEW from \in Account, NEW to \in Account, Transfer(t, from, to, v, auth)
      PROVE  Elsewhere
  BY <1>3, BalancesMove, Tables DEF Elsewhere
<1>4. ASSUME NEW t \in Token, NEW a \in Account, NEW v \in Amounts,
             Deposit(t, a, v) \/ Undeposit(t, a, v)
      PROVE  Elsewhere
  BY <1>4, BalancesMove, Tables DEF Elsewhere
<1>5. ASSUME UNCHANGED <<locks, bank, supply>>, now' \in Nat
      PROVE  Elsewhere
  <2>1. \A s \in Token : bank[s][Self] \in Nat
    BY Tables
  <2> QED
    BY <1>5, <2>1, Tables DEF Elsewhere
<1>6. ASSUME NEW t, NEW v, NEW timelock, NEW auth, SetConfig(t, v, timelock, auth)
      PROVE  Elsewhere
  BY <1>5, <1>6, Tables DEF SetConfig
<1>7. CASE Tick
  <2>1. now' \in Nat
    BY <1>7, Tables DEF Tick
  <2> QED
    BY <1>5, <1>7, <2>1 DEF Tick
<1>8. CASE UNCHANGED vars
  BY <1>5, <1>8, Tables DEF vars
<1> QED
  BY <1>1, <1>2, <1>3, <1>4, <1>6, <1>7, <1>8 DEF Next

LEMMA NextHInv == HInv /\ [Next]_vars => HInv'
<1> SUFFICES ASSUME HInv, [Next]_vars PROVE HInv'
  OBVIOUS
<1>1. ASSUME NEW o \in Senders, NEW n \in Name, NEW to \in Locals \cup Digests, NEW t \in Token,
             NEW v \in Amounts, NEW secret \in Secrets, NEW timelock \in 0 .. MaxTime,
             NEW auth \in AuthSets,
             NewContract(o, n, to, t, v, secret, timelock, auth)
      PROVE  HInv'
  BY <1>1, NewContractLocks, Tables DEF HInv
<1>2. ASSUME NEW o \in Account, NEW n \in Name, Settled(o, n)
      PROVE  HInv'
  BY <1>2, LockChanged, Tables DEF Settled, HInv
<1>3. CASE Elsewhere
  BY <1>3, Tables DEF Elsewhere, HInv
<1> QED
  BY <1>1, <1>2, <1>3, StepKinds

LEMMA Invariance == Spec => []HInv
<1>1. Init => HInv
  BY InitHInv
<1>2. HInv /\ [Next]_vars => HInv'
  BY NextHInv
<1> QED
  BY <1>1, <1>2, PTL DEF Spec

-----------------------------------------------------------------------------
(* What a step may not do.                                                  *)

\* `Escrow` of one token.
EscrowAt(t) ==
    Slack(t)' < Slack(t) =>
       \/ Deposited(t)
       \/ \E x \in Gone(t) :
             LET lock == locks[x[1]][x[2]]
             IN  /\ x[1] = Vault /\ lock.recipient \in Digests
                 /\ Slack(t)' = Slack(t) - lock.value

\* `OneOutcome` of one token.
OutcomeAt(t) ==
    LET paid == bank[t][Self] - bank'[t][Self]
        issued == supply'[t] - supply[t]
    IN  /\ \A x \in Gone(t) :
              LET lock == locks[x[1]][x[2]]
                  returned == bank'[t][x[1]] - bank[t][x[1]]
              IN  IF lock.recipient \in Digests
                  THEN /\ paid = lock.value
                       /\ IF lock.timelock >= now
                          THEN issued = -paid /\ returned = 0
                          ELSE issued = 0 /\ returned = paid
                  ELSE /\ x[1] = Vault /\ paid <= 0
                       /\ issued = IF lock.timelock >= now THEN lock.value ELSE 0
        /\ issued # 0 => Gone(t) # {}
        /\ paid > 0 => Gone(t) # {} \/ Deposited(t)

\* The balances and what is locked, before and after a step.
LEMMA SlackIs ==
  ASSUME HInv, HInv', NEW t \in Token
  PROVE  /\ bank[t][Self] \in Nat /\ bank'[t][Self] \in Nat
         /\ supply[t] \in Int /\ supply'[t] \in Int
         /\ Total(LockedIn(locks, t)) \in Nat /\ Total(LockedIn(locks', t)) \in Nat
         /\ Slack(t) = bank[t][Self] - Total(LockedIn(locks, t))
         /\ Slack(t)' = bank'[t][Self] - Total(LockedIn(locks', t))
<1>1. locks \in Locks /\ locks' \in Locks
  BY DEF HInv
<1>2. Total(LockedIn(locks, t)) \in Nat /\ Total(LockedIn(locks', t)) \in Nat
  BY <1>1, LockedType, CoinsFinite
<1> QED
  BY <1>2, LockedIs, HtlcAssumption DEF HInv, Slack

LEMMA ElsewhereQuiet ==
  ASSUME HInv, HInv', Elsewhere, NEW s \in Token
  PROVE  EscrowAt(s) /\ OutcomeAt(s)
<1>1. locks' = locks /\ supply' = supply /\ (bank'[s][Self] < bank[s][Self] => Deposited(s))
  BY DEF Elsewhere
<1>2. Gone(s) = {}
  BY <1>1 DEF Gone
<1>3. EscrowAt(s)
  BY <1>1, SlackIs DEF EscrowAt
<1>4. OutcomeAt(s)
  BY <1>1, <1>2, SlackIs DEF OutcomeAt
<1> QED
  BY <1>3, <1>4

LEMMA NewContractQuiet ==
  ASSUME HInv, HInv', NEW o \in Senders, NEW n \in Name, NEW to \in Locals \cup Digests,
         NEW t \in Token, NEW v \in Amounts, NEW secret \in Secrets,
         NEW timelock \in 0 .. MaxTime, NEW auth,
         NewContract(o, n, to, t, v, secret, timelock, auth), NEW s \in Token
  PROVE  EscrowAt(s) /\ OutcomeAt(s)
<1>1. /\ o \in Account /\ ~locks[o][n].there
      /\ \A p \in Account, m \in Name : p # o \/ m # n => locks'[p][m] = locks[p][m]
      /\ supply' = supply
      /\ o = Vault => bank' = bank
      /\ o # Vault => bank'[s][Self] = bank[s][Self] + Holds(locks'[o][n], s)
  BY NewContractLocks
<1>2. Gone(s) = {}
  BY <1>1 DEF Gone
<1>3. locks \in Locks /\ locks' \in Locks /\ Holds(locks'[o][n], s) \in Nat
  BY <1>1, HoldsType DEF HInv, Locks
<1>4. /\ o = Vault => Total(LockedIn(locks', s)) = Total(LockedIn(locks, s))
      /\ o # Vault => Total(LockedIn(locks', s)) =
           Total(LockedIn(locks, s)) - Holds(locks[o][n], s) + Holds(locks'[o][n], s)
  BY <1>1, <1>3, LockedUpdate
<1>5. Holds(locks[o][n], s) = 0
  BY <1>1 DEF Holds
<1>6. Slack(s)' = Slack(s) /\ Slack(s) \in Int
  BY <1>1, <1>3, <1>4, <1>5, SlackIs
<1>7. EscrowAt(s)
  BY <1>6 DEF EscrowAt
<1>8. bank'[s][Self] >= bank[s][Self] /\ supply'[s] = supply[s]
  BY <1>1, <1>3, SlackIs
<1>9. OutcomeAt(s)
  BY <1>2, <1>8, SlackIs DEF OutcomeAt
<1> QED
  BY <1>7, <1>9

\* The lock that is gone, and what is locked without it.
LEMMA SettledGone ==
  ASSUME HInv, HInv', NEW o \in Account, NEW n \in Name, Settled(o, n), NEW s \in Token
  PROVE  /\ Gone(s) = IF s = locks[o][n].token THEN {<<o, n>>} ELSE {}
         /\ o = Vault => Total(LockedIn(locks', s)) = Total(LockedIn(locks, s))
         /\ o # Vault => Total(LockedIn(locks', s)) =
              Total(LockedIn(locks, s)) - IF s = locks[o][n].token THEN locks[o][n].value ELSE 0
<1> DEFINE lock == locks[o][n]
<1>1. lock.there /\ locks' = LockSet(locks, o, n, NoLock)
  BY DEF Settled
<1>2. /\ locks \in Locks /\ locks' \in Locks /\ locks'[o][n] = NoLock
      /\ \A p \in Account, m \in Name : p # o \/ m # n => locks'[p][m] = locks[p][m]
  BY <1>1, Tables, LockChanged
<1>3. ~locks'[o][n].there
  BY <1>2, NoLockFacts
<1>4. Gone(s) = IF s = lock.token THEN {<<o, n>>} ELSE {}
  <2>1. ASSUME NEW x \in Account \X Name
        PROVE  x \in Gone(s) <=> x = <<o, n>> /\ s = lock.token
    <3>1. CASE x = <<o, n>>
      BY <1>1, <1>3, <3>1 DEF Gone
    <3>2. CASE x # <<o, n>>
      <4>1. x[1] # o \/ x[2] # n
        BY <3>2
      <4>2. locks'[x[1]][x[2]] = locks[x[1]][x[2]]
        BY <1>2, <4>1
      <4> QED
        BY <3>2, <4>2 DEF Gone
    <3> QED
      BY <3>1, <3>2
  <2>2. Gone(s) \subseteq Account \X Name
    BY DEF Gone
  <2> QED
    BY <2>1, <2>2
<1>5. /\ Holds(lock, s) = IF s = lock.token THEN lock.value ELSE 0
      /\ Holds(locks'[o][n], s) = 0
  BY <1>1, <1>3 DEF Holds
<1>6. /\ o = Vault => Total(LockedIn(locks', s)) = Total(LockedIn(locks, s))
      /\ o # Vault => Total(LockedIn(locks', s)) =
           Total(LockedIn(locks, s)) - Holds(lock, s) + Holds(locks'[o][n], s)
  BY <1>2, LockedUpdate
<1>7. Total(LockedIn(locks, s)) \in Nat /\ Holds(lock, s) \in Nat
  BY <1>2, SlackIs, HoldsType DEF Locks
<1> HIDE DEF lock
<1>8. Total(LockedIn(locks, s)) - Holds(lock, s) + 0 = Total(LockedIn(locks, s)) - Holds(lock, s)
  BY <1>7
<1> QED
  BY <1>4, <1>5, <1>6, <1>8 DEF lock

LEMMA SettledEscrow ==
  ASSUME HInv, HInv', NEW o \in Account, NEW n \in Name, Settled(o, n), NEW s \in Token
  PROVE  EscrowAt(s)
<1> DEFINE lock == locks[o][n]
           t == lock.token
           v == lock.value
<1>1. /\ Gone(s) = IF s = t THEN {<<o, n>>} ELSE {}
      /\ o = Vault => Total(LockedIn(locks', s)) = Total(LockedIn(locks, s))
      /\ o # Vault => Total(LockedIn(locks', s)) =
           Total(LockedIn(locks, s)) - IF s = t THEN v ELSE 0
  BY SettledGone
<1>2. /\ t \in Token /\ v \in Nat
      /\ \A u \in Token \ {t} : bank'[u] = bank[u]
      /\ IssuedBy(o, lock) \/ PaidBy(o, lock) \/ DroppedBy(o, lock)
  BY LockIs DEF Settled
<1>3. CASE s # t
  BY <1>1, <1>2, <1>3, SlackIs DEF EscrowAt
<1>4. CASE s = t /\ IssuedBy(o, lock)
  <2>1. o = Vault /\ bank'[s][Self] >= bank[s][Self]
    BY <1>4 DEF IssuedBy
  <2> QED
    BY <1>1, <2>1, SlackIs DEF EscrowAt
<1>5. CASE s = t /\ DroppedBy(o, lock)
  <2>1. o = Vault /\ bank' = bank
    BY <1>5 DEF DroppedBy
  <2> QED
    BY <1>1, <2>1, SlackIs DEF EscrowAt
<1>6. CASE s = t /\ PaidBy(o, lock)
  <2>1. bank'[s][Self] = bank[s][Self] - v /\ lock.recipient \in Digests
    BY <1>6 DEF PaidBy
  <2>2. CASE o # Vault
    <3>1. Slack(s)' = Slack(s) /\ Slack(s) \in Int
      <4> HIDE DEF v, t
      <4> QED
        BY <1>1, <1>2, <1>6, <2>1, <2>2, SlackIs
    <3> QED
      BY <3>1 DEF EscrowAt
  <2>3. CASE o = Vault
    <3>1. Slack(s)' = Slack(s) - v
      <4> HIDE DEF v, t
      <4> QED
        BY <1>1, <1>2, <1>6, <2>1, <2>3, SlackIs
    <3> DEFINE x == <<o, n>>
    <3>2. x \in Gone(s) /\ x[1] = o /\ x[2] = n
      BY <1>1, <1>6
    <3> HIDE DEF x
    <3> QED
      BY <2>1, <2>3, <3>1, <3>2 DEF EscrowAt
  <2> QED
    BY <2>2, <2>3
<1> QED
  BY <1>2, <1>3, <1>4, <1>5, <1>6

LEMMA SettledOutcome ==
  ASSUME HInv, HInv', NEW o \in Account, NEW n \in Name, Settled(o, n), NEW s \in Token
  PROVE  OutcomeAt(s)
<1> DEFINE lock == locks[o][n]
           t == lock.token
           v == lock.value
<1>1. Gone(s) = IF s = t THEN {<<o, n>>} ELSE {}
  BY SettledGone
<1>2. /\ t \in Token /\ v \in Nat /\ lock.timelock \in Nat /\ now \in Nat
      /\ \A u \in Token \ {t} : bank'[u] = bank[u] /\ supply'[u] = supply[u]
      /\ IssuedBy(o, lock) \/ PaidBy(o, lock) \/ DroppedBy(o, lock)
      /\ bank[s][o] \in Nat
  BY LockIs, Tables DEF Settled
<1>3. CASE s # t
  BY <1>1, <1>2, <1>3, SlackIs DEF OutcomeAt
<1>4. CASE s = t
  <2>1. Gone(s) # {} /\ \A x \in Gone(s) : x[1] = o /\ x[2] = n
    BY <1>1, <1>4
  <2> DEFINE paid == bank[s][Self] - bank'[s][Self]
             issued == supply'[s] - supply[s]
             returned == bank'[s][o] - bank[s][o]
             Right ==
                 IF lock.recipient \in Digests
                 THEN /\ paid = v
                      /\ IF lock.timelock >= now
                         THEN issued = -paid /\ returned = 0
                         ELSE issued = 0 /\ returned = paid
                 ELSE /\ o = Vault /\ paid <= 0
                      /\ issued = IF lock.timelock >= now THEN v ELSE 0
  <2>2. ASSUME IssuedBy(o, lock) PROVE Right
    <3>1. /\ o = Vault /\ lock.recipient \notin Digests /\ lock.timelock >= now
          /\ supply'[s] = supply[s] + v /\ bank'[s][Self] >= bank[s][Self]
      BY <1>4, <2>2, HtlcAssumption DEF IssuedBy
    <3>2. /\ bank[s][Self] \in Nat /\ bank'[s][Self] \in Nat
          /\ supply[s] \in Int /\ supply'[s] \in Int
      BY SlackIs
    <3> HIDE DEF v, t, lock
    <3> QED
      BY <1>2, <3>1, <3>2
  <2>3. ASSUME DroppedBy(o, lock) PROVE Right
    <3>1. /\ o = Vault /\ lock.recipient \notin Digests /\ ~(lock.timelock >= now)
          /\ supply'[s] = supply[s] /\ bank'[s][Self] = bank[s][Self]
      BY <1>2, <2>3, HtlcAssumption DEF DroppedBy
    <3>2. /\ bank[s][Self] \in Nat /\ bank'[s][Self] \in Nat
          /\ supply[s] \in Int /\ supply'[s] \in Int
      BY SlackIs
    <3> HIDE DEF v, t, lock
    <3> QED
      BY <1>2, <3>1, <3>2
  <2>4. ASSUME PaidBy(o, lock) PROVE Right
    <3>1. /\ lock.recipient \in Digests
          /\ bank'[s][Self] = bank[s][Self] - v
          /\ \/ /\ lock.timelock >= now /\ supply'[s] = supply[s] - v
                /\ bank'[s][o] = bank[s][o]
             \/ /\ ~(lock.timelock >= now) /\ supply'[s] = supply[s]
                /\ bank'[s][o] = bank[s][o] + v
      BY <1>2, <1>4, <2>4 DEF PaidBy
    <3>2. /\ bank[s][Self] \in Nat /\ bank'[s][Self] \in Nat
          /\ supply[s] \in Int /\ supply'[s] \in Int
      BY SlackIs
    <3>3. paid = v /\ (lock.timelock >= now => issued = -paid /\ returned = 0)
      <4> HIDE DEF v, t, lock
      <4> QED
        BY <1>2, <3>1, <3>2
    <3>4. ~(lock.timelock >= now) => issued = 0 /\ returned = v
      <4> HIDE DEF v, t, lock
      <4> QED
        BY <1>2, <3>1, <3>2
    <3> HIDE DEF v, t, lock, paid, issued, returned
    <3> QED
      BY <3>1, <3>3, <3>4
  <2>5. Right
    BY <1>2, <2>2, <2>3, <2>4
  <2> QED
    BY <2>1, <2>5 DEF OutcomeAt
<1> QED
  BY <1>3, <1>4

LEMMA NextOutcome ==
  ASSUME HInv, [Next]_vars, NEW s \in Token
  PROVE  EscrowAt(s) /\ OutcomeAt(s)
<1>1. HInv'
  BY NextHInv
<1> QED
  BY <1>1, StepKinds, NewContractQuiet, SettledEscrow, SettledOutcome, ElsewhereQuiet

\* For any names, amounts and times, no lock is paid twice or from what another
\* holds, but by a lock of the vault for the other chain; and beside it only a
\* deposit takes of what is locked.
THEOREM EscrowKept == Spec => Escrow
<1>1. HInv /\ [Next]_vars =>
        [\A t \in Token :
         Slack(t)' < Slack(t) =>
            \/ Deposited(t)
            \/ \E x \in Gone(t) :
                  LET lock == locks[x[1]][x[2]]
                  IN  /\ x[1] = Vault /\ lock.recipient \in Digests
                      /\ Slack(t)' = Slack(t) - lock.value]_vars
  BY NextOutcome DEF EscrowAt
<1> QED
  BY <1>1, Invariance, PTL DEF Spec, Escrow

\* A lock is opened or refunded and never both, on the side of its timelock
\* where each belongs, whoever asks and in whatever order, and nothing is issued
\* or paid but by it.
THEOREM OneOutcomeOnly == Spec => OneOutcome
<1>1. HInv /\ [Next]_vars =>
        [\A t \in Token :
         LET paid == bank[t][Self] - bank'[t][Self]
             issued == supply'[t] - supply[t]
         IN  /\ \A x \in Gone(t) :
                   LET lock == locks[x[1]][x[2]]
                       returned == bank'[t][x[1]] - bank[t][x[1]]
                   IN  IF lock.recipient \in Digests
                       THEN /\ paid = lock.value
                            /\ IF lock.timelock >= now
                               THEN issued = -paid /\ returned = 0
                               ELSE issued = 0 /\ returned = paid
                       ELSE /\ x[1] = Vault /\ paid <= 0
                            /\ issued = IF lock.timelock >= now THEN lock.value ELSE 0
             /\ issued # 0 => Gone(t) # {}
             /\ paid > 0 => Gone(t) # {} \/ Deposited(t)]_vars
  BY NextOutcome DEF OutcomeAt
<1> QED
  BY <1>1, Invariance, PTL DEF Spec, OneOutcome
=============================================================================
