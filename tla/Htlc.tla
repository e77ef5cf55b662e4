-------------------------------- MODULE Htlc --------------------------------
(***************************************************************************)
(* The gxc.htlc contract: hashed timelock contracts to and from another    *)
(* chain.  An account locks its tokens for a recipient there (a digest);   *)
(* the vault opens the locks of recipients here, whose tokens are issued   *)
(* when the preimage is shown.  Who shows it, and who asks for a refund,   *)
(* does not matter.                                                        *)
(*                                                                         *)
(* An action is one contract action executed to its end, the inline        *)
(* transfer it sends included.  `bank` is the balance of each account, an  *)
(* allowance for the contract included where it pays; deposits are left    *)
(* out, as what the balances lose and gain.  sha256 is taken as injective, *)
(* so that a hashlock stands for its preimage.                             *)
(***************************************************************************)
EXTENDS Totals

CONSTANTS
    Token,          \* extended symbols
    Account,        \* accounts of the chain
    Self,           \* the account of the contract, _self
    Vault,          \* vault_account
    Issuer,         \* the issuer of each token
    Delegates,      \* tokens whose issuer lets the contract issue
    Recallable,     \* tokens that have deposits
    Name            \* contract names, told apart by their hash

CONSTANTS           \* the calls explored
    Senders,        \* accounts that lock tokens; the contract cannot, as
                    \* it would transfer to itself
    Locals,         \* recipients on this chain
    Digests,        \* recipients on the other chain
    Secrets,        \* preimages
    Amounts,        \* amounts locked, and required at least
    AuthSets,       \* sets of accounts that sign an action
    Funds,          \* the balances at the start
    MaxSupply,      \* bound of what may be issued
    MaxTime         \* bound of the clock, in seconds

ASSUME HtlcAssumption ==
    /\ IsFiniteSet(Account) /\ IsFiniteSet(Name)
    /\ {Self, Vault} \subseteq Account /\ Self # Vault
    /\ Issuer \in [Token -> Account] /\ Delegates \cup Recallable \subseteq Token
    /\ Senders \subseteq Account \ {Self} /\ Locals \subseteq Account
    /\ Locals \cap Digests = {}
    /\ Amounts \subseteq Nat
    /\ Funds \in [Account -> Nat] /\ Funds[Self] = 0
    /\ MaxSupply \in Nat /\ MaxTime \in Nat

VARIABLES
    locks,      \* Account -> Name -> the row of table htlc
    config,     \* Token -> the row of table config (rate and fixed are never read)
    supply,     \* Token -> units issued, as far as the contract changes it
    bank,       \* Token -> Account -> balance
    now         \* block time

vars == <<locks, config, supply, bank, now>>

NoLock == [there |-> FALSE]
NoConfig == [min_amount |-> 0, min_duration |-> 0]

\* mutation: a lock may be opened at any time
OpenableLate(lock) == TRUE

\* a preimage is taken up to the second of the timelock, a refund after it
Openable(lock) == lock.timelock >= now
Expired(lock) == lock.timelock < now

\* what everybody but the vault locks is held by the contract
Escrowed(o, t, v) ==
    IF o = Vault THEN bank ELSE [bank EXCEPT ![t][o] = @ - v, ![t][Self] = @ + v]

-----------------------------------------------------------------------------
(* The actions of the contract.                                             *)

NewContract(o, n, to, t, v, secret, timelock, auth) ==
    LET min == IF o # Vault THEN config[t] ELSE NoConfig
    IN  /\ o \in auth
        /\ to \in Digests \/ o = Vault
        /\ ~locks[o][n].there
        /\ v >= min.min_amount
        /\ timelock >= now + min.min_duration
        /\ o # Vault => v > 0 /\ v <= bank[t][o]
        /\ locks' = [locks EXCEPT ![o][n] =
               [there |-> TRUE, recipient |-> to, token |-> t, value |-> v,
                hashlock |-> secret, timelock |-> timelock]]
        /\ bank' = Escrowed(o, t, v)
        /\ UNCHANGED <<config, supply, now>>

\* what is issued of a token that has deposits is a deposit
Received(t, a, v) ==
    IF t \in Recallable /\ a # Issuer[t] THEN bank ELSE [bank EXCEPT ![t][a] = @ + v]

\* a recipient here is issued the value, by the issuer's leave; otherwise what
\* the contract holds is retired, and the vault has locked nothing there
Withdraw(o, n, secret) ==
    LET lock == locks[o][n]
        t == lock.token
    IN  /\ lock.there
        /\ Openable(lock)
        /\ secret = lock.hashlock
        /\ lock.value > 0
        /\ \/ /\ lock.recipient \in Locals
              /\ o = Vault
              /\ t \in Delegates
              /\ supply[t] + lock.value <= MaxSupply
              /\ supply' = [supply EXCEPT ![t] = @ + lock.value]
              /\ bank' = Received(t, lock.recipient, lock.value)
           \/ /\ lock.recipient \in Digests
              /\ lock.value <= bank[t][Self]
              /\ supply' = [supply EXCEPT ![t] = @ - lock.value]
              /\ bank' = [bank EXCEPT ![t][Self] = @ - lock.value]
        /\ locks' = [locks EXCEPT ![o][n] = NoLock]
        /\ UNCHANGED <<config, now>>

\* mutation: a refund leaves the lock
RefundedStays(o, n) == locks

Refunded(o, n) == [locks EXCEPT ![o][n] = NoLock]

Refund(o, n) ==
    LET lock == locks[o][n]
        t == lock.token
    IN  /\ lock.there
        /\ Expired(lock)
        /\ \/ /\ lock.recipient \in Locals
              /\ o = Vault
              /\ UNCHANGED bank
           \/ /\ lock.recipient \in Digests
              /\ lock.value > 0 /\ lock.value <= bank[t][Self]
              /\ bank' = [bank EXCEPT ![t][Self] = @ - lock.value, ![t][o] = @ + lock.value]
        /\ locks' = Refunded(o, n)
        /\ UNCHANGED <<config, supply, now>>

SetConfig(t, amount, duration, auth) ==
    /\ Issuer[t] \in auth
    /\ config' = [config EXCEPT ![t] = [min_amount |-> amount, min_duration |-> duration]]
    /\ UNCHANGED <<locks, supply, bank, now>>

-----------------------------------------------------------------------------
(* The token contract and the chain.                                        *)

\* the contract itself signs none
Transfer(t, from, to, v, auth) ==
    /\ from \in auth \ {Self}
    /\ from # to
    /\ v > 0 /\ v <= bank[t][from]
    /\ bank' = [bank EXCEPT ![t][from] = @ - v, ![t][to] = @ + v]
    /\ UNCHANGED <<locks, config, supply, now>>

\* no signature is asked for, not even the contract's
Deposit(t, a, v) ==
    /\ t \in Recallable
    /\ v > 0 /\ v <= bank[t][a]
    /\ bank' = [bank EXCEPT ![t][a] = @ - v]
    /\ UNCHANGED <<locks, config, supply, now>>

\* a deposit comes back, to an account that asks for it; the contract does not.
\* What is not in a balance is in a deposit.
Undeposit(t, a, v) ==
    /\ t \in Recallable /\ a # Self
    /\ v > 0 /\ Total(bank[t]) + v <= supply[t]
    /\ bank' = [bank EXCEPT ![t][a] = @ + v]
    /\ UNCHANGED <<locks, config, supply, now>>

Tick ==
    /\ now < MaxTime
    /\ now' = now + 1
    /\ UNCHANGED <<locks, config, supply, bank>>

-----------------------------------------------------------------------------
Init ==
    /\ locks = [o \in Account |-> [n \in Name |-> NoLock]]
    /\ config = [t \in Token |-> NoConfig]
    /\ supply = [t \in Token |-> Total(Funds)]
    /\ bank = [t \in Token |-> Funds]
    /\ now = 0

Next ==
    \/ \E auth \in AuthSets, t \in Token, v \in Amounts :
          \/ \E timelock \in 0 .. MaxTime :
                \/ \E o \in Senders, n \in Name, to \in Locals \cup Digests, secret \in Secrets :
                      NewContract(o, n, to, t, v, secret, timelock, auth)
                \/ SetConfig(t, v, timelock, auth)
          \/ \E from, to \in Account : Transfer(t, from, to, v, auth)
    \/ \E t \in Token, a \in Account, v \in Amounts : Deposit(t, a, v) \/ Undeposit(t, a, v)
    \/ \E o \in Senders, n \in Name :
          \/ \E secret \in Secrets : Withdraw(o, n, secret)
          \/ Refund(o, n)
    \/ Tick

Spec == Init /\ [][Next]_vars

-----------------------------------------------------------------------------
(* Properties.                                                              *)

\* The locks of everybody but the vault, as the amounts they hold of a token.
Locked(t) ==
    [x \in (Account \ {Vault}) \X Name |->
        LET lock == locks[x[1]][x[2]]
        IN  IF lock.there /\ lock.token = t THEN lock.value ELSE 0]

\* What the contract holds of a token beyond what is locked in it.
Slack(t) == bank[t][Self] - Total(Locked(t))

\* The locks that a step opens or refunds.
Gone(t) ==
    {x \in Account \X Name : /\ locks[x[1]][x[2]].there /\ locks[x[1]][x[2]].token = t
                             /\ ~locks'[x[1]][x[2]].there}

\* A part of what the contract holds becomes its deposit, and nobody is paid.
Deposited(t) ==
    /\ t \in Recallable
    /\ UNCHANGED <<locks, supply>>
    /\ \A a \in Account \ {Self} : bank'[t][a] = bank[t][a]

\* What is locked is there: an opened or refunded lock is gone, so that it is
\* paid once and not from another's value.  Two things do use what others
\* locked: a lock of the vault for the other chain, for which nothing was put
\* in, takes its value, and anybody may deposit what the contract holds of a
\* token that has deposits.
Escrow ==
    [][\A t \in Token :
         Slack(t)' < Slack(t) =>
            \/ Deposited(t)
            \/ \E x \in Gone(t) :
                  LET lock == locks[x[1]][x[2]]
                  IN  /\ x[1] = Vault /\ lock.recipient \in Digests
                      /\ Slack(t)' = Slack(t) - lock.value]_vars

\* A lock has one outcome, on its side of the timelock, and nothing else is
\* issued or paid: for a recipient here its value is issued, to the second of
\* the timelock; for one on the other chain it is retired, to that second, or
\* goes back to who locked it, after.  A lock is gone with its outcome.
OneOutcome ==
    [][\A t \in Token :
         LET paid == bank[t][Self] - bank'[t][Self]
             issued == supply'[t] - supply[t]
         IN  /\ \A x \in Gone(t) :
                   LET lock == locks[x[1]][x[2]]
                       returned == bank'[t][x[1]] - bank[t][x[1]]
                   IN  IF lock.recipient \in Digests
                       THEN /\ paid = lock.value
                            /\ IF lock.timelock >= now
                               THEN issued = -paid /\ returned = 0
                               ELSE issued = 0 /\ returned = paid
                       ELSE /\ x[1] = Vault /\ paid <= 0
                            /\ issued = IF lock.timelock >= now THEN lock.value ELSE 0
             /\ issued # 0 => Gone(t) # {}
             /\ paid > 0 => Gone(t) # {} \/ Deposited(t)]_vars
=============================================================================
