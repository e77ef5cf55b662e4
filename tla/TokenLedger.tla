---------------------------- MODULE TokenLedger ----------------------------
(***************************************************************************)
(* What gxc.token promises of each token: a supply within its maximum, all *)
(* of it somebody's wealth, which only an issue, a retirement, a burn or a *)
(* move of one account's wealth to another changes.  Whether the wealth is *)
(* spendable, deposited or on its way out of the deposit is not seen here. *)
(* Nobody spends more than is his, but the custodian, who may spend what it *)
(* holds for others and owes it then.                                      *)
(***************************************************************************)
EXTENDS Integers

CONSTANTS
    Token, Owner,
    Custodian,  \* the account that holds what is on its way to others
    Amounts,    \* the positive amounts that move
    MaxAmount   \* a bound of each supply

VARIABLES
    supply,     \* Token -> units issued
    ceiling,    \* Token -> units that may be issued
    wealth      \* Token -> Owner -> units

vars == <<supply, ceiling, wealth>>

Init ==
    /\ supply = [t \in Token |-> 0]
    /\ ceiling = [t \in Token |-> 0]
    /\ wealth = [t \in Token |-> [o \in Owner |-> 0]]

MaySpend(t, o, n) == o = Custodian \/ wealth[t][o] >= n

Mint(t, n) ==
    /\ ceiling[t] + n <= MaxAmount
    /\ ceiling' = [ceiling EXCEPT ![t] = @ + n]
    /\ UNCHANGED <<supply, wealth>>

Issue(t, to, n) ==
    /\ supply[t] + n <= ceiling[t]
    /\ supply' = [supply EXCEPT ![t] = @ + n]
    /\ wealth' = [wealth EXCEPT ![t][to] = @ + n]
    /\ UNCHANGED ceiling

\* a retired unit may be issued again, a burned one may not
Retire(t, from, n) ==
    /\ MaySpend(t, from, n)
    /\ supply' = [supply EXCEPT ![t] = @ - n]
    /\ wealth' = [wealth EXCEPT ![t][from] = @ - n]
    /\ UNCHANGED ceiling

Burn(t, from, n) ==
    /\ MaySpend(t, from, n)
    /\ supply' = [supply EXCEPT ![t] = @ - n]
    /\ ceiling' = [ceiling EXCEPT ![t] = @ - n]
    /\ wealth' = [wealth EXCEPT ![t][from] = @ - n]

Move(t, from, to, n) ==
    /\ from # to
    /\ MaySpend(t, from, n)
    /\ wealth' = [wealth EXCEPT ![t][from] = @ - n, ![t][to] = @ + n]
    /\ UNCHANGED <<supply, ceiling>>

Next ==
    \E t \in Token, n \in Amounts :
        \/ Mint(t, n)
        \/ \E o \in Owner : Issue(t, o, n) \/ Retire(t, o, n) \/ Burn(t, o, n)
        \/ \E from, to \in Owner : Move(t, from, to, n)

Spec == Init /\ [][Next]_vars
=============================================================================
