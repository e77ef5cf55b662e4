------------------------------- MODULE Gacha -------------------------------
(***************************************************************************)
(* The gxc.gacha contract: a partner opens a scheme of graded rewards and  *)
(* pays in its budget, issues gachas against committed seeds, and a gacha  *)
(* is drawn when the partner reveals its seed after the owner gave one, or *)
(* by the deferred `resolve` once the partner let the deadline pass.       *)
(*                                                                         *)
(* An action is one contract action executed to its end, with the inline   *)
(* transfers and the inline resolve it sends: a failed check of any of     *)
(* them aborts the whole transaction, so a check is a guard.  Budgets and  *)
(* rewards are in one token, of which `bank` is each account's balance     *)
(* (creators keep an allowance that covers theirs).                        *)
(***************************************************************************)
EXTENDS Totals, Sequences

CONSTANTS
    Scheme,     \* extended names, scheme@contract
    Id,         \* keys of table gacha
    Account,    \* accounts of the chain
    Self,       \* the account of the contract, _self
    Creator,    \* the base account of each scheme's contract
    Partner,    \* partner accounts
    Byte,       \* number of values of a byte
    Uint32      \* number of values of a uint32_t and of a time_point_sec

CONSTANTS       \* the calls explored
    Offers,     \* argument lists of open
    Players,    \* accounts gachas are issued to
    AuthSets,   \* sets of accounts that sign an action
    Scores,     \* scores drawn
    ZeroSeeds,  \* whether an owner gives a seed of zeros
    Funds,      \* the balances at the start
    MaxIssued,  \* bound of the gachas issued under a scheme
    MaxSeeds,   \* bound of a scheme's count of unresolved gachas
    MaxTime     \* bound of the clock, in seconds

None == -1      \* no limit, or a deferred transaction not there

GradeRow == [reward : Nat, score : Nat, limit : Nat \cup {None}]

ASSUME GachaAssumption ==
    /\ IsFiniteSet(Account) /\ IsFiniteSet(Scheme) /\ IsFiniteSet(Id)
    /\ Self \in Account
    /\ Creator \in [Scheme -> Account \ {Self}]
    /\ Partner \subseteq Account
    /\ Players \subseteq Account \ {Self}
    /\ Byte \in Nat \ {0}
    /\ Offers \subseteq [grades : Seq(GradeRow), budget : Nat, precision : Nat,
                        expiration : Nat, deadline_sec : Nat]
    /\ Scores \subseteq Nat /\ ZeroSeeds \subseteq BOOLEAN
    /\ MaxIssued \in Nat /\ MaxSeeds \in Nat /\ MaxTime \in Nat
    /\ Uint32 \in Nat
    /\ Uint32 > MaxTime + 1 /\ Uint32 > MaxIssued /\ Uint32 > MaxSeeds
    /\ Funds \in [Account -> Nat] /\ Funds[Self] = 0

VARIABLES
    scheme,     \* Scheme -> the row of table scheme
    gacha,      \* Id -> the row of table gacha
    bank,       \* Account -> balance
    deferred,   \* when the deferred resolve is due
    now         \* block time

vars == <<scheme, gacha, bank, deferred, now>>

\* mutation: one past the largest time
UnsetPast == Uint32

\* time_point_sec::maximum(), the deadline until the owner gives a seed
Unset == Uint32 - 1

NoScheme == [open |-> FALSE, grades |-> <<>>, budget |-> 0, expiration |-> 0,
             precision |-> 0, deadline_sec |-> 0, out |-> 0, out_count |-> <<>>,
             issued |-> 0, unresolved |-> 0]
NoGacha == [there |-> FALSE]

-----------------------------------------------------------------------------
(* draw: the grade of a score, and what a draw pays.                        *)

\* mutation: limits are not looked at
WinnableUnlimited(row, score) == {g \in 1 .. Len(row.grades) : score >= row.grades[g].score}

\* grades whose score is reached and whose limit is not
Winnable(row, score) ==
    {g \in 1 .. Len(row.grades) :
        /\ score >= row.grades[g].score
        /\ \/ row.grades[g].limit = None
           \/ row.out_count[g] < row.grades[g].limit}

\* mutation: the reward is not taken off the budget
PaidOutFree(row, g, n) ==
    [row EXCEPT !.out_count[g] = @ + n, !.unresolved = (@ - n) % Uint32]

\* n draws of grade g
PaidOut(row, g, n) ==
    [row EXCEPT !.out = @ + n * row.grades[g].reward,
                !.out_count[g] = @ + n,
                !.unresolved = (@ - n) % Uint32]

\* the inline transfer takes positive amounts only, and the budget is checked
CanPay(row, g, n) ==
    /\ row.grades[g].reward > 0
    /\ row.out + n * row.grades[g].reward <= row.budget

-----------------------------------------------------------------------------
(* resolve: every gacha past its deadline is drawn without a score, which   *)
(* is the first grade, whatever its limit; no grade at all is a raincheck.  *)

Due(gch) == {id \in Id : gch[id].there /\ gch[id].deadline <= now}
DueOf(gch, s) == {id \in Due(gch) : gch[id].scheme = s}

Prize(row) == IF row.grades = <<>> THEN 0 ELSE row.grades[1].reward
Prizes(sch, gch, ids) == Total([id \in ids |-> Prize(sch[gch[id].scheme])])

CanResolve(sch, gch, bnk) ==
    /\ \A id \in Due(gch) : LET row == sch[gch[id].scheme] IN
          /\ row.open
          /\ row.grades # <<>> =>
                CanPay(row, 1, Cardinality(DueOf(gch, gch[id].scheme)))
    /\ Prizes(sch, gch, Due(gch)) <= bnk[Self]

\* the state of the table after resolve()
Resolved(sch, gch) ==
    [s \in Scheme |->
        IF DueOf(gch, s) # {} /\ sch[s].grades # <<>>
        THEN PaidOut(sch[s], 1, Cardinality(DueOf(gch, s)))
        ELSE sch[s]]

Awarded(sch, gch, bnk) ==
    [a \in Account |->
        IF a = Self THEN bnk[a] - Prizes(sch, gch, Due(gch))
        ELSE bnk[a] + Prizes(sch, gch, {id \in Due(gch) : gch[id].owner = a})]

Remaining(gch, ids) == [id \in Id |-> IF id \in ids THEN NoGacha ELSE gch[id]]

\* mutation: nothing is scheduled while two gachas are there
HeadTimeLone(gch) ==
    LET there == {id \in Id : gch[id].there}
    IN  IF Cardinality(there) # 1 THEN None
        ELSE gch[CHOOSE id \in there : TRUE].deadline

\* the head of index "deadline", where the gachas without a seed come last
HeadTime(gch) ==
    LET times == {gch[id].deadline : id \in {i \in Id : gch[i].there}}
    IN  IF times = {} THEN None ELSE CHOOSE x \in times : \A y \in times : x <= y

\* refresh_schedule() on the tables given: what is due is resolved inline, and
\* the deferred resolve is set for the first of the remaining deadlines.
RefreshSchedule(sch, gch, bnk) ==
    LET rest == Remaining(gch, Due(gch))
    IN  /\ CanResolve(sch, gch, bnk)
        /\ scheme' = Resolved(sch, gch)
        /\ gacha' = rest
        /\ bank' = Awarded(sch, gch, bnk)
        /\ deferred' = HeadTime(rest)
        /\ UNCHANGED now

-----------------------------------------------------------------------------
(* The actions of the contract.                                             *)

\* open: the grades are sorted by falling score, and the budget is paid in
Open(s, offer, auth) ==
    /\ Creator[s] \in auth /\ Creator[s] \in Partner
    /\ ~scheme[s].open
    /\ \A g \in 2 .. Len(offer.grades) : offer.grades[g].score < offer.grades[g - 1].score
    /\ offer.precision <= 4
    /\ offer.budget > 0 /\ offer.budget <= bank[Creator[s]]
    /\ scheme' = [scheme EXCEPT ![s] =
           [open |-> TRUE, grades |-> offer.grades, budget |-> offer.budget,
            expiration |-> offer.expiration, precision |-> offer.precision,
            deadline_sec |-> offer.deadline_sec, out |-> 0,
            out_count |-> [g \in 1 .. Len(offer.grades) |-> 0],
            issued |-> 0, unresolved |-> 0]]
    /\ bank' = [bank EXCEPT ![Creator[s]] = @ - offer.budget, ![Self] = @ + offer.budget]
    /\ UNCHANGED <<gacha, deferred, now>>

\* mutation: a scheme with gachas to be resolved may go
SettledAnyway(row) == row.expiration < now

\* what close asks of the scheme
Settled(row) == row.expiration < now /\ row.unresolved = 0

\* close: what is left of the budget goes back, by a transfer that takes
\* positive amounts only
Close(s, auth) ==
    LET left == scheme[s].budget - scheme[s].out
    IN  /\ Creator[s] \in auth
        /\ scheme[s].open
        /\ Settled(scheme[s])
        /\ left > 0 /\ left <= bank[Self]
        /\ bank' = [bank EXCEPT ![Self] = @ - left, ![Creator[s]] = @ + left]
        /\ scheme' = [scheme EXCEPT ![s] = NoScheme]
        /\ UNCHANGED <<gacha, deferred, now>>

\* MaxIssued is a bound of the model
Issue(to, s, id, auth) ==
    /\ scheme[s].issued < MaxIssued
    /\ Creator[s] \in auth
    /\ scheme[s].open
    /\ scheme[s].expiration > now
    /\ scheme[s].out <= scheme[s].budget
    /\ ~gacha[id].there
    /\ gacha' = [gacha EXCEPT ![id] =
           [there |-> TRUE, owner |-> to, scheme |-> s, seeded |-> FALSE,
            deadline |-> Unset]]
    /\ scheme' = [scheme EXCEPT ![s].issued = @ + 1]
    /\ UNCHANGED <<bank, deferred, now>>

\* the bounds of the model: a deadline passes before the clock stops, and the
\* seeds given to the gachas of a scheme are few
Horizon(row, at) == at <= MaxTime /\ row.unresolved < MaxSeeds

\* setoseed: a seed of zeros leaves the gacha without one
SetOSeed(id, zero, auth) ==
    LET s == gacha[id].scheme
        at == (now + scheme[s].deadline_sec) % Uint32
    IN  /\ gacha[id].there
        /\ gacha[id].owner \in auth
        /\ ~gacha[id].seeded
        /\ scheme[s].open
        /\ Horizon(scheme[s], at)
        /\ RefreshSchedule([scheme EXCEPT ![s].unresolved = (@ + 1) % Uint32],
                           [gacha EXCEPT ![id].seeded = ~zero, ![id].deadline = at],
                           bank)

\* setdseed: the seed committed to is revealed, and the score drawn from it
\* and the owner's seed has the scheme's number of bytes
SetDSeed(id, score, auth) ==
    LET s == gacha[id].scheme
        row == scheme[s]
        winnable == Winnable(row, score)
        g == CHOOSE x \in winnable : \A y \in winnable : x <= y
        erased == Remaining(gacha, {id})
        reward == row.grades[g].reward
    IN  /\ gacha[id].there
        /\ Creator[s] \in auth \/ Self \in auth
        /\ row.open
        /\ gacha[id].seeded
        /\ score < Byte ^ row.precision
        /\ \/ /\ winnable = {}
              /\ RefreshSchedule(scheme, erased, bank)
           \/ /\ winnable # {}
              /\ CanPay(row, g, 1)
              /\ reward <= bank[Self]
              /\ RefreshSchedule(
                     [scheme EXCEPT ![s] = PaidOut(@, g, 1)],
                     erased,
                     [bank EXCEPT ![Self] = @ - reward,
                                  ![gacha[id].owner] = @ + reward])

Resolve(auth) == Self \in auth /\ RefreshSchedule(scheme, gacha, bank)

-----------------------------------------------------------------------------
(* The chain: the deferred resolve runs, or fails a check and is gone.      *)

Expired == deferred # None /\ deferred <= now

RunDeferred == Expired /\ Resolve({Self})

DropDeferred ==
    /\ Expired
    /\ ~CanResolve(scheme, gacha, bank)
    /\ deferred' = None
    /\ UNCHANGED <<scheme, gacha, bank, now>>

FireDeferred == RunDeferred \/ DropDeferred

Tick ==
    /\ now < MaxTime
    /\ now' = now + 1
    /\ UNCHANGED <<scheme, gacha, bank, deferred>>

-----------------------------------------------------------------------------
Init ==
    /\ scheme = [s \in Scheme |-> NoScheme]
    /\ gacha = [id \in Id |-> NoGacha]
    /\ bank = Funds
    /\ deferred = None
    /\ now = 0

Call(auth) ==
    \/ \E s \in Scheme, offer \in Offers : Open(s, offer, auth)
    \/ \E s \in Scheme : Close(s, auth)
    \/ \E to \in Players, s \in Scheme, id \in Id : Issue(to, s, id, auth)
    \/ \E id \in Id, zero \in ZeroSeeds : SetOSeed(id, zero, auth)
    \/ \E id \in Id, score \in Scores : SetDSeed(id, score, auth)
    \/ Resolve(auth)

Next ==
    \/ \E auth \in AuthSets : Call(auth)
    \/ FireDeferred
    \/ Tick

Spec == Init /\ [][Next]_vars

\* Time passes, and the chain runs the deferred transaction some time after it
\* is due; no account has to call anything.
Fairness == WF_vars(Tick) /\ WF_vars(FireDeferred)

FairSpec == Spec /\ Fairness

-----------------------------------------------------------------------------
(* Properties.                                                              *)

Row(row) ==
    /\ row.open \in BOOLEAN
    /\ row.budget \in Nat /\ row.out \in Nat
    /\ Len(row.out_count) = Len(row.grades)
    /\ \A g \in 1 .. Len(row.grades) : row.out_count[g] \in Nat
    /\ row.issued \in 0 .. Uint32 - 1 /\ row.unresolved \in 0 .. Uint32 - 1

Waiting == [there : {TRUE}, owner : Players, scheme : Scheme, seeded : BOOLEAN,
            deadline : 0 .. Uint32 - 1]

\* The types of the tables, and of the balances the contract moves.
TypeOK ==
    /\ \A s \in Scheme : Row(scheme[s])
    /\ gacha \in [Id -> Waiting \cup {NoGacha}]
    /\ bank \in [Account -> Nat]
    /\ deferred \in Nat \cup {None}
    /\ now \in 0 .. MaxTime

\* What the contract holds is what the open schemes have not paid out yet,
\* scheme by scheme: none of them pays from the budget of another.
Escrow ==
    /\ \A s \in Scheme : scheme[s].out <= scheme[s].budget
    /\ bank[Self] = Total([s \in Scheme |-> scheme[s].budget - scheme[s].out])

\* gachas whose owner has given a seed, or tried to
Pending(s) == {id \in Id : /\ gacha[id].there /\ gacha[id].scheme = s
                           /\ gacha[id].deadline # Unset}

\* No scheme closes over a gacha that waits for its draw, not even one that was
\* issued before the scheme was closed and opened again, and the count that
\* guards this never passes below zero.
PendingCounted ==
    \A s \in Scheme :
        /\ Pending(s) # {} => scheme[s].open
        /\ Cardinality(Pending(s)) <= scheme[s].unresolved

\* A deadline that was set is watched: the deferred resolve is set for it or
\* for an earlier one, or else it has met a gacha that cannot be paid.
AlarmSet ==
    \A s \in Scheme : \A id \in Pending(s) :
        \/ deferred # None /\ deferred <= gacha[id].deadline
        \/ ~CanResolve(scheme, gacha, bank)

Overdue(id) ==
    /\ gacha[id].there
    /\ gacha[id].deadline <= now \/ scheme[gacha[id].scheme].deadline_sec = 0

\* A grade is given beyond its limit only for gachas that the partner let pass
\* their deadline, one for each, and then it is the first grade.
LimitsKept ==
    [][\A s \in Scheme : \A g \in DOMAIN scheme[s].out_count \cap DOMAIN scheme'[s].out_count :
         LET limit == scheme[s].grades[g].limit
             was == scheme[s].out_count[g]
             is == scheme'[s].out_count[g]
             late == {id \in Id : /\ Overdue(id) /\ ~gacha'[id].there
                                  /\ gacha[id].scheme = s}
         IN  limit # None /\ is > limit /\ is # was =>
                /\ g = 1
                /\ is - (IF was > limit THEN was ELSE limit) <= Cardinality(late)]_vars

\* Once its owner has given a seed, a gacha is drawn in the end, whether the
\* partner reveals or not, if from some time on what is due can be paid.
GachasDrawn ==
    <>[]CanResolve(scheme, gacha, bank) =>
        \A id \in Id :
            (gacha[id].there /\ gacha[id].deadline # Unset) ~> ~gacha[id].there

\* A closing is refused because of unresolved gachas ("unresolved gacha
\* remains") when there are some.
RefusedForCause ==
    \A s \in Scheme : scheme[s].open /\ scheme[s].unresolved # 0 => Pending(s) # {}

\* A scheme that is expired and has no unresolved gacha is one that can be
\* closed: these are the two conditions it is refused for.
SettledCloses ==
    \A s \in Scheme : scheme[s].open /\ Settled(scheme[s]) =>
        ENABLED Close(s, {Creator[s]})
=============================================================================
