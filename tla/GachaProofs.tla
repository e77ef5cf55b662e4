---------------------------- MODULE GachaProofs -----------------------------
(***************************************************************************)
(* Theorems of Gacha: the forms of its tables, that no scheme closes over  *)
(* a gacha that waits for its draw, that the contract holds what the open  *)
(* schemes have left of their budgets, that its deferred transaction is set*)
(* while a draw is pending, and that no grade is drawn beyond its limit.   *)
(*                                                                         *)
(* `refresh_schedule` resolves what is due on the tables a handler leaves, *)
(* so that what holds of the tables is stated of any tables, and kept by   *)
(* the handler's own changes and by the resolution separately.             *)
(***************************************************************************)
EXTENDS Gacha, TotalsProofs, SequenceTheorems

SchemeRow ==
    [open : BOOLEAN, grades : Seq(GradeRow), budget : Nat, expiration : Nat,
     precision : Nat, deadline_sec : Nat, out : Nat, out_count : Seq(Nat),
     issued : 0 .. Uint32 - 1, unresolved : 0 .. Uint32 - 1]

Form(row) == row \in SchemeRow /\ Len(row.out_count) = Len(row.grades)

Sheet == {sch \in [Scheme -> SchemeRow] : \A s \in Scheme : Form(sch[s])}

Queue ==
    {gch \in [Id -> Waiting \cup {NoGacha}] :
        \A id \in Id : gch[id].there /\ gch[id].seeded => gch[id].deadline # Unset}

PendingIn(gch, s) ==
    {id \in Id : gch[id].there /\ gch[id].scheme = s /\ gch[id].deadline # Unset}

CountedIn(row, gch, s) ==
    /\ PendingIn(gch, s) # {} => row.open
    /\ Cardinality(PendingIn(gch, s)) <= row.unresolved

Counted(sch, gch) == \A s \in Scheme : CountedIn(sch[s], gch, s)

Left(sch) == [s \in Scheme |-> sch[s].budget - sch[s].out]

\* Nothing is left in the row of a scheme that is not open.
Escrowed(sch, bnk) ==
    /\ \A s \in Scheme : /\ sch[s].out <= sch[s].budget
                         /\ ~sch[s].open => sch[s].budget = sch[s].out
    /\ bnk[Self] = Total(Left(sch))

Tables(sch, gch, bnk) ==
    /\ sch \in Sheet /\ gch \in Queue /\ bnk \in [Account -> Nat]
    /\ Counted(sch, gch) /\ Escrowed(sch, bnk)

GInv ==
    /\ Tables(scheme, gacha, bank)
    /\ deferred \in Nat \cup {None}
    /\ now \in 0 .. MaxTime

-----------------------------------------------------------------------------
(* Helpers.                                                                 *)

LEMMA Facts ==
  /\ NoGacha.there = FALSE
  /\ Uint32 \in Nat /\ MaxTime \in Nat /\ MaxSeeds \in Nat /\ MaxIssued \in Nat
  /\ Uint32 > MaxTime + 1 /\ Uint32 > MaxIssued /\ Uint32 > MaxSeeds
  /\ Unset \in 0 .. Uint32 - 1 /\ Unset > MaxTime
  /\ IsFiniteSet(Id) /\ IsFiniteSet(Account) /\ IsFiniteSet(Scheme)
  BY GachaAssumption DEF NoGacha, Unset

LEMMA WaitingFields ==
  ASSUME NEW gch \in Queue, NEW id \in Id, gch[id].there
  PROVE  /\ gch[id] \in Waiting /\ gch[id].owner \in Players /\ gch[id].scheme \in Scheme
         /\ gch[id].deadline \in Nat /\ gch[id].seeded \in BOOLEAN
         /\ gch[id].deadline \in 0 .. Uint32 - 1
<1>1. gch[id] \in Waiting \cup {NoGacha}
  BY DEF Queue
<1>2. gch[id] \in Waiting
  BY <1>1, Facts
<1>3. /\ gch[id].owner \in Players /\ gch[id].scheme \in Scheme /\ gch[id].seeded \in BOOLEAN
      /\ gch[id].deadline \in 0 .. Uint32 - 1
  BY <1>2 DEF Waiting
<1>4. gch[id].deadline \in Nat
  BY <1>3, Facts
<1> QED
  BY <1>2, <1>3, <1>4

LEMMA Subsets ==
  ASSUME NEW S \in SUBSET Id
  PROVE  IsFiniteSet(S) /\ Cardinality(S) \in Nat
  BY Facts, FS_Subset, FS_CardinalityType

\* Fewer pending gachas are still counted.
LEMMA FewerPending ==
  ASSUME NEW s, NEW gch, NEW new, PendingIn(new, s) \subseteq PendingIn(gch, s)
  PROVE  /\ Cardinality(PendingIn(new, s)) \in Nat /\ Cardinality(PendingIn(gch, s)) \in Nat
         /\ Cardinality(PendingIn(new, s)) <= Cardinality(PendingIn(gch, s))
<1> DEFINE A == PendingIn(gch, s)
           B == PendingIn(new, s)
<1>1. A \in SUBSET Id /\ B \in SUBSET Id
  BY DEF PendingIn
<1> HIDE DEF A, B
<1>2. IsFiniteSet(A) /\ Cardinality(A) \in Nat /\ Cardinality(B) \in Nat
  BY <1>1, Subsets
<1>3. B \in SUBSET A
  BY DEF A, B
<1>4. Cardinality(B) <= Cardinality(A)
  BY <1>2, <1>3, FS_Subset
<1> QED
  BY <1>2, <1>4 DEF A, B

\* What is taken out of the pending gachas.
LEMMA PendingTaken ==
  ASSUME NEW s, NEW gch, NEW new, NEW D \in SUBSET PendingIn(gch, s),
         PendingIn(new, s) = PendingIn(gch, s) \ D
  PROVE  /\ Cardinality(D) \in Nat /\ Cardinality(PendingIn(gch, s)) \in Nat
         /\ Cardinality(D) <= Cardinality(PendingIn(gch, s))
         /\ Cardinality(PendingIn(new, s)) = Cardinality(PendingIn(gch, s)) - Cardinality(D)
<1> DEFINE A == PendingIn(gch, s)
<1>1. A \in SUBSET Id /\ D \in SUBSET Id
  BY DEF PendingIn
<1> HIDE DEF A
<1>2. IsFiniteSet(A) /\ Cardinality(A) \in Nat /\ IsFiniteSet(D) /\ Cardinality(D) \in Nat
  BY <1>1, Subsets
<1>3. D \in SUBSET A
  BY DEF A
<1>4. Cardinality(D) <= Cardinality(A)
  BY <1>2, <1>3, FS_Subset
<1>5. A \cap D = D
  BY <1>3
<1>6. Cardinality(A \ D) = Cardinality(A) - Cardinality(A \cap D)
  BY <1>2, FS_Difference
<1> QED
  BY <1>2, <1>4, <1>5, <1>6 DEF A

LEMMA PendingMore ==
  ASSUME NEW s, NEW gch, NEW new, NEW id \in Id,
         PendingIn(new, s) \subseteq PendingIn(gch, s) \cup {id}
  PROVE  /\ Cardinality(PendingIn(new, s)) \in Nat /\ Cardinality(PendingIn(gch, s)) \in Nat
         /\ Cardinality(PendingIn(new, s)) <= Cardinality(PendingIn(gch, s)) + 1
<1> DEFINE A == PendingIn(gch, s)
           B == PendingIn(new, s)
<1>1. A \in SUBSET Id /\ B \in SUBSET Id
  BY DEF PendingIn
<1> HIDE DEF A, B
<1>2. IsFiniteSet(A) /\ Cardinality(A) \in Nat /\ Cardinality(B) \in Nat
  BY <1>1, Subsets
<1>3. B \in SUBSET (A \cup {id})
  BY DEF A, B
<1>4. /\ IsFiniteSet(A \cup {id})
      /\ Cardinality(A \cup {id}) = Cardinality(A) \/ Cardinality(A \cup {id}) = Cardinality(A) + 1
  BY <1>2, FS_AddElement
<1>5. Cardinality(B) <= Cardinality(A \cup {id})
  BY <1>3, <1>4, FS_Subset
<1> QED
  BY <1>2, <1>4, <1>5 DEF A, B

\* What a reading of the tables gives of a scheme.
LEMMA RowFields ==
  ASSUME NEW sch \in Sheet, NEW gch, Counted(sch, gch), NEW s \in Scheme
  PROVE  /\ Form(sch[s]) /\ sch[s] \in SchemeRow
         /\ sch[s].unresolved \in 0 .. Uint32 - 1 /\ sch[s].issued \in 0 .. Uint32 - 1
         /\ sch[s].deadline_sec \in Nat /\ sch[s].budget \in Nat /\ sch[s].out \in Nat
         /\ sch[s].grades \in Seq(GradeRow) /\ sch[s].unresolved \in Nat
         /\ CountedIn(sch[s], gch, s)
<1>1. Form(sch[s]) /\ sch[s] \in SchemeRow /\ CountedIn(sch[s], gch, s)
  BY DEF Sheet, Counted
<1>2. /\ sch[s].unresolved \in 0 .. Uint32 - 1 /\ sch[s].issued \in 0 .. Uint32 - 1
      /\ sch[s].deadline_sec \in Nat /\ sch[s].budget \in Nat /\ sch[s].out \in Nat
      /\ sch[s].grades \in Seq(GradeRow)
  BY <1>1 DEF SchemeRow
<1>3. sch[s].unresolved \in Nat
  BY <1>2, Facts
<1> QED
  BY <1>1, <1>2, <1>3

\* A transfer between the contract and an account.
LEMMA Moved ==
  ASSUME NEW bnk \in [Account -> Nat], NEW a \in Account, NEW b \in Account, a # b,
         NEW n \in Nat, n <= bnk[a]
  PROVE  [bnk EXCEPT ![a] = @ - n, ![b] = @ + n] \in [Account -> Nat]
<1>1. bnk[a] - n \in Nat /\ bnk[b] + n \in Nat
  OBVIOUS
<1>2. [bnk EXCEPT ![a] = bnk[a] - n] \in [Account -> Nat]
  BY <1>1
<1>3. [bnk EXCEPT ![a] = bnk[a] - n][b] = bnk[b]
  OBVIOUS
<1> QED
  BY <1>1, <1>2, <1>3

\* The balances after a transfer.
LEMMA MovedFields ==
  ASSUME NEW bnk \in [Account -> Nat], NEW a \in Account, NEW b \in Account, a # b, NEW n
  PROVE  /\ [bnk EXCEPT ![a] = @ - n, ![b] = @ + n][a] = bnk[a] - n
         /\ [bnk EXCEPT ![a] = @ - n, ![b] = @ + n][b] = bnk[b] + n
  OBVIOUS

-----------------------------------------------------------------------------
(* Rows of schemes.                                                         *)

\* The last n of the unresolved are counted off.
LEMMA Lessened ==
  ASSUME NEW a \in 0 .. Uint32 - 1, NEW n \in Nat, n <= a
  PROVE  (a - n) % Uint32 = a - n /\ a - n \in 0 .. Uint32 - 1
<1>1. a - n \in Nat /\ a - n < Uint32 /\ Uint32 \in Nat
  BY Facts
<1>2. \A x \in Nat, w \in Nat : x < w => x % w = x
  BY SMT
<1> QED
  BY <1>1, <1>2

LEMMA PaidOutForm ==
  ASSUME NEW row, Form(row), NEW g \in 1 .. Len(row.grades), NEW n \in Nat,
         n <= row.unresolved
  PROVE  /\ Form(PaidOut(row, g, n)) /\ PaidOut(row, g, n).open = row.open
         /\ PaidOut(row, g, n).unresolved = row.unresolved - n
<1> DEFINE reward == row.grades[g].reward
           paid == row.out + n * reward
           counts == [row.out_count EXCEPT ![g] = @ + n]
           left == (row.unresolved - n) % Uint32
           one == [row EXCEPT !.out = paid]
           two == [one EXCEPT !.out_count = counts]
           three == [two EXCEPT !.unresolved = left]
<1>1. row \in SchemeRow /\ row.grades \in Seq(GradeRow) /\ row.out_count \in Seq(Nat)
      /\ row.out \in Nat /\ row.unresolved \in 0 .. Uint32 - 1
      /\ Len(row.out_count) = Len(row.grades)
  BY DEF Form, SchemeRow
<1>2. paid \in Nat
  <2>1. row.grades[g] \in GradeRow
    BY <1>1, ElementOfSeq
  <2>2. reward \in Nat
    BY <2>1 DEF GradeRow
  <2> HIDE DEF reward
  <2>3. n * reward \in Nat
    BY <2>2
  <2> QED
    BY <1>1, <2>3
<1>3. counts \in Seq(Nat) /\ Len(counts) = Len(row.out_count)
  <2>1. row.out_count[g] \in Nat
    BY <1>1, ElementOfSeq
  <2>2. row.out_count[g] + n \in Nat
    BY <2>1
  <2> QED
    BY <1>1, <2>2, ExceptSeq
<1>4. left = row.unresolved - n /\ left \in 0 .. Uint32 - 1
  BY <1>1, Lessened
<1>5. PaidOut(row, g, n) = three
  BY <1>1 DEF PaidOut, SchemeRow
<1> HIDE DEF paid, counts, left
<1>6. one \in SchemeRow /\ one.open = row.open /\ one.grades = row.grades
  BY <1>1, <1>2 DEF SchemeRow
<1> HIDE DEF one
<1>7. two \in SchemeRow /\ two.open = row.open /\ two.grades = row.grades /\ two.out_count = counts
  BY <1>3, <1>6 DEF SchemeRow
<1> HIDE DEF two
<1>8. /\ three \in SchemeRow /\ three.open = row.open /\ three.grades = row.grades
      /\ three.out_count = counts /\ three.unresolved = left
  BY <1>4, <1>7 DEF SchemeRow
<1> HIDE DEF three
<1> QED
  BY <1>1, <1>3, <1>4, <1>5, <1>8 DEF Form

\* What a draw takes off a row.
LEMMA PaidOutLeft ==
  ASSUME NEW row \in SchemeRow, NEW g, NEW n
  PROVE  /\ PaidOut(row, g, n).budget = row.budget /\ PaidOut(row, g, n).open = row.open
         /\ PaidOut(row, g, n).out = row.out + n * row.grades[g].reward
  BY DEF PaidOut, SchemeRow

LEMMA PrizeType ==
  ASSUME NEW row \in SchemeRow
  PROVE  Prize(row) \in Nat
<1>1. row.grades \in Seq(GradeRow)
  BY DEF SchemeRow
<1>2. CASE row.grades = <<>>
  BY <1>2 DEF Prize
<1>3. CASE row.grades # <<>>
  <2>1. Len(row.grades) \in Nat /\ Len(row.grades) # 0
    BY <1>1, <1>3, LenProperties, EmptySeq
  <2>2. row.grades[1] \in GradeRow
    BY <1>1, <2>1, ElementOfSeq
  <2>3. row.grades[1].reward \in Nat
    BY <2>2 DEF GradeRow
  <2> QED
    BY <1>3, <2>3 DEF Prize
<1> QED
  BY <1>2, <1>3

\* The row that open writes.
LEMMA OpenRow ==
  ASSUME NEW offer \in Offers
  PROVE  Form([open |-> TRUE, grades |-> offer.grades, budget |-> offer.budget,
               expiration |-> offer.expiration, precision |-> offer.precision,
               deadline_sec |-> offer.deadline_sec, out |-> 0,
               out_count |-> [g \in 1 .. Len(offer.grades) |-> 0],
               issued |-> 0, unresolved |-> 0])
<1> DEFINE zeros == [g \in 1 .. Len(offer.grades) |-> 0]
<1>1. /\ offer.grades \in Seq(GradeRow) /\ offer.budget \in Nat /\ offer.precision \in Nat
      /\ offer.expiration \in Nat /\ offer.deadline_sec \in Nat
  BY GachaAssumption
<1>2. zeros \in Seq(Nat) /\ Len(zeros) = Len(offer.grades)
  <2>1. Len(offer.grades) \in Nat
    BY <1>1, LenProperties
  <2>2. zeros \in [1 .. Len(offer.grades) -> Nat]
    OBVIOUS
  <2> HIDE DEF zeros
  <2> QED
    BY <2>1, <2>2, SeqDef, LenProperties
<1> HIDE DEF zeros
<1> QED
  BY <1>1, <1>2, Facts DEF Form, SchemeRow, zeros

LEMMA NoSchemeForm == Form(NoScheme)
<1>1. <<>> \in Seq(GradeRow) /\ <<>> \in Seq(Nat)
  OBVIOUS
<1> QED
  BY <1>1, Facts DEF Form, SchemeRow, NoScheme

\* Nothing pending is counted by any row.
LEMMA NonePending ==
  ASSUME NEW row, Form(row), NEW gch, NEW s, PendingIn(gch, s) = {}
  PROVE  CountedIn(row, gch, s)
<1>1. Cardinality(PendingIn(gch, s)) = 0
  BY FS_EmptySet
<1>2. row.unresolved \in Nat
  BY Facts DEF Form, SchemeRow
<1> QED
  BY <1>1, <1>2 DEF CountedIn

\* One row of the scheme table changes, and no other scheme has more pending.
LEMMA SchemeUpdate ==
  ASSUME NEW sch \in Sheet, NEW gch, NEW new, Counted(sch, gch),
         NEW s \in Scheme, NEW row, Form(row), CountedIn(row, new, s),
         \A x \in Scheme \ {s} : PendingIn(new, x) \subseteq PendingIn(gch, x)
  PROVE  [sch EXCEPT ![s] = row] \in Sheet /\ Counted([sch EXCEPT ![s] = row], new)
<1> DEFINE to == [sch EXCEPT ![s] = row]
<1>1. to[s] = row /\ \A x \in Scheme \ {s} : to[x] = sch[x]
  BY DEF Sheet
<1>2. to \in [Scheme -> SchemeRow]
  BY DEF Sheet, Form
<1> HIDE DEF to
<1>3. to \in Sheet
  BY <1>1, <1>2 DEF Sheet
<1>4. ASSUME NEW x \in Scheme
      PROVE  CountedIn(to[x], new, x)
  <2>1. CASE x = s
    BY <1>1, <2>1
  <2>2. CASE x # s
    <3>1. to[x] = sch[x] /\ PendingIn(new, x) \subseteq PendingIn(gch, x)
      BY <1>1, <2>2
    <3>2. /\ Cardinality(PendingIn(new, x)) \in Nat /\ Cardinality(PendingIn(gch, x)) \in Nat
          /\ Cardinality(PendingIn(new, x)) <= Cardinality(PendingIn(gch, x))
      BY <3>1, FewerPending
    <3>3. /\ PendingIn(gch, x) # {} => sch[x].open
          /\ Cardinality(PendingIn(gch, x)) <= sch[x].unresolved
          /\ sch[x].unresolved \in Nat
      BY RowFields DEF CountedIn
    <3> QED
      BY <3>1, <3>2, <3>3 DEF CountedIn
  <2> QED
    BY <2>1, <2>2
<1> QED
  BY <1>3, <1>4 DEF to, Counted

-----------------------------------------------------------------------------
(* The escrow.                                                              *)

LEMMA LeftType ==
  ASSUME NEW sch \in Sheet, \A s \in Scheme : sch[s].out <= sch[s].budget
  PROVE  Left(sch) \in [Scheme -> Nat] /\ Total(Left(sch)) \in Nat
<1>1. \A s \in Scheme : sch[s].budget - sch[s].out \in Nat
  <2> TAKE s \in Scheme
  <2>1. sch[s].budget \in Nat /\ sch[s].out \in Nat
    BY DEF Sheet, SchemeRow
  <2> QED
    BY <2>1
<1>2. Left(sch) \in [Scheme -> Nat]
  BY <1>1 DEF Left
<1> QED
  BY <1>2, Facts, CoinsFinite

\* What the row of one scheme gains, the contract holds.
LEMMA EscrowUpdate ==
  ASSUME NEW sch \in Sheet, NEW bnk \in [Account -> Nat], Escrowed(sch, bnk),
         NEW s \in Scheme, NEW row, Form(row), row.out <= row.budget,
         ~row.open => row.budget = row.out,
         NEW new,
         new[Self] = bnk[Self] - (sch[s].budget - sch[s].out) + (row.budget - row.out)
  PROVE  Escrowed([sch EXCEPT ![s] = row], new)
<1> DEFINE to == [sch EXCEPT ![s] = row]
<1>1. to[s] = row /\ \A x \in Scheme \ {s} : to[x] = sch[x]
  BY DEF Sheet
<1>2. to \in [Scheme -> SchemeRow]
  BY DEF Sheet, Form
<1> HIDE DEF to
<1>3. to \in Sheet /\ \A x \in Scheme : /\ to[x].out <= to[x].budget
                                        /\ ~to[x].open => to[x].budget = to[x].out
  BY <1>1, <1>2 DEF Sheet, Escrowed
<1>4. /\ Left(sch) \in [Scheme -> Nat] /\ Total(Left(sch)) \in Nat
      /\ Left(to) \in [Scheme -> Nat]
  BY <1>3, LeftType DEF Escrowed
<1>5. \A x \in Scheme \ {s} : Left(to)[x] = Left(sch)[x]
  BY <1>1 DEF Left
<1>6. Total(Left(to)) = Total(Left(sch)) - Left(sch)[s] + Left(to)[s]
  <2> DEFINE f == Left(sch)
             g == Left(to)
  <2>1. f \in [Scheme -> Nat] /\ g \in [Scheme -> Nat] /\ \A x \in Scheme \ {s} : g[x] = f[x]
    BY <1>4, <1>5
  <2> HIDE DEF f, g
  <2>2. Total(g) = Total(f) - f[s] + g[s]
    BY <2>1, Facts, TotalUpdate
  <2> QED
    BY <2>2 DEF f, g
<1>7. Left(sch)[s] = sch[s].budget - sch[s].out /\ Left(to)[s] = row.budget - row.out
  BY <1>1 DEF Left
<1>8. new[Self] = Total(Left(to))
  BY <1>6, <1>7 DEF Escrowed
<1> QED
  BY <1>3, <1>8 DEF Escrowed, to

\* A count of the row changes, and no balance.
LEMMA CountEscrow ==
  ASSUME NEW sch \in Sheet, NEW bnk \in [Account -> Nat], Escrowed(sch, bnk),
         NEW s \in Scheme, NEW row, Form(row),
         row.budget = sch[s].budget, row.out = sch[s].out, row.open = sch[s].open
  PROVE  Escrowed([sch EXCEPT ![s] = row], bnk)
<1>1. sch[s].budget \in Nat /\ sch[s].out \in Nat
  BY DEF Sheet, SchemeRow
<1>2. bnk[Self] \in Nat
  BY GachaAssumption
<1>3. bnk[Self] = bnk[Self] - (sch[s].budget - sch[s].out) + (row.budget - row.out)
  BY <1>1, <1>2
<1>4. row.out <= row.budget /\ (~row.open => row.budget = row.out)
  BY DEF Escrowed
<1> QED
  BY <1>3, <1>4, EscrowUpdate

-----------------------------------------------------------------------------
(* resolve().                                                               *)

\* What is due had a seed.
LEMMA DueIsPending ==
  ASSUME NEW gch \in Queue, NEW s \in Scheme, now \in 0 .. MaxTime
  PROVE  /\ DueOf(gch, s) \in SUBSET PendingIn(gch, s)
         /\ Cardinality(DueOf(gch, s)) \in Nat
<1>1. \A id \in Due(gch) : gch[id].deadline # Unset
  <2> TAKE id \in Due(gch)
  <2>1. gch[id].there /\ gch[id].deadline <= now /\ id \in Id
    BY DEF Due
  <2>2. gch[id].deadline \in Nat
    BY <2>1, WaitingFields
  <2> QED
    BY <2>1, <2>2, Facts
<1>2. DueOf(gch, s) \in SUBSET PendingIn(gch, s)
  BY <1>1 DEF DueOf, Due, PendingIn
<1>3. DueOf(gch, s) \in SUBSET Id
  BY DEF DueOf, Due
<1> QED
  BY <1>2, <1>3, Subsets

LEMMA RestQueue ==
  ASSUME NEW gch \in Queue, NEW ids \in SUBSET Id
  PROVE  /\ Remaining(gch, ids) \in Queue
         /\ \A s \in Scheme : PendingIn(Remaining(gch, ids), s) = PendingIn(gch, s) \ ids
<1> DEFINE rest == Remaining(gch, ids)
<1>1. \A id \in Id : rest[id] = IF id \in ids THEN NoGacha ELSE gch[id]
  BY DEF Remaining
<1>2. rest \in [Id -> Waiting \cup {NoGacha}]
  BY DEF Remaining, Queue
<1> HIDE DEF rest
<1>3. \A id \in Id : rest[id].there => id \notin ids /\ rest[id] = gch[id]
  BY <1>1, Facts
<1>4. rest \in Queue
  BY <1>2, <1>3 DEF Queue
<1>5. \A s \in Scheme : PendingIn(rest, s) = PendingIn(gch, s) \ ids
  <2> TAKE s \in Scheme
  <2>1. \A id \in Id : id \in PendingIn(rest, s) <=> id \in PendingIn(gch, s) /\ id \notin ids
    BY <1>1, <1>3 DEF PendingIn
  <2> QED
    BY <2>1 DEF PendingIn
<1> QED
  BY <1>4, <1>5 DEF rest

LEMMA ResolvedTables ==
  ASSUME NEW sch \in Sheet, NEW gch \in Queue, Counted(sch, gch), now \in 0 .. MaxTime
  PROVE  /\ Resolved(sch, gch) \in Sheet
         /\ Counted(Resolved(sch, gch), Remaining(gch, Due(gch)))
<1> DEFINE rest == Remaining(gch, Due(gch))
<1>1. Due(gch) \in SUBSET Id
  BY DEF Due
<1>2. ASSUME NEW s \in Scheme
      PROVE  /\ Form(Resolved(sch, gch)[s])
             /\ CountedIn(Resolved(sch, gch)[s], rest, s)
  <2> DEFINE D == DueOf(gch, s)
             n == Cardinality(D)
  <2>1. /\ Form(sch[s]) /\ sch[s].unresolved \in Nat
        /\ PendingIn(gch, s) # {} => sch[s].open
        /\ Cardinality(PendingIn(gch, s)) <= sch[s].unresolved
    BY Facts DEF Sheet, Counted, CountedIn, SchemeRow, Form
  <2>2. PendingIn(rest, s) = PendingIn(gch, s) \ D
    <3>1. PendingIn(rest, s) = PendingIn(gch, s) \ Due(gch)
      BY <1>1, RestQueue
    <3> QED
      BY <3>1 DEF DueOf, PendingIn
  <2>3. D \in SUBSET PendingIn(gch, s) /\ n \in Nat
    BY DueIsPending
  <2> HIDE DEF D, n
  <2>4. /\ n \in Nat /\ Cardinality(PendingIn(gch, s)) \in Nat
        /\ n <= Cardinality(PendingIn(gch, s))
        /\ Cardinality(PendingIn(rest, s)) = Cardinality(PendingIn(gch, s)) - n
    BY <2>2, <2>3, PendingTaken DEF n
  <2>5. n <= sch[s].unresolved
    BY <2>1, <2>4
  <2>6. CASE D # {} /\ sch[s].grades # <<>>
    <3>1. Resolved(sch, gch)[s] = PaidOut(sch[s], 1, n)
      BY <2>6 DEF Resolved, D, n
    <3>2. 1 \in 1 .. Len(sch[s].grades)
      <4>1. sch[s].grades \in Seq(GradeRow)
        BY <2>1 DEF Form, SchemeRow
      <4>2. Len(sch[s].grades) \in Nat /\ Len(sch[s].grades) # 0
        BY <4>1, <2>6, LenProperties, EmptySeq
      <4> QED
        BY <4>2
    <3>3. /\ Form(PaidOut(sch[s], 1, n)) /\ PaidOut(sch[s], 1, n).open = sch[s].open
          /\ PaidOut(sch[s], 1, n).unresolved = sch[s].unresolved - n
      BY <2>1, <2>4, <2>5, <3>2, PaidOutForm
    <3> QED
      BY <2>1, <2>2, <2>4, <3>1, <3>3 DEF CountedIn
  <2>7. CASE ~(D # {} /\ sch[s].grades # <<>>)
    <3>1. Resolved(sch, gch)[s] = sch[s]
      BY <2>7 DEF Resolved, D
    <3> QED
      BY <2>1, <2>2, <2>4, <3>1 DEF CountedIn
  <2> QED
    BY <2>6, <2>7
<1>3. Resolved(sch, gch) \in [Scheme -> SchemeRow]
  <2>1. \A s \in Scheme : Resolved(sch, gch)[s] \in SchemeRow
    BY <1>2 DEF Form
  <2>2. Resolved(sch, gch) = [s \in Scheme |-> Resolved(sch, gch)[s]]
    BY DEF Resolved
  <2> QED
    BY <2>1, <2>2
<1> QED
  BY <1>2, <1>3 DEF Sheet, Counted

LEMMA PrizesType ==
  ASSUME NEW sch \in Sheet, NEW gch \in Queue, NEW ids \in SUBSET Due(gch)
  PROVE  Prizes(sch, gch, ids) \in Nat
<1>1. ids \in SUBSET Id
  BY DEF Due
<1>2. IsFiniteSet(ids)
  BY <1>1, Subsets
<1>3. ASSUME NEW id \in ids
      PROVE  Prize(sch[gch[id].scheme]) \in Nat
  <2>1. gch[id].scheme \in Scheme
    BY <1>1, WaitingFields DEF Due
  <2>2. sch[gch[id].scheme] \in SchemeRow
    BY <2>1 DEF Sheet
  <2> QED
    BY <2>2, PrizeType
<1>4. [id \in ids |-> Prize(sch[gch[id].scheme])] \in [ids -> Nat]
  BY <1>3
<1> QED
  BY <1>2, <1>4, CoinsFinite DEF Prizes

LEMMA AwardedType ==
  ASSUME NEW sch \in Sheet, NEW gch \in Queue, NEW bnk \in [Account -> Nat],
         Prizes(sch, gch, Due(gch)) <= bnk[Self]
  PROVE  Awarded(sch, gch, bnk) \in [Account -> Nat]
<1>1. Self \in Account
  BY GachaAssumption
<1>2. Prizes(sch, gch, Due(gch)) \in Nat
  BY PrizesType
<1>3. \A a \in Account : Prizes(sch, gch, {id \in Due(gch) : gch[id].owner = a}) \in Nat
  <2> TAKE a \in Account
  <2> DEFINE ids == {id \in Due(gch) : gch[id].owner = a}
  <2>1. ids \in SUBSET Due(gch)
    OBVIOUS
  <2> HIDE DEF ids
  <2>2. Prizes(sch, gch, ids) \in Nat
    BY <2>1, PrizesType
  <2> QED
    BY <2>2 DEF ids
<1> DEFINE total == Prizes(sch, gch, Due(gch))
           share(a) == Prizes(sch, gch, {id \in Due(gch) : gch[id].owner = a})
<1> HIDE DEF total, share
<1>4. Awarded(sch, gch, bnk) =
        [a \in Account |-> IF a = Self THEN bnk[a] - total ELSE bnk[a] + share(a)]
  BY DEF Awarded, total, share
<1>5. bnk[Self] - total \in Nat /\ \A a \in Account : bnk[a] + share(a) \in Nat
  BY <1>1, <1>2, <1>3 DEF total, share
<1> QED
  BY <1>4, <1>5

LEMMA HeadTimeType ==
  ASSUME NEW gch \in Queue
  PROVE  HeadTime(gch) \in Nat \cup {None}
<1> DEFINE times == {gch[id].deadline : id \in {i \in Id : gch[i].there}}
<1>1. times \in SUBSET Nat
  BY WaitingFields
<1>2. times # {} => \E x \in times : \A y \in times : x <= y
  <2> HIDE DEF times
  <2> QED
    BY <1>1, LeastNatural
<1>3. HeadTime(gch) = IF times = {} THEN None ELSE CHOOSE x \in times : \A y \in times : x <= y
  BY DEF HeadTime
<1> HIDE DEF times
<1> QED
  BY <1>1, <1>2, <1>3

\* The prizes of what is due, by scheme.
LEMMA PrizesByScheme ==
  ASSUME NEW sch \in Sheet, NEW gch \in Queue
  PROVE  LET due == [s \in Scheme |-> Cardinality(DueOf(gch, s)) * Prize(sch[s])]
         IN  due \in [Scheme -> Nat] /\ Prizes(sch, gch, Due(gch)) = Total(due)
<1> DEFINE due == [s \in Scheme |-> Cardinality(DueOf(gch, s)) * Prize(sch[s])]
           group == [s \in Scheme |-> DueOf(gch, s) \X (1 .. Prize(sch[s]))]
           prizes == [id \in Due(gch) |-> Prize(sch[gch[id].scheme])]
<1>1. \A s \in Scheme : Prize(sch[s]) \in Nat
  BY PrizeType DEF Sheet
<1>2. \A s \in Scheme : IsFiniteSet(DueOf(gch, s)) /\ Cardinality(DueOf(gch, s)) \in Nat
  <2> TAKE s \in Scheme
  <2>1. DueOf(gch, s) \in SUBSET Id
    BY DEF DueOf, Due
  <2> QED
    BY <2>1, Subsets
<1>3. \A id \in Due(gch) : gch[id].scheme \in Scheme
  BY WaitingFields DEF Due
<1>4. ASSUME NEW s \in Scheme
      PROVE  /\ Cardinality(DueOf(gch, s)) * Prize(sch[s]) \in Nat
             /\ IsFiniteSet(group[s]) /\ Cardinality(group[s]) = due[s]
  <2> DEFINE D == DueOf(gch, s)
             m == Prize(sch[s])
  <2>1. IsFiniteSet(D) /\ Cardinality(D) \in Nat /\ m \in Nat
    BY <1>1, <1>2
  <2>2. group[s] = D \X (1 .. m) /\ due[s] = Cardinality(D) * m
    OBVIOUS
  <2> HIDE DEF D, m, group, due
  <2>3. IsFiniteSet(1 .. m) /\ Cardinality(1 .. m) = m
    BY <2>1, FS_Interval
  <2>4. IsFiniteSet(D \X (1 .. m)) /\ Cardinality(D \X (1 .. m)) = Cardinality(D) * m
    BY <2>1, <2>3, FS_Product
  <2>5. Cardinality(D) * m \in Nat
    BY <2>1
  <2> QED
    BY <2>2, <2>4, <2>5 DEF D, m
<1>5. due \in [Scheme -> Nat]
  BY <1>4
<1>6. \A s \in Scheme : \A t \in Scheme : s # t => group[s] \cap group[t] = {}
  BY DEF DueOf
<1>7. UNION {group[s] : s \in Scheme} = Coins(prizes)
  BY <1>3 DEF Coins, DueOf
<1>8. Cardinality(UNION {group[s] : s \in Scheme}) = Total(due)
  <2>1. \A s \in Scheme : IsFiniteSet(group[s]) /\ Cardinality(group[s]) = due[s]
    BY <1>4
  <2> HIDE DEF group, due
  <2> QED
    BY <1>5, <1>6, <2>1, Facts, TotalGroups
<1>9. Prizes(sch, gch, Due(gch)) = Cardinality(Coins(prizes))
  BY DEF Prizes, Total
<1> HIDE DEF group, prizes
<1> QED
  BY <1>5, <1>7, <1>8, <1>9

\* What is resolved was left of the budgets, scheme by scheme.
LEMMA EscrowResolved ==
  ASSUME NEW sch \in Sheet, NEW gch \in Queue, NEW bnk \in [Account -> Nat],
         Counted(sch, gch), now \in 0 .. MaxTime,
         Escrowed(sch, bnk), CanResolve(sch, gch, bnk)
  PROVE  Escrowed(Resolved(sch, gch), Awarded(sch, gch, bnk))
<1> DEFINE to == Resolved(sch, gch)
           due == [s \in Scheme |-> Cardinality(DueOf(gch, s)) * Prize(sch[s])]
<1>1. due \in [Scheme -> Nat] /\ Prizes(sch, gch, Due(gch)) = Total(due)
  BY PrizesByScheme
<1>2. ASSUME NEW s \in Scheme
      PROVE  /\ to[s].budget = sch[s].budget /\ to[s].out = sch[s].out + due[s]
             /\ to[s].out <= to[s].budget
             /\ ~to[s].open => to[s].budget = to[s].out
  <2> DEFINE D == DueOf(gch, s)
             n == Cardinality(D)
             row == sch[s]
  <2>1. row \in SchemeRow /\ row.budget \in Nat /\ row.out \in Nat
    BY RowFields
  <2>2. due[s] = n * Prize(row)
    OBVIOUS
  <2>3. row.out <= row.budget /\ (~row.open => row.budget = row.out)
    BY DEF Escrowed
  <2>4. CASE D # {} /\ row.grades # <<>>
    <3>1. to[s] = PaidOut(row, 1, n)
      BY <2>4 DEF Resolved
    <3>2. CanPay(row, 1, n) /\ row.open
      <4>1. PICK id \in D : TRUE
        BY <2>4
      <4>2. id \in Due(gch) /\ gch[id].scheme = s
        BY <4>1 DEF DueOf
      <4> QED
        BY <2>4, <4>2 DEF CanResolve
    <3>3. Prize(row) = row.grades[1].reward
      BY <2>4 DEF Prize
    <3> HIDE DEF n, row, due, to
    <3>4. /\ to[s].budget = row.budget /\ to[s].out = row.out + n * row.grades[1].reward
          /\ to[s].open = row.open
      BY <2>1, <3>1, PaidOutLeft
    <3>5. row.out + n * row.grades[1].reward <= row.budget
      BY <3>2 DEF CanPay
    <3> QED
      BY <2>2, <3>2, <3>3, <3>4, <3>5 DEF row
  <2>5. CASE ~(D # {} /\ row.grades # <<>>)
    <3>1. to[s] = row
      BY <2>5 DEF Resolved
    <3>2. due[s] = 0
      <4>1. CASE D = {}
        <5>1. n = 0
          BY <4>1, FS_EmptySet
        <5>2. Prize(row) \in Nat
          BY <2>1, PrizeType
        <5> HIDE DEF n, row, due
        <5> QED
          BY <2>2, <5>1, <5>2
      <4>2. CASE row.grades = <<>>
        <5>1. Prize(row) = 0
          BY <4>2 DEF Prize
        <5>2. n \in Nat
          BY DueIsPending
        <5> HIDE DEF n, row, due
        <5> QED
          BY <2>2, <5>1, <5>2
      <4> QED
        BY <2>5, <4>1, <4>2
    <3> QED
      BY <2>1, <2>3, <3>1, <3>2
  <2> QED
    BY <2>4, <2>5
<1> HIDE DEF due, to
<1>3. to \in Sheet
  BY ResolvedTables DEF to
<1>4. /\ Left(sch) \in [Scheme -> Nat] /\ Total(Left(sch)) \in Nat
      /\ Left(to) \in [Scheme -> Nat] /\ Total(Left(to)) \in Nat
  BY <1>2, <1>3, LeftType DEF Escrowed
<1>5. \A s \in Scheme : Left(sch)[s] = Left(to)[s] + due[s]
  <2> TAKE s \in Scheme
  <2>1. /\ Left(sch)[s] = sch[s].budget - sch[s].out
        /\ Left(to)[s] = to[s].budget - to[s].out
    BY DEF Left
  <2>2. sch[s].budget \in Nat /\ sch[s].out \in Nat /\ due[s] \in Nat
    BY <1>1, RowFields
  <2>3. sch[s].budget - sch[s].out = (sch[s].budget - (sch[s].out + due[s])) + due[s]
    BY <2>2
  <2> QED
    BY <1>2, <2>1, <2>3
<1>6. Total(Left(sch)) = Total(Left(to)) + Total(due)
  <2> DEFINE f == Left(sch)
             g == Left(to)
  <2>1. f \in [Scheme -> Nat] /\ g \in [Scheme -> Nat] /\ \A s \in Scheme : f[s] = g[s] + due[s]
    BY <1>4, <1>5
  <2> HIDE DEF f, g
  <2>2. Total(f) = Total(g) + Total(due)
    BY <1>1, <2>1, Facts, TotalSum
  <2> QED
    BY <2>2 DEF f, g
<1>7. Awarded(sch, gch, bnk)[Self] = bnk[Self] - Total(due)
  BY <1>1, GachaAssumption DEF Awarded
<1>8. Total(due) \in Nat
  BY <1>1, Facts, CoinsFinite
<1>9. bnk[Self] = Total(Left(sch))
  BY DEF Escrowed
<1>10. bnk[Self] - Total(due) = Total(Left(to))
  BY <1>4, <1>6, <1>8, <1>9
<1> QED
  BY <1>2, <1>7, <1>10 DEF Escrowed, to

\* The resolution that ends most handlers.
LEMMA Refreshed ==
  ASSUME NEW sch, NEW gch, NEW bnk, Tables(sch, gch, bnk), now \in 0 .. MaxTime,
         RefreshSchedule(sch, gch, bnk)
  PROVE  GInv'
<1> DEFINE rest == Remaining(gch, Due(gch))
<1>1. /\ sch \in Sheet /\ gch \in Queue /\ bnk \in [Account -> Nat] /\ Counted(sch, gch)
      /\ Escrowed(sch, bnk)
  BY DEF Tables
<1>2. Due(gch) \in SUBSET Id
  BY DEF Due
<1>3. rest \in Queue
  BY <1>1, <1>2, RestQueue
<1>4. Resolved(sch, gch) \in Sheet /\ Counted(Resolved(sch, gch), rest)
  BY <1>1, ResolvedTables
<1>5. Awarded(sch, gch, bnk) \in [Account -> Nat]
  BY <1>1, AwardedType DEF RefreshSchedule, CanResolve
<1>6. Escrowed(Resolved(sch, gch), Awarded(sch, gch, bnk))
  BY <1>1, EscrowResolved DEF RefreshSchedule
<1>7. HeadTime(rest) \in Nat \cup {None}
  BY <1>3, HeadTimeType
<1> HIDE DEF rest
<1>8. /\ scheme' = Resolved(sch, gch) /\ gacha' = rest /\ bank' = Awarded(sch, gch, bnk)
      /\ deferred' = HeadTime(rest) /\ now' = now
  BY DEF RefreshSchedule, rest
<1>9. Tables(scheme', gacha', bank')
  BY <1>3, <1>4, <1>5, <1>8, <1>6 DEF Tables
<1>10. Tables(scheme, gacha, bank)'
  BY <1>9 DEF Tables, Counted, CountedIn, PendingIn, Escrowed, Left
<1> QED
  BY <1>7, <1>8, <1>10 DEF GInv

-----------------------------------------------------------------------------
(* The handlers.                                                            *)

LEMMA Kept ==
  ASSUME NEW sch, NEW gch, NEW bnk, Tables(sch, gch, bnk),
         scheme' = sch, gacha' = gch, bank' = bnk,
         deferred' \in Nat \cup {None}, now' \in 0 .. MaxTime
  PROVE  GInv'
<1>1. Tables(scheme', gacha', bank')
  OBVIOUS
<1>2. Tables(scheme, gacha, bank)'
  BY <1>1 DEF Tables, Counted, CountedIn, PendingIn, Escrowed, Left
<1> QED
  BY <1>2 DEF GInv

LEMMA OpenStep ==
  ASSUME GInv, NEW s \in Scheme, NEW offer \in Offers, NEW auth, Open(s, offer, auth)
  PROVE  GInv'
<1> DEFINE row == [open |-> TRUE, grades |-> offer.grades, budget |-> offer.budget,
                   expiration |-> offer.expiration, precision |-> offer.precision,
                   deadline_sec |-> offer.deadline_sec, out |-> 0,
                   out_count |-> [g \in 1 .. Len(offer.grades) |-> 0],
                   issued |-> 0, unresolved |-> 0]
<1>1. offer.budget \in Nat
  BY GachaAssumption
<1>2. row.open /\ row.budget = offer.budget /\ row.out = 0
  OBVIOUS
<1> HIDE DEF row
<1>3. Form(row)
  BY OpenRow DEF row
<1>4. scheme \in Sheet /\ gacha \in Queue /\ bank \in [Account -> Nat] /\ Counted(scheme, gacha)
      /\ Escrowed(scheme, bank)
  BY DEF GInv, Tables
<1>5. CountedIn(row, gacha, s)
  <2>1. ~scheme[s].open
    BY DEF Open
  <2>2. CountedIn(scheme[s], gacha, s)
    BY <1>4, RowFields
  <2>3. PendingIn(gacha, s) = {}
    BY <2>1, <2>2 DEF CountedIn
  <2> QED
    BY <1>3, <2>3, NonePending
<1> DEFINE sch == [scheme EXCEPT ![s] = row]
           bnk == [bank EXCEPT ![Creator[s]] = @ - offer.budget, ![Self] = @ + offer.budget]
<1>6. sch \in Sheet /\ Counted(sch, gacha)
  BY <1>3, <1>4, <1>5, SchemeUpdate
<1>7. bnk \in [Account -> Nat]
  <2>1. Creator[s] \in Account /\ Self \in Account /\ Creator[s] # Self
    BY GachaAssumption
  <2>2. offer.budget <= bank[Creator[s]]
    BY DEF Open
  <2> QED
    BY <1>1, <1>4, <2>1, <2>2, Moved
<1>8. /\ scheme' = sch /\ bank' = bnk /\ gacha' = gacha /\ deferred' = deferred /\ now' = now
  BY DEF Open, row
<1>9. bnk[Self] = bank[Self] + offer.budget /\ bank[Self] \in Nat
  <2>1. Creator[s] \in Account /\ Self \in Account /\ Creator[s] # Self
    BY GachaAssumption
  <2> QED
    BY <1>4, <2>1, MovedFields
<1> HIDE DEF bnk
<1>10. Escrowed(sch, bnk)
  <2>1. scheme[s].budget = scheme[s].out
    BY <1>4 DEF Open, Escrowed
  <2>2. scheme[s].budget \in Nat
    BY <1>4, RowFields
  <2>3. bnk[Self] = bank[Self] - (scheme[s].budget - scheme[s].out) + (row.budget - row.out)
    BY <1>1, <1>2, <1>9, <2>1, <2>2
  <2>4. row.out <= row.budget
    BY <1>1, <1>2
  <2> QED
    BY <1>2, <1>3, <1>4, <2>3, <2>4, EscrowUpdate
<1> HIDE DEF sch
<1>11. Tables(sch, gacha, bnk)
  BY <1>4, <1>6, <1>7, <1>10 DEF Tables
<1>12. deferred' \in Nat \cup {None} /\ now' \in 0 .. MaxTime
  BY <1>8 DEF GInv
<1> QED
  BY <1>8, <1>11, <1>12, Kept

LEMMA CloseStep ==
  ASSUME GInv, NEW s \in Scheme, NEW auth, Close(s, auth)
  PROVE  GInv'
<1> DEFINE left == scheme[s].budget - scheme[s].out
           sch == [scheme EXCEPT ![s] = NoScheme]
           bnk == [bank EXCEPT ![Self] = @ - left, ![Creator[s]] = @ + left]
<1>1. scheme \in Sheet /\ gacha \in Queue /\ bank \in [Account -> Nat] /\ Counted(scheme, gacha)
      /\ Escrowed(scheme, bank)
  BY DEF GInv, Tables
<1>2. CountedIn(scheme[s], gacha, s) /\ scheme[s].budget \in Nat /\ scheme[s].out \in Nat
  BY <1>1, RowFields
<1>3. PendingIn(gacha, s) = {}
  <2>1. scheme[s].unresolved = 0
    BY DEF Close, Settled
  <2>2. PendingIn(gacha, s) \in SUBSET Id
    BY DEF PendingIn
  <2>3. IsFiniteSet(PendingIn(gacha, s)) /\ Cardinality(PendingIn(gacha, s)) \in Nat
    BY <2>2, Subsets
  <2>4. Cardinality(PendingIn(gacha, s)) = 0
    BY <1>2, <2>1, <2>3 DEF CountedIn
  <2> QED
    BY <2>3, <2>4, FS_EmptySet
<1>4. sch \in Sheet /\ Counted(sch, gacha)
  <2>1. CountedIn(NoScheme, gacha, s)
    BY <1>3, NoSchemeForm, NonePending
  <2> QED
    BY <1>1, <2>1, NoSchemeForm, SchemeUpdate
<1>5. left \in Nat /\ left <= bank[Self]
  <2>1. left > 0 /\ left <= bank[Self]
    BY DEF Close
  <2> QED
    BY <1>2, <2>1
<1>6. /\ scheme' = sch /\ bank' = bnk /\ gacha' = gacha /\ deferred' = deferred /\ now' = now
  BY DEF Close
<1> HIDE DEF left
<1>7. bnk \in [Account -> Nat]
  <2>1. Creator[s] \in Account /\ Self \in Account /\ Creator[s] # Self
    BY GachaAssumption
  <2> QED
    BY <1>1, <1>5, <2>1, Moved
<1>8. bnk[Self] = bank[Self] - left /\ bank[Self] \in Nat
  <2>1. Creator[s] \in Account /\ Self \in Account /\ Creator[s] # Self
    BY GachaAssumption
  <2> QED
    BY <1>1, <2>1, MovedFields
<1> HIDE DEF bnk
<1>9. Escrowed(sch, bnk)
  <2>1. NoScheme.budget = 0 /\ NoScheme.out = 0
    BY DEF NoScheme
  <2>2. bnk[Self] = bank[Self] - left + (NoScheme.budget - NoScheme.out)
    BY <1>5, <1>8, <2>1
  <2>3. bnk[Self] = bank[Self] - (scheme[s].budget - scheme[s].out)
                      + (NoScheme.budget - NoScheme.out)
    BY <2>2 DEF left
  <2>4. NoScheme.out <= NoScheme.budget /\ NoScheme.budget = NoScheme.out
    BY <2>1
  <2> QED
    BY <1>1, <2>3, <2>4, NoSchemeForm, EscrowUpdate
<1> HIDE DEF sch
<1>10. Tables(sch, gacha, bnk)
  BY <1>1, <1>4, <1>7, <1>9 DEF Tables
<1>11. deferred' \in Nat \cup {None} /\ now' \in 0 .. MaxTime
  BY <1>6 DEF GInv
<1> QED
  BY <1>6, <1>10, <1>11, Kept

LEMMA IssueStep ==
  ASSUME GInv, NEW to \in Players, NEW s \in Scheme, NEW id \in Id, NEW auth,
         Issue(to, s, id, auth)
  PROVE  GInv'
<1> DEFINE row == [scheme[s] EXCEPT !.issued = @ + 1]
           sch == [scheme EXCEPT ![s] = row]
           fresh == [there |-> TRUE, owner |-> to, scheme |-> s, seeded |-> FALSE,
                     deadline |-> Unset]
           gch == [gacha EXCEPT ![id] = fresh]
<1>1. scheme \in Sheet /\ gacha \in Queue /\ bank \in [Account -> Nat] /\ Counted(scheme, gacha)
      /\ Escrowed(scheme, bank)
  BY DEF GInv, Tables
<1>2. /\ Form(scheme[s]) /\ scheme[s] \in SchemeRow /\ scheme[s].issued \in 0 .. Uint32 - 1
      /\ CountedIn(scheme[s], gacha, s)
  BY <1>1, RowFields
<1>3. /\ Form(row) /\ row.unresolved = scheme[s].unresolved /\ row.open = scheme[s].open
      /\ row.budget = scheme[s].budget /\ row.out = scheme[s].out
  <2>1. scheme[s].issued + 1 \in 0 .. Uint32 - 1
    BY <1>2, Facts DEF Issue
  <2> QED
    BY <1>2, <2>1 DEF Form, SchemeRow
<1>4. fresh \in Waiting /\ fresh.deadline = Unset /\ ~fresh.seeded
  BY Facts DEF Waiting
<1>5. /\ scheme' = sch /\ gacha' = gch /\ bank' = bank /\ deferred' = deferred /\ now' = now
  BY DEF Issue
<1> HIDE DEF row, fresh
<1>6. gacha \in [Id -> Waiting \cup {NoGacha}]
  BY <1>1 DEF Queue
<1>7. /\ gch \in [Id -> Waiting \cup {NoGacha}]
      /\ gch[id] = fresh /\ \A x \in Id \ {id} : gch[x] = gacha[x]
  BY <1>4, <1>6
<1> HIDE DEF gch
<1>8. gch \in Queue
  BY <1>1, <1>4, <1>7 DEF Queue
<1>9. \A x : PendingIn(gch, x) \subseteq PendingIn(gacha, x)
  BY <1>4, <1>7 DEF PendingIn
<1>10. CountedIn(row, gch, s)
  <2>1. /\ Cardinality(PendingIn(gch, s)) \in Nat /\ Cardinality(PendingIn(gacha, s)) \in Nat
        /\ Cardinality(PendingIn(gch, s)) <= Cardinality(PendingIn(gacha, s))
    BY <1>9, FewerPending
  <2>2. scheme[s].unresolved \in Nat
    BY <1>1, RowFields
  <2> QED
    BY <1>2, <1>3, <1>9, <2>1, <2>2 DEF CountedIn
<1>11. sch \in Sheet /\ Counted(sch, gch)
  BY <1>1, <1>3, <1>9, <1>10, SchemeUpdate
<1>12. Escrowed(sch, bank)
  BY <1>1, <1>3, CountEscrow
<1> HIDE DEF sch
<1>13. Tables(sch, gch, bank)
  BY <1>1, <1>8, <1>11, <1>12 DEF Tables
<1>14. deferred' \in Nat \cup {None} /\ now' \in 0 .. MaxTime
  BY <1>5 DEF GInv
<1> QED
  BY <1>5, <1>13, <1>14, Kept

LEMMA SetOSeedStep ==
  ASSUME GInv, NEW id \in Id, NEW zero \in ZeroSeeds, NEW auth, SetOSeed(id, zero, auth)
  PROVE  GInv'
<1> DEFINE s == gacha[id].scheme
           at == (now + scheme[s].deadline_sec) % Uint32
           more == (scheme[s].unresolved + 1) % Uint32
           row == [scheme[s] EXCEPT !.unresolved = more]
           sch == [scheme EXCEPT ![s] = row]
           given == [gacha[id] EXCEPT !.seeded = ~zero, !.deadline = at]
           gch == [gacha EXCEPT ![id] = given]
<1>1. scheme \in Sheet /\ gacha \in Queue /\ bank \in [Account -> Nat] /\ Counted(scheme, gacha)
      /\ Escrowed(scheme, bank)
  BY DEF GInv, Tables
<1>2. gacha[id].there /\ scheme[s].open /\ at <= MaxTime /\ scheme[s].unresolved < MaxSeeds
  BY DEF SetOSeed, Horizon
<1>3. RefreshSchedule(sch, gch, bank)
  <2>1. sch = [scheme EXCEPT ![s].unresolved = (@ + 1) % Uint32]
    BY <1>1 DEF Sheet
  <2>2. gch = [gacha EXCEPT ![id].seeded = ~zero, ![id].deadline = at]
    BY <1>1 DEF Queue
  <2> QED
    BY <2>1, <2>2 DEF SetOSeed
<1>4. gacha[id] \in Waiting /\ s \in Scheme
  BY <1>1, <1>2, WaitingFields
<1> HIDE DEF s
<1>5. /\ Form(scheme[s]) /\ scheme[s] \in SchemeRow /\ scheme[s].unresolved \in Nat
      /\ scheme[s].deadline_sec \in Nat /\ CountedIn(scheme[s], gacha, s)
  BY <1>1, <1>4, RowFields
<1>6. at \in Nat /\ at # Unset /\ at \in 0 .. Uint32 - 1
  <2>1. now + scheme[s].deadline_sec \in Nat
    BY <1>5, Facts DEF GInv
  <2>2. at \in 0 .. Uint32 - 1
    BY <2>1, Facts
  <2> HIDE DEF at
  <2> QED
    BY <1>2, <2>2, Facts
<1>7. more = scheme[s].unresolved + 1 /\ more \in 0 .. Uint32 - 1
  <2>1. scheme[s].unresolved + 1 \in Nat /\ scheme[s].unresolved + 1 < Uint32
    BY <1>2, <1>5, Facts
  <2>2. \A x \in Nat, w \in Nat : x < w => x % w = x
    BY SMT
  <2> QED
    BY <2>1, <2>2, Facts
<1> HIDE DEF at, more
<1>8. /\ Form(row) /\ row.open /\ row.unresolved = more
      /\ row.budget = scheme[s].budget /\ row.out = scheme[s].out
  BY <1>2, <1>5, <1>7 DEF Form, SchemeRow
<1>9. /\ given \in Waiting /\ given.there /\ given.scheme = s /\ given.deadline = at
  <2>1. zero \in BOOLEAN
    BY GachaAssumption
  <2>2. gacha[id].scheme = s
    BY DEF s
  <2> QED
    BY <1>4, <1>6, <2>1, <2>2 DEF Waiting
<1> HIDE DEF row, given
<1>10. gacha \in [Id -> Waiting \cup {NoGacha}]
  BY <1>1 DEF Queue
<1>11. /\ gch \in [Id -> Waiting \cup {NoGacha}]
       /\ gch[id] = given /\ \A x \in Id \ {id} : gch[x] = gacha[x]
  BY <1>9, <1>10
<1> HIDE DEF gch
<1>12. gch \in Queue
  BY <1>1, <1>6, <1>9, <1>11 DEF Queue
<1>13. PendingIn(gch, s) \subseteq PendingIn(gacha, s) \cup {id}
  BY <1>11 DEF PendingIn
<1>14. \A x \in Scheme \ {s} : PendingIn(gch, x) \subseteq PendingIn(gacha, x)
  BY <1>9, <1>11 DEF PendingIn
<1>15. CountedIn(row, gch, s)
  <2>1. /\ Cardinality(PendingIn(gch, s)) \in Nat /\ Cardinality(PendingIn(gacha, s)) \in Nat
        /\ Cardinality(PendingIn(gch, s)) <= Cardinality(PendingIn(gacha, s)) + 1
    BY <1>13, PendingMore
  <2>2. Cardinality(PendingIn(gacha, s)) <= scheme[s].unresolved
    BY <1>5 DEF CountedIn
  <2>3. Cardinality(PendingIn(gch, s)) <= row.unresolved
    BY <1>5, <1>7, <1>8, <2>1, <2>2
  <2> QED
    BY <1>8, <2>3 DEF CountedIn
<1>16. sch \in Sheet /\ Counted(sch, gch)
  BY <1>1, <1>4, <1>8, <1>14, <1>15, SchemeUpdate
<1>17. Escrowed(sch, bank)
  BY <1>1, <1>2, <1>4, <1>8, CountEscrow
<1> HIDE DEF sch
<1>18. Tables(sch, gch, bank)
  BY <1>1, <1>12, <1>16, <1>17 DEF Tables
<1>19. now \in 0 .. MaxTime
  BY DEF GInv
<1> QED
  BY <1>3, <1>18, <1>19, Refreshed

LEMMA SetDSeedStep ==
  ASSUME GInv, NEW id \in Id, NEW score \in Scores, NEW auth, SetDSeed(id, score, auth)
  PROVE  GInv'
<1> DEFINE s == gacha[id].scheme
           row == scheme[s]
           winnable == Winnable(row, score)
           g == CHOOSE x \in winnable : \A y \in winnable : x <= y
           erased == Remaining(gacha, {id})
           reward == row.grades[g].reward
           paid == PaidOut(row, g, 1)
           owner == gacha[id].owner
<1>1. scheme \in Sheet /\ gacha \in Queue /\ bank \in [Account -> Nat] /\ Counted(scheme, gacha)
      /\ Escrowed(scheme, bank)
  BY DEF GInv, Tables
<1>2. gacha[id].there /\ gacha[id].seeded /\ row.open
  BY DEF SetDSeed
<1>3. s \in Scheme /\ owner \in Players
  BY <1>1, <1>2, WaitingFields
<1>4. id \in PendingIn(gacha, s)
  BY <1>1, <1>2 DEF Queue, PendingIn
<1>5. erased \in Queue /\ \A x \in Scheme : PendingIn(erased, x) = PendingIn(gacha, x) \ {id}
  <2>1. {id} \in SUBSET Id
    OBVIOUS
  <2> QED
    BY <1>1, <2>1, RestQueue
<1>6. now \in 0 .. MaxTime
  BY DEF GInv
<1> HIDE DEF s, erased
<1>7. /\ Form(row) /\ row \in SchemeRow /\ row.unresolved \in Nat /\ row.grades \in Seq(GradeRow)
      /\ CountedIn(row, gacha, s)
  BY <1>1, <1>3, RowFields
<1>8. /\ Cardinality(PendingIn(gacha, s)) \in Nat
      /\ 1 <= Cardinality(PendingIn(gacha, s))
      /\ Cardinality(PendingIn(erased, s)) = Cardinality(PendingIn(gacha, s)) - 1
  <2>1. {id} \in SUBSET PendingIn(gacha, s) /\ PendingIn(erased, s) = PendingIn(gacha, s) \ {id}
    BY <1>3, <1>4, <1>5
  <2>2. Cardinality({id}) = 1
    BY FS_Singleton
  <2> DEFINE D == {id}
  <2>3. D \in SUBSET PendingIn(gacha, s) /\ PendingIn(erased, s) = PendingIn(gacha, s) \ D
        /\ Cardinality(D) = 1
    BY <2>1, <2>2
  <2> HIDE DEF D
  <2>4. /\ Cardinality(PendingIn(gacha, s)) \in Nat
        /\ Cardinality(D) <= Cardinality(PendingIn(gacha, s))
        /\ Cardinality(PendingIn(erased, s)) = Cardinality(PendingIn(gacha, s)) - Cardinality(D)
    BY <2>3, PendingTaken
  <2> QED
    BY <2>3, <2>4
<1>9. CASE winnable = {}
  <2>1. RefreshSchedule(scheme, erased, bank)
    BY <1>9 DEF SetDSeed, s, erased
  <2>2. Counted(scheme, erased)
    <3>1. ASSUME NEW x \in Scheme
          PROVE  CountedIn(scheme[x], erased, x)
      <4>1. PendingIn(erased, x) \subseteq PendingIn(gacha, x)
        BY <1>5
      <4>2. /\ Cardinality(PendingIn(erased, x)) \in Nat /\ Cardinality(PendingIn(gacha, x)) \in Nat
            /\ Cardinality(PendingIn(erased, x)) <= Cardinality(PendingIn(gacha, x))
        BY <4>1, FewerPending
      <4>3. CountedIn(scheme[x], gacha, x) /\ scheme[x].unresolved \in Nat
        BY <1>1, RowFields
      <4> QED
        BY <4>1, <4>2, <4>3 DEF CountedIn
    <3> QED
      BY <3>1 DEF Counted
  <2>3. Tables(scheme, erased, bank)
    BY <1>1, <1>5, <2>2 DEF Tables
  <2> QED
    BY <1>6, <2>1, <2>3, Refreshed
<1>10. CASE winnable # {}
  <2> DEFINE sch == [scheme EXCEPT ![s] = paid]
             bnk == [bank EXCEPT ![Self] = @ - reward, ![owner] = @ + reward]
  <2>1. RefreshSchedule(sch, erased, bnk) /\ reward <= bank[Self]
    BY <1>10 DEF SetDSeed, s, erased
  <2>2. g \in 1 .. Len(row.grades)
    <3>1. winnable \in SUBSET (1 .. Len(row.grades)) /\ winnable \in SUBSET Nat
      BY <1>7, LenProperties DEF Winnable
    <3> HIDE DEF winnable
    <3>2. \E x \in winnable : \A y \in winnable : x <= y
      BY <1>10, <3>1, LeastNatural
    <3> QED
      BY <3>1, <3>2
  <2> HIDE DEF g
  <2>3. reward \in Nat
    <3>1. row.grades[g] \in GradeRow
      BY <1>7, <2>2, ElementOfSeq
    <3> QED
      BY <3>1 DEF GradeRow
  <2>4. 1 \in Nat /\ 1 <= row.unresolved
    BY <1>7, <1>8 DEF CountedIn
  <2>5. /\ paid.budget = row.budget /\ paid.out = row.out + 1 * reward
         /\ row.out + 1 * reward <= row.budget
    <3>1. CanPay(row, g, 1)
      BY <1>10 DEF SetDSeed, s, g
    <3> QED
      BY <1>7, <3>1, PaidOutLeft DEF CanPay
  <2>6. Form(paid) /\ paid.open = row.open /\ paid.unresolved = row.unresolved - 1
    BY <1>7, <2>2, <2>4, PaidOutForm
  <2> HIDE DEF paid, reward
  <2>7. bnk \in [Account -> Nat]
    <3>1. Self \in Account /\ owner \in Account /\ Self # owner
      BY <1>3, GachaAssumption
    <3> QED
      BY <1>1, <2>1, <2>3, <3>1, Moved
  <2>8. CountedIn(paid, erased, s)
    BY <1>2, <1>7, <1>8, <2>6 DEF CountedIn
  <2>9. sch \in Sheet /\ Counted(sch, erased)
    <3>1. \A x \in Scheme \ {s} : PendingIn(erased, x) \subseteq PendingIn(gacha, x)
      BY <1>5
    <3> QED
      BY <1>1, <1>3, <2>6, <2>8, <3>1, SchemeUpdate
  <2>10. Escrowed(sch, bnk)
    <3>1. Self \in Account /\ owner \in Account /\ Self # owner
      BY <1>3, GachaAssumption
    <3>2. bnk[Self] = bank[Self] - reward /\ bank[Self] \in Nat
      BY <1>1, <3>1, MovedFields
    <3> HIDE DEF bnk
    <3>3. row.budget \in Nat /\ row.out \in Nat
      BY <1>1, <1>3, RowFields
    <3>4. bnk[Self] = bank[Self] - (row.budget - row.out) + (paid.budget - paid.out)
      BY <2>3, <2>5, <3>2, <3>3
    <3>5. paid.out <= paid.budget
      BY <2>5
    <3> QED
      BY <1>1, <1>2, <1>3, <2>6, <3>4, <3>5, EscrowUpdate
  <2> HIDE DEF sch, bnk
  <2>11. Tables(sch, erased, bnk)
    BY <1>5, <2>7, <2>9, <2>10 DEF Tables
  <2> QED
    BY <1>6, <2>1, <2>11, Refreshed
<1> QED
  BY <1>9, <1>10

-----------------------------------------------------------------------------
(* The invariant.                                                           *)

LEMMA InitGInv == Init => GInv
<1> SUFFICES ASSUME Init PROVE GInv
  OBVIOUS
<1>1. scheme = [s \in Scheme |-> NoScheme] /\ gacha = [id \in Id |-> NoGacha]
      /\ bank = Funds /\ deferred = None /\ now = 0
  BY DEF Init
<1>2. NoScheme \in SchemeRow /\ Form(NoScheme)
  BY NoSchemeForm DEF Form
<1>3. scheme \in Sheet
  BY <1>1, <1>2 DEF Sheet
<1>4. gacha \in Queue /\ \A s : PendingIn(gacha, s) = {}
  BY <1>1, Facts DEF Queue, PendingIn
<1>5. Counted(scheme, gacha)
  <2>1. ASSUME NEW s \in Scheme
        PROVE  CountedIn(scheme[s], gacha, s)
    <3>1. Form(scheme[s]) /\ PendingIn(gacha, s) = {}
      BY <1>1, <1>2, <1>4
    <3> QED
      BY <3>1, NonePending
  <2> QED
    BY <2>1 DEF Counted
<1>6. bank \in [Account -> Nat]
  BY <1>1, GachaAssumption
<1>7. Escrowed(scheme, bank)
  <2>1. \A s \in Scheme : scheme[s].budget = 0 /\ scheme[s].out = 0
    BY <1>1 DEF NoScheme
  <2>2. Left(scheme) \in [Scheme -> Nat] /\ \A s \in Scheme : Left(scheme)[s] = 0
    BY <2>1 DEF Left
  <2> DEFINE left == Left(scheme)
  <2> HIDE DEF left
  <2>3. left \in [Scheme -> Nat] /\ \A s \in Scheme : left[s] = 0
    BY <2>2 DEF left
  <2>4. Total(left) = 0
    BY <2>3, TotalZero
  <2>5. bank[Self] = 0
    BY <1>1, GachaAssumption
  <2> QED
    BY <2>1, <2>4, <2>5 DEF Escrowed, left
<1> QED
  BY <1>1, <1>3, <1>4, <1>5, <1>6, <1>7, Facts DEF GInv, Tables

LEMMA GInvNext == GInv /\ [Next]_vars => GInv'
<1> SUFFICES ASSUME GInv, [Next]_vars PROVE GInv'
  OBVIOUS
<1>1. Tables(scheme, gacha, bank) /\ now \in 0 .. MaxTime /\ deferred \in Nat \cup {None}
  BY DEF GInv
<1>2. ASSUME NEW auth, Resolve(auth)
      PROVE  GInv'
  BY <1>1, <1>2, Refreshed DEF Resolve
<1>3. ASSUME NEW auth \in AuthSets, Call(auth)
      PROVE  GInv'
  <2>1. ASSUME NEW s \in Scheme, NEW offer \in Offers, Open(s, offer, auth)
        PROVE  GInv'
    BY <2>1, OpenStep
  <2>2. ASSUME NEW s \in Scheme, Close(s, auth)
        PROVE  GInv'
    BY <2>2, CloseStep
  <2>3. ASSUME NEW to \in Players, NEW s \in Scheme, NEW id \in Id, Issue(to, s, id, auth)
        PROVE  GInv'
    BY <2>3, IssueStep
  <2>4. ASSUME NEW id \in Id, NEW zero \in ZeroSeeds, SetOSeed(id, zero, auth)
        PROVE  GInv'
    BY <2>4, SetOSeedStep
  <2>5. ASSUME NEW id \in Id, NEW score \in Scores, SetDSeed(id, score, auth)
        PROVE  GInv'
    BY <2>5, SetDSeedStep
  <2> QED
    BY <1>2, <1>3, <2>1, <2>2, <2>3, <2>4, <2>5 DEF Call
<1>4. CASE FireDeferred
  <2>1. CASE RunDeferred
    BY <1>2, <2>1 DEF RunDeferred
  <2>2. CASE DropDeferred
    <3>1. /\ scheme' = scheme /\ gacha' = gacha /\ bank' = bank
          /\ deferred' = None /\ now' = now
      BY <2>2 DEF DropDeferred
    <3>2. deferred' \in Nat \cup {None} /\ now' \in 0 .. MaxTime
      BY <1>1, <3>1
    <3> QED
      BY <1>1, <3>1, <3>2, Kept
  <2> QED
    BY <1>4, <2>1, <2>2 DEF FireDeferred
<1>5. CASE Tick
  <2>1. /\ scheme' = scheme /\ gacha' = gacha /\ bank' = bank
        /\ deferred' = deferred /\ now' = now + 1 /\ now < MaxTime
    BY <1>5 DEF Tick
  <2>2. deferred' \in Nat \cup {None} /\ now' \in 0 .. MaxTime
    BY <1>1, <2>1, Facts
  <2> QED
    BY <1>1, <2>1, <2>2, Kept
<1>6. CASE UNCHANGED vars
  <2>1. /\ scheme' = scheme /\ gacha' = gacha /\ bank' = bank
        /\ deferred' = deferred /\ now' = now
    BY <1>6 DEF vars
  <2> QED
    BY <1>1, <2>1, Kept
<1> QED
  BY <1>3, <1>4, <1>5, <1>6 DEF Next

LEMMA GInvTypes == GInv => TypeOK
<1> SUFFICES ASSUME GInv PROVE TypeOK
  OBVIOUS
<1>1. scheme \in Sheet /\ gacha \in Queue /\ bank \in [Account -> Nat] /\ Counted(scheme, gacha)
  BY DEF GInv, Tables
<1>2. ASSUME NEW s \in Scheme
      PROVE  Row(scheme[s])
  <2>1. Form(scheme[s]) /\ scheme[s] \in SchemeRow
    BY <1>1, RowFields
  <2>2. scheme[s].out_count \in Seq(Nat) /\ Len(scheme[s].out_count) = Len(scheme[s].grades)
    BY <2>1 DEF Form, SchemeRow
  <2>3. \A g \in 1 .. Len(scheme[s].grades) : scheme[s].out_count[g] \in Nat
    BY <2>2, ElementOfSeq
  <2> QED
    BY <2>1, <2>2, <2>3 DEF Row, SchemeRow
<1>3. gacha \in [Id -> Waiting \cup {NoGacha}]
  BY <1>1 DEF Queue
<1> QED
  BY <1>1, <1>2, <1>3 DEF TypeOK, GInv

LEMMA GInvCounted == GInv => PendingCounted
<1> SUFFICES ASSUME GInv, NEW s \in Scheme
             PROVE  /\ Pending(s) # {} => scheme[s].open
                    /\ Cardinality(Pending(s)) <= scheme[s].unresolved
  BY DEF PendingCounted
<1>1. CountedIn(scheme[s], gacha, s)
  BY DEF GInv, Tables, Counted
<1>2. Pending(s) = PendingIn(gacha, s)
  BY DEF Pending, PendingIn
<1> QED
  BY <1>1, <1>2 DEF CountedIn

LEMMA GInvEscrow == GInv => Escrow
<1> SUFFICES ASSUME GInv PROVE Escrow
  OBVIOUS
<1>1. Escrowed(scheme, bank)
  BY DEF GInv, Tables
<1> QED
  BY <1>1 DEF Escrowed, Escrow, Left

\* The tables and balances of the contract stay in their types: a row has
\* a count for each of its grades, no balance falls below zero by a refund
\* or a reward, and a gacha not drawn is of a scheme of the table.
THEOREM TypeCorrect == Spec => []TypeOK
  BY InitGInv, GInvNext, GInvTypes, PTL DEF Spec

\* A scheme closes over no gacha that waits for its draw, and the count of
\* unresolved gachas is never below the number of those that wait.
THEOREM PendingIsCounted == Spec => []PendingCounted
  BY InitGInv, GInvNext, GInvCounted, PTL DEF Spec

\* The contract holds what the open schemes have left of their budgets, however
\* draws, closings and the deferred resolution of many schemes are interleaved.
THEOREM EscrowHeld == Spec => []Escrow
  BY InitGInv, GInvNext, GInvEscrow, PTL DEF Spec

LEMMA TotalMono ==
  ASSUME NEW S, IsFiniteSet(S), NEW f \in [S -> Nat], NEW g \in [S -> Nat],
         \A s \in S : f[s] <= g[s]
  PROVE  Total(f) <= Total(g)
<1> DEFINE h == [s \in S |-> g[s] - f[s]]
<1>1. h \in [S -> Nat] /\ \A s \in S : g[s] = f[s] + h[s]
  OBVIOUS
<1> HIDE DEF h
<1>2. Total(g) = Total(f) + Total(h)
  BY <1>1, TotalSum
<1>3. Total(f) \in Nat /\ Total(g) \in Nat /\ Total(h) \in Nat
  BY <1>1, CoinsFinite
<1> QED
  BY <1>2, <1>3

-----------------------------------------------------------------------------
(* The alarm.                                                               *)

\* Every scheme can pay what is due of its gachas: the first of the two things
\* CanResolve asks.
PayableIn(row, gch, s) ==
    DueOf(gch, s) # {} =>
        /\ row.open
        /\ row.grades # <<>> => CanPay(row, 1, Cardinality(DueOf(gch, s)))

Payable(sch, gch) == \A s \in Scheme : PayableIn(sch[s], gch, s)

\* The second follows: the contract holds what the schemes have left.
LEMMA PayableResolves ==
  ASSUME NEW sch, NEW gch, NEW bnk, Tables(sch, gch, bnk), now \in 0 .. MaxTime
  PROVE  CanResolve(sch, gch, bnk) <=> Payable(sch, gch)
<1>1. /\ sch \in Sheet /\ gch \in Queue /\ bnk \in [Account -> Nat]
      /\ Counted(sch, gch) /\ Escrowed(sch, bnk)
  BY DEF Tables
<1>2. ASSUME CanResolve(sch, gch, bnk), NEW s \in Scheme
      PROVE  PayableIn(sch[s], gch, s)
  <2> SUFFICES ASSUME NEW id \in DueOf(gch, s)
               PROVE  /\ sch[s].open
                      /\ sch[s].grades # <<>> => CanPay(sch[s], 1, Cardinality(DueOf(gch, s)))
    BY DEF PayableIn
  <2>1. id \in Due(gch) /\ gch[id].scheme = s
    BY DEF DueOf
  <2> QED
    BY <1>2, <2>1 DEF CanResolve
<1>3. ASSUME Payable(sch, gch)
      PROVE  CanResolve(sch, gch, bnk)
  <2>1. ASSUME NEW id \in Due(gch)
        PROVE  LET row == sch[gch[id].scheme]
               IN  /\ row.open
                   /\ row.grades # <<>> =>
                         CanPay(row, 1, Cardinality(DueOf(gch, gch[id].scheme)))
    <3> DEFINE s == gch[id].scheme
    <3>1. s \in Scheme
      BY <1>1, WaitingFields DEF Due
    <3>2. DueOf(gch, s) # {}
      BY DEF DueOf
    <3> HIDE DEF s
    <3>3. PayableIn(sch[s], gch, s)
      BY <1>3, <3>1 DEF Payable
    <3>4. /\ sch[s].open
          /\ sch[s].grades # <<>> => CanPay(sch[s], 1, Cardinality(DueOf(gch, s)))
      BY <3>2, <3>3 DEF PayableIn
    <3> QED
      BY <3>4 DEF s
  <2> DEFINE due == [s \in Scheme |-> Cardinality(DueOf(gch, s)) * Prize(sch[s])]
  <2>2. due \in [Scheme -> Nat] /\ Prizes(sch, gch, Due(gch)) = Total(due)
    BY <1>1, PrizesByScheme
  <2>3. Left(sch) \in [Scheme -> Nat] /\ bnk[Self] = Total(Left(sch))
    BY <1>1, LeftType DEF Escrowed
  <2>4. ASSUME NEW s \in Scheme
        PROVE  Cardinality(DueOf(gch, s)) * Prize(sch[s]) <= Left(sch)[s]
    <3> DEFINE n == Cardinality(DueOf(gch, s))
               p == Prize(sch[s])
    <3>1. /\ sch[s].budget \in Nat /\ sch[s].out \in Nat /\ sch[s].out <= sch[s].budget
          /\ Left(sch)[s] = sch[s].budget - sch[s].out
      BY <1>1, RowFields DEF Escrowed, Left
    <3>2. n \in Nat /\ p \in Nat
      <4>1. sch[s] \in SchemeRow
        BY <1>1, RowFields
      <4> QED
        BY <1>1, <4>1, DueIsPending, PrizeType
    <3>3. CASE DueOf(gch, s) = {} \/ sch[s].grades = <<>>
      <4>1. n = 0 \/ p = 0
        BY <3>3, FS_EmptySet DEF Prize
      <4> HIDE DEF n, p
      <4>2. n * p = 0
        BY <3>2, <4>1
      <4> QED
        BY <3>1, <4>2 DEF n, p
    <3>4. CASE DueOf(gch, s) # {} /\ sch[s].grades # <<>>
      <4>1. PayableIn(sch[s], gch, s)
        BY <1>3 DEF Payable
      <4>2. CanPay(sch[s], 1, n) /\ p = sch[s].grades[1].reward
        BY <3>4, <4>1 DEF PayableIn, Prize
      <4>3. sch[s].out + n * p <= sch[s].budget
        BY <4>2 DEF CanPay
      <4> DEFINE np == n * p
      <4>4. np \in Nat
        <5> HIDE DEF n, p
        <5> QED
          BY <3>2
      <4>5. sch[s].out + np <= sch[s].budget
        BY <4>3
      <4> HIDE DEF np
      <4>6. np <= Left(sch)[s]
        BY <3>1, <4>4, <4>5
      <4> QED
        BY <4>6 DEF np
    <3> QED
      BY <3>3, <3>4
  <2>5. \A s \in Scheme : due[s] <= Left(sch)[s]
    BY <2>4
  <2> HIDE DEF due
  <2>6. Prizes(sch, gch, Due(gch)) <= bnk[Self]
    BY <2>2, <2>3, <2>5, Facts, TotalMono
  <2> QED
    BY <2>1, <2>6 DEF CanResolve
<1> QED
  BY <1>2, <1>3 DEF Payable

\* The deferred resolve is set for each pending gacha.
Watched(alarm, gch) ==
    \A id \in Id : gch[id].there /\ gch[id].deadline # Unset =>
        alarm # None /\ alarm <= gch[id].deadline

AInv == GInv /\ (Watched(deferred, gacha) \/ ~Payable(scheme, gacha))

LEMMA HeadWatches ==
  ASSUME NEW gch \in Queue
  PROVE  Watched(HeadTime(gch), gch)
<1> DEFINE times == {gch[id].deadline : id \in {i \in Id : gch[i].there}}
<1>1. times \in SUBSET Nat
  BY WaitingFields
<1>2. HeadTime(gch) = IF times = {} THEN None ELSE CHOOSE x \in times : \A y \in times : x <= y
  BY DEF HeadTime
<1>3. ASSUME NEW id \in Id, gch[id].there
      PROVE  HeadTime(gch) # None /\ HeadTime(gch) <= gch[id].deadline
  <2>1. gch[id].deadline \in times
    BY <1>3
  <2> HIDE DEF times
  <2>2. \E x \in times : \A y \in times : x <= y
    BY <1>1, <2>1, LeastNatural
  <2>3. HeadTime(gch) \in times /\ \A y \in times : HeadTime(gch) <= y
    BY <1>2, <2>1, <2>2
  <2>4. HeadTime(gch) \in Nat
    BY <1>1, <2>3
  <2> QED
    BY <2>1, <2>3, <2>4 DEF None
<1> QED
  BY <1>3 DEF Watched

\* Every refresh sets it.
LEMMA RefreshWatches ==
  ASSUME GInv', NEW sch, NEW gch, NEW bnk, RefreshSchedule(sch, gch, bnk)
  PROVE  AInv'
<1>1. deferred' = HeadTime(gacha')
  BY DEF RefreshSchedule
<1>2. gacha' \in Queue
  BY DEF GInv, Tables
<1> QED
  BY <1>1, <1>2, HeadWatches DEF AInv

\* The steps between two refreshes: the same gachas are pending, and what is due
\* of them is no easier to pay.
LEMMA UnpaidStays ==
  ASSUME AInv, GInv', deferred' = deferred,
         \A id \in Id : gacha'[id].there /\ gacha'[id].deadline # Unset
                           => gacha'[id] = gacha[id],
         Payable(scheme, gacha)' => Payable(scheme, gacha)
  PROVE  AInv'
<1>1. Watched(deferred, gacha) => Watched(deferred', gacha')
  BY DEF Watched
<1> QED
  BY <1>1 DEF AInv

\* What decides of a scheme whether it can pay.
LEMMA SamePayable ==
  ASSUME NEW row, NEW new, new.open = row.open, new.grades = row.grades,
         new.out = row.out, new.budget = row.budget, NEW gch, NEW s,
         PayableIn(new, gch, s)
  PROVE  PayableIn(row, gch, s)
  BY DEF PayableIn, CanPay

\* The rows of other schemes stay, and s has nothing due.
LEMMA OthersStay ==
  ASSUME AInv, GInv', NEW s \in Scheme, PendingIn(gacha, s) = {},
         gacha' = gacha, deferred' = deferred, now' = now,
         \A x \in Scheme \ {s} : scheme'[x] = scheme[x]
  PROVE  AInv'
<1>1. gacha \in Queue /\ now \in 0 .. MaxTime
  BY DEF AInv, GInv, Tables
<1>2. DueOf(gacha, s) = {}
  BY <1>1, DueIsPending
<1>3. \A x \in Scheme : DueOf(gacha, x)' = DueOf(gacha, x)
  BY DEF DueOf, Due
<1>4. ASSUME Payable(scheme, gacha)', NEW x \in Scheme
      PROVE  PayableIn(scheme[x], gacha, x)
  <2>1. PayableIn(scheme[x], gacha, x)'
    BY <1>4 DEF Payable
  <2>2. CASE x = s
    BY <1>2, <2>2 DEF PayableIn
  <2>3. CASE x # s
    <3>1. scheme'[x] = scheme[x] /\ DueOf(gacha, x)' = DueOf(gacha, x)
      BY <1>3, <2>3
    <3> QED
      BY <2>1, <3>1 DEF PayableIn, CanPay
  <2> QED
    BY <2>2, <2>3
<1>5. Payable(scheme, gacha)' => Payable(scheme, gacha)
  BY <1>4 DEF Payable
<1> QED
  BY <1>5, UnpaidStays

LEMMA OpenWatched ==
  ASSUME AInv, GInv', NEW s \in Scheme, NEW offer, NEW auth, Open(s, offer, auth)
  PROVE  AInv'
<1>1. scheme \in Sheet /\ Counted(scheme, gacha)
  BY DEF AInv, GInv, Tables
<1>2. /\ ~scheme[s].open /\ gacha' = gacha /\ deferred' = deferred /\ now' = now
      /\ \A x \in Scheme \ {s} : scheme'[x] = scheme[x]
  BY <1>1 DEF Open, Sheet
<1>3. PendingIn(gacha, s) = {}
  BY <1>1, <1>2 DEF Counted, CountedIn
<1> QED
  BY <1>2, <1>3, OthersStay

\* A scheme closes only with its count at zero, and so with nothing pending.
LEMMA CloseWatched ==
  ASSUME AInv, GInv', NEW s \in Scheme, NEW auth, Close(s, auth)
  PROVE  AInv'
<1>1. scheme \in Sheet /\ Counted(scheme, gacha)
  BY DEF AInv, GInv, Tables
<1>2. /\ scheme[s].unresolved = 0 /\ gacha' = gacha /\ deferred' = deferred /\ now' = now
      /\ \A x \in Scheme \ {s} : scheme'[x] = scheme[x]
  BY <1>1 DEF Close, Settled, Sheet
<1>3. PendingIn(gacha, s) = {}
  <2>1. Cardinality(PendingIn(gacha, s)) <= 0
    BY <1>1, <1>2 DEF Counted, CountedIn
  <2>2. PendingIn(gacha, s) \in SUBSET Id
    BY DEF PendingIn
  <2>3. Cardinality(PendingIn(gacha, s)) \in Nat /\ IsFiniteSet(PendingIn(gacha, s))
    BY <2>2, Subsets
  <2>4. Cardinality(PendingIn(gacha, s)) = 0
    BY <2>1, <2>3
  <2> QED
    BY <2>3, <2>4, FS_EmptySet
<1> QED
  BY <1>2, <1>3, OthersStay

\* A gacha that is issued has no deadline yet.
LEMMA IssueWatched ==
  ASSUME AInv, GInv', NEW to, NEW s \in Scheme, NEW id \in Id, NEW auth,
         Issue(to, s, id, auth)
  PROVE  AInv'
<1>1. scheme \in Sheet /\ gacha \in Queue /\ now \in 0 .. MaxTime
  BY DEF AInv, GInv, Tables
<1>2. /\ ~gacha[id].there /\ deferred' = deferred /\ now' = now
      /\ gacha' = [gacha EXCEPT ![id] =
            [there |-> TRUE, owner |-> to, scheme |-> s, seeded |-> FALSE,
             deadline |-> Unset]]
      /\ scheme' = [scheme EXCEPT ![s].issued = @ + 1]
  BY DEF Issue
<1>3. \A x \in Id : gacha'[x] = IF x = id THEN [there |-> TRUE, owner |-> to, scheme |-> s,
                                               seeded |-> FALSE, deadline |-> Unset]
                                ELSE gacha[x]
  BY <1>1, <1>2 DEF Queue
<1>4. Due(gacha)' = Due(gacha)
  BY <1>1, <1>2, <1>3, Facts DEF Due
<1>5. \A x \in Scheme : DueOf(gacha, x)' = DueOf(gacha, x)
  BY <1>2, <1>3, <1>4 DEF DueOf, Due
<1>6. ASSUME Payable(scheme, gacha)', NEW x \in Scheme
      PROVE  PayableIn(scheme[x], gacha, x)
  <2>1. PayableIn(scheme[x], gacha, x)'
    BY <1>6 DEF Payable
  <2>2. /\ scheme'[x].open = scheme[x].open /\ scheme'[x].grades = scheme[x].grades
        /\ scheme'[x].out = scheme[x].out /\ scheme'[x].budget = scheme[x].budget
    BY <1>1, <1>2 DEF Sheet, SchemeRow
  <2>3. DueOf(gacha, x)' = DueOf(gacha, x)
    BY <1>5
  <2> QED
    BY <2>1, <2>2, <2>3 DEF PayableIn, CanPay
<1>7. Payable(scheme, gacha)' => Payable(scheme, gacha)
  BY <1>6 DEF Payable
<1>8. \A x \in Id : gacha'[x].there /\ gacha'[x].deadline # Unset => gacha'[x] = gacha[x]
  BY <1>3
<1> QED
  BY <1>2, <1>7, <1>8, UnpaidStays

\* Time only adds to what is due.
LEMMA TickWatched ==
  ASSUME AInv, GInv', Tick
  PROVE  AInv'
<1>1. scheme \in Sheet /\ gacha \in Queue /\ now \in 0 .. MaxTime
  BY DEF AInv, GInv, Tables
<1>2. scheme' = scheme /\ gacha' = gacha /\ deferred' = deferred /\ now' = now + 1
  BY DEF Tick
<1>3. ASSUME NEW x \in Scheme
      PROVE  /\ DueOf(gacha, x) \subseteq DueOf(gacha, x)'
             /\ Cardinality(DueOf(gacha, x)) \in Nat
             /\ Cardinality(DueOf(gacha, x)') \in Nat
             /\ Cardinality(DueOf(gacha, x)) <= Cardinality(DueOf(gacha, x)')
  <2>1. \A id \in Id : gacha[id].there => gacha[id].deadline \in Nat
    BY <1>1, WaitingFields
  <2>2. DueOf(gacha, x) \subseteq DueOf(gacha, x)'
    BY <1>1, <1>2, <2>1, Facts DEF DueOf, Due
  <2>3. DueOf(gacha, x)' \in SUBSET Id /\ DueOf(gacha, x) \in SUBSET Id
    BY DEF DueOf, Due
  <2> QED
    BY <2>2, <2>3, Subsets, FS_Subset
<1>4. ASSUME Payable(scheme, gacha)', NEW x \in Scheme
      PROVE  PayableIn(scheme[x], gacha, x)
  <2> DEFINE n == Cardinality(DueOf(gacha, x))
             m == Cardinality(DueOf(gacha, x)')
             row == scheme[x]
             r == row.grades[1].reward
  <2> SUFFICES ASSUME DueOf(gacha, x) # {}
               PROVE  row.open /\ (row.grades # <<>> => CanPay(row, 1, n))
    BY DEF PayableIn
  <2>1. row.open /\ (row.grades # <<>> => CanPay(row, 1, m))
    <3>1. PayableIn(scheme[x], gacha, x)' /\ scheme'[x] = row
      BY <1>2, <1>4 DEF Payable
    <3>2. DueOf(gacha, x)' # {}
      BY <1>3
    <3> QED
      BY <3>1, <3>2 DEF PayableIn, CanPay
  <2>2. ASSUME row.grades # <<>> PROVE CanPay(row, 1, n)
    <3>1. r > 0 /\ row.out + m * r <= row.budget
      BY <2>1, <2>2 DEF CanPay
    <3>2. r \in Nat /\ row.out \in Nat /\ row.budget \in Nat
      <4>1. row \in SchemeRow
        BY <1>1 DEF Sheet
      <4>2. Prize(row) \in Nat /\ Prize(row) = r
        BY <2>2, <4>1, PrizeType DEF Prize
      <4> QED
        BY <4>1, <4>2 DEF SchemeRow
    <3>3. n \in Nat /\ m \in Nat /\ n <= m
      BY <1>3
    <3> HIDE DEF n, m, r, row
    <3>4. n * r <= m * r /\ n * r \in Nat /\ m * r \in Nat
      BY <3>2, <3>3
    <3>5. row.out + n * r <= row.budget
      BY <3>1, <3>2, <3>4
    <3> QED
      BY <3>1, <3>5 DEF CanPay, r
  <2> QED
    BY <2>1, <2>2
<1>5. Payable(scheme, gacha)' => Payable(scheme, gacha)
  BY <1>4 DEF Payable
<1>6. \A id \in Id : gacha'[id].there /\ gacha'[id].deadline # Unset => gacha'[id] = gacha[id]
  BY <1>2
<1> QED
  BY <1>2, <1>5, <1>6, UnpaidStays

LEMMA NextAInv == AInv /\ [Next]_vars => AInv'
<1> SUFFICES ASSUME AInv, [Next]_vars PROVE AInv'
  OBVIOUS
<1>1. GInv /\ GInv'
  BY GInvNext DEF AInv
<1>2. ASSUME NEW auth \in AuthSets, Call(auth)
      PROVE  AInv'
  <2>1. ASSUME NEW id \in Id, NEW zero \in ZeroSeeds, SetOSeed(id, zero, auth)
        PROVE  AInv'
    BY <1>1, <2>1, RefreshWatches DEF SetOSeed
  <2>2. ASSUME NEW id \in Id, NEW score \in Scores, SetDSeed(id, score, auth)
        PROVE  AInv'
    <3>1. \E sch, gch, bnk : RefreshSchedule(sch, gch, bnk)
      BY <2>2 DEF SetDSeed
    <3> QED
      BY <1>1, <3>1, RefreshWatches
  <2>3. ASSUME Resolve(auth) PROVE AInv'
    BY <1>1, <2>3, RefreshWatches DEF Resolve
  <2> QED
    BY <1>1, <1>2, <2>1, <2>2, <2>3, OpenWatched, CloseWatched, IssueWatched DEF Call
<1>3. CASE RunDeferred
  BY <1>1, <1>3, RefreshWatches DEF RunDeferred, Resolve
<1>4. CASE DropDeferred
  <2>1. ~CanResolve(scheme, gacha, bank)
    BY <1>4 DEF DropDeferred
  <2>2. ~Payable(scheme, gacha)
    BY <1>1, <2>1, PayableResolves DEF GInv
  <2>3. ~Payable(scheme, gacha)'
    <3>1. scheme' = scheme /\ gacha' = gacha /\ now' = now
      BY <1>4 DEF DropDeferred
    <3> QED
      BY <2>2, <3>1 DEF Payable, PayableIn, CanPay, DueOf, Due
  <2> QED
    BY <1>1, <2>3 DEF AInv
<1>5. CASE Tick
  BY <1>1, <1>5, TickWatched
<1>6. CASE UNCHANGED vars
  <2>1. scheme' = scheme /\ gacha' = gacha /\ now' = now /\ deferred' = deferred
    BY <1>6 DEF vars
  <2>2. Payable(scheme, gacha)' => Payable(scheme, gacha)
    BY <2>1 DEF Payable, PayableIn, CanPay, DueOf, Due
  <2> QED
    BY <1>1, <2>1, <2>2, UnpaidStays
<1> QED
  BY <1>2, <1>3, <1>4, <1>5, <1>6 DEF Next, FireDeferred

LEMMA InitAInv == Init => AInv
<1> SUFFICES ASSUME Init PROVE AInv
  OBVIOUS
<1>1. GInv
  BY InitGInv
<1>2. \A id \in Id : ~gacha[id].there
  BY Facts DEF Init
<1> QED
  BY <1>1, <1>2 DEF AInv, Watched

LEMMA AInvAlarm == AInv => AlarmSet
<1> SUFFICES ASSUME AInv PROVE AlarmSet
  OBVIOUS
<1>1. CASE Watched(deferred, gacha)
  BY <1>1 DEF AlarmSet, Pending, Watched
<1>2. CASE ~Payable(scheme, gacha)
  <2>1. ~CanResolve(scheme, gacha, bank)
    BY <1>2, PayableResolves DEF AInv, GInv
  <2> QED
    BY <2>1 DEF AlarmSet
<1> QED
  BY <1>1, <1>2 DEF AInv

\* A deadline that was set is watched by the deferred resolve, through every
\* seed, draw and clearing, unless some scheme cannot pay what is due.
THEOREM AlarmIsSet == Spec => []AlarmSet
  BY InitAInv, NextAInv, AInvAlarm, PTL DEF Spec

-----------------------------------------------------------------------------
(* The limits of grades.                                                    *)

\* No deadline reaches past the last time there is while the clock is within
\* its bound.
DeadlinesFit == \A offer \in Offers : MaxTime + offer.deadline_sec < Uint32

LInv == GInv /\ \A s \in Scheme : MaxTime + scheme[s].deadline_sec < Uint32

\* The overdue gachas of s, and those of them a step takes away.
OverdueOf(s) == {id \in Id : Overdue(id) /\ gacha[id].scheme = s}
LateOf(s) == {id \in Id : /\ Overdue(id) /\ ~gacha'[id].there
                          /\ gacha[id].scheme = s}

\* LimitsKept, of one grade.
Limited(s, g) ==
    LET limit == scheme[s].grades[g].limit
        was == scheme[s].out_count[g]
        is == scheme'[s].out_count[g]
        late == {id \in Id : /\ Overdue(id) /\ ~gacha'[id].there
                             /\ gacha[id].scheme = s}
    IN  limit # None /\ is > limit /\ is # was =>
           /\ g = 1
           /\ is - (IF was > limit THEN was ELSE limit) <= Cardinality(late)

AllLimited ==
    \A s \in Scheme : \A g \in DOMAIN scheme[s].out_count \cap DOMAIN scheme'[s].out_count :
        Limited(s, g)

\* What a step does to the limits and the deadlines.
LimitStep == LInv' /\ AllLimited

LEMMA FormCounts ==
  ASSUME NEW row, Form(row), NEW g \in DOMAIN row.out_count
  PROVE  /\ row.out_count[g] \in Nat /\ row.grades[g].limit \in Nat \cup {None}
         /\ g \in 1 .. Len(row.grades)
<1>1. /\ row.out_count \in Seq(Nat) /\ row.grades \in Seq(GradeRow)
      /\ Len(row.out_count) = Len(row.grades)
  BY DEF Form, SchemeRow
<1>2. g \in 1 .. Len(row.grades)
  BY <1>1, LenProperties
<1>3. row.grades[g] \in GradeRow /\ row.out_count[g] \in Nat
  BY <1>1, <1>2, ElementOfSeq
<1> QED
  BY <1>2, <1>3 DEF GradeRow

\* What n draws of grade g do to the counts.
LEMMA PaidOutCounts ==
  ASSUME NEW row, Form(row), NEW g, NEW n \in Nat
  PROVE  /\ DOMAIN PaidOut(row, g, n).out_count = DOMAIN row.out_count
         /\ \A x \in DOMAIN row.out_count :
               PaidOut(row, g, n).out_count[x] = row.out_count[x] + (IF x = g THEN n ELSE 0)
         /\ PaidOut(row, g, n).deadline_sec = row.deadline_sec
<1> DEFINE counts == [row.out_count EXCEPT ![g] = @ + n]
<1>1. row \in SchemeRow
  BY DEF Form
<1>2. PaidOut(row, g, n).out_count = counts /\ PaidOut(row, g, n).deadline_sec = row.deadline_sec
  BY <1>1 DEF PaidOut, SchemeRow
<1>3. DOMAIN counts = DOMAIN row.out_count
  OBVIOUS
<1>4. ASSUME NEW x \in DOMAIN row.out_count
      PROVE  counts[x] = row.out_count[x] + (IF x = g THEN n ELSE 0)
  <2>1. row.out_count[x] \in Nat
    BY FormCounts
  <2> QED
    BY <2>1
<1> HIDE DEF counts
<1> QED
  BY <1>2, <1>3, <1>4

\* A refresh counts what is due for the first grade, and leaves the other counts.
LEMMA RefreshCounts ==
  ASSUME NEW sch \in Sheet, NEW gch, NEW bnk, RefreshSchedule(sch, gch, bnk),
         NEW s \in Scheme, Cardinality(DueOf(gch, s)) \in Nat
  PROVE  /\ DOMAIN scheme'[s].out_count = DOMAIN sch[s].out_count
         /\ \A g \in DOMAIN sch[s].out_count :
               scheme'[s].out_count[g] = sch[s].out_count[g]
                                           + (IF g = 1 THEN Cardinality(DueOf(gch, s)) ELSE 0)
         /\ scheme'[s].deadline_sec = sch[s].deadline_sec
<1> DEFINE n == Cardinality(DueOf(gch, s))
           row == sch[s]
<1>1. scheme'[s] = IF DueOf(gch, s) # {} /\ row.grades # <<>> THEN PaidOut(row, 1, n) ELSE row
  BY DEF RefreshSchedule, Resolved
<1>2. Form(row)
  BY DEF Sheet
<1>3. CASE DueOf(gch, s) # {} /\ row.grades # <<>>
  BY <1>1, <1>2, <1>3, PaidOutCounts
<1>4. CASE DueOf(gch, s) = {}
  <2>1. n = 0
    BY <1>4, FS_EmptySet
  <2>2. \A g \in DOMAIN row.out_count : row.out_count[g] \in Nat
    BY <1>2, FormCounts
  <2> QED
    BY <1>1, <1>4, <2>1, <2>2
<1>5. CASE row.grades = <<>>
  <2>1. \A g \in DOMAIN row.out_count : FALSE
    BY <1>2, <1>5, FormCounts
  <2> QED
    BY <1>1, <1>5, <2>1
<1> QED
  BY <1>3, <1>4, <1>5

\* A refresh whose due gachas are overdue, on tables in which the draw that came
\* before it kept the limit.
LEMMA RefreshLimited ==
  ASSUME LInv, NEW sch \in Sheet, NEW gch, NEW bnk, RefreshSchedule(sch, gch, bnk),
         NEW s \in Scheme, DueOf(gch, s) \subseteq OverdueOf(s),
         DOMAIN sch[s].out_count = DOMAIN scheme[s].out_count,
         NEW g \in DOMAIN scheme[s].out_count,
         \/ sch[s].out_count[g] = scheme[s].out_count[g]
         \/ /\ sch[s].out_count[g] = scheme[s].out_count[g] + 1
            /\ \/ scheme[s].grades[g].limit = None
               \/ scheme[s].out_count[g] < scheme[s].grades[g].limit
  PROVE  Limited(s, g)
<1> DEFINE limit == scheme[s].grades[g].limit
           was == scheme[s].out_count[g]
           is == scheme'[s].out_count[g]
           n == Cardinality(DueOf(gch, s))
           late == LateOf(s)
<1>1. was \in Nat /\ limit \in Nat \cup {None}
  <2>1. Form(scheme[s])
    BY DEF LInv, GInv, Tables, Sheet
  <2> QED
    BY <2>1, FormCounts
<1>2. n \in Nat
  <2>1. DueOf(gch, s) \in SUBSET Id
    BY DEF DueOf, Due
  <2> QED
    BY <2>1, Subsets
<1>3. is = sch[s].out_count[g] + (IF g = 1 THEN n ELSE 0)
  BY <1>2, RefreshCounts
<1>4. n <= Cardinality(late) /\ Cardinality(late) \in Nat
  <2>1. DueOf(gch, s) \subseteq late
    <3>1. ASSUME NEW id \in DueOf(gch, s) PROVE ~gacha'[id].there
      BY Facts DEF RefreshSchedule, Remaining, DueOf, Due
    <3> QED
      BY <3>1 DEF OverdueOf, LateOf
  <2>2. late \in SUBSET Id
    BY DEF LateOf
  <2> HIDE DEF late
  <2> QED
    BY <2>1, <2>2, Subsets, FS_Subset
<1>5. \/ sch[s].out_count[g] = was
      \/ sch[s].out_count[g] = was + 1 /\ (limit = None \/ was < limit)
  OBVIOUS
<1> DEFINE k == sch[s].out_count[g]
<1>6. ASSUME limit # None, is > limit, is # was
      PROVE  /\ g = 1
             /\ is - (IF was > limit THEN was ELSE limit) <= Cardinality(late)
  <2> DEFINE m == Cardinality(late)
  <2>1. limit \in Nat /\ (k = was \/ (k = was + 1 /\ was < limit)) /\ m \in Nat /\ n <= m
    BY <1>1, <1>4, <1>5, <1>6
  <2>2. is = k + (IF g = 1 THEN n ELSE 0) /\ is > limit /\ is # was /\ was \in Nat /\ n \in Nat
    BY <1>1, <1>2, <1>3, <1>6
  <2> HIDE DEF limit, was, is, n, k, m
  <2>3. g = 1
    BY <2>1, <2>2
  <2>4. is - (IF was > limit THEN was ELSE limit) <= m
    BY <2>1, <2>2
  <2> QED
    BY <2>3, <2>4 DEF m
<1> QED
  BY <1>6 DEF Limited, LateOf

\* Nothing is drawn.
LEMMA CountsStay ==
  ASSUME NEW s \in Scheme, scheme'[s].out_count = scheme[s].out_count, NEW g
  PROVE  Limited(s, g)
  BY DEF Limited

LEMMA OpenLimited ==
  ASSUME DeadlinesFit, LInv, GInv', NEW s \in Scheme, NEW offer \in Offers, NEW auth,
         Open(s, offer, auth)
  PROVE  LimitStep
<1>1. scheme \in Sheet
  BY DEF LInv, GInv, Tables
<1>2. scheme' = [scheme EXCEPT ![s] =
           [open |-> TRUE, grades |-> offer.grades, budget |-> offer.budget,
            expiration |-> offer.expiration, precision |-> offer.precision,
            deadline_sec |-> offer.deadline_sec, out |-> 0,
            out_count |-> [g \in 1 .. Len(offer.grades) |-> 0],
            issued |-> 0, unresolved |-> 0]]
  BY DEF Open
<1>3. /\ scheme'[s].deadline_sec = offer.deadline_sec
      /\ scheme'[s].out_count = [g \in 1 .. Len(offer.grades) |-> 0]
      /\ \A x \in Scheme \ {s} : scheme'[x] = scheme[x]
  BY <1>1, <1>2 DEF Sheet
<1>4. \A x \in Scheme : MaxTime + scheme'[x].deadline_sec < Uint32
  BY <1>3 DEF LInv, DeadlinesFit
<1>5. ASSUME NEW x \in Scheme,
             NEW g \in DOMAIN scheme[x].out_count \cap DOMAIN scheme'[x].out_count
      PROVE  Limited(x, g)
  <2>1. CASE x # s
    BY <1>3, <2>1, CountsStay
  <2>2. CASE x = s
    <3>1. scheme'[x].out_count[g] = 0
      BY <1>3, <2>2
    <3>2. scheme[x].grades[g].limit \in Nat \cup {None}
      BY <1>1, FormCounts DEF Sheet
    <3> QED
      BY <3>1, <3>2 DEF Limited
  <2> QED
    BY <2>1, <2>2
<1> QED
  BY <1>4, <1>5 DEF LimitStep, LInv, AllLimited

LEMMA CloseLimited ==
  ASSUME LInv, GInv', NEW s \in Scheme, NEW auth, Close(s, auth)
  PROVE  LimitStep
<1>1. scheme \in Sheet
  BY DEF LInv, GInv, Tables
<1>2. scheme' = [scheme EXCEPT ![s] = NoScheme]
  BY DEF Close
<1>3. /\ scheme'[s].deadline_sec = 0 /\ DOMAIN scheme'[s].out_count = {}
      /\ \A x \in Scheme \ {s} : scheme'[x] = scheme[x]
  BY <1>1, <1>2 DEF Sheet, NoScheme
<1>4. \A x \in Scheme : MaxTime + scheme'[x].deadline_sec < Uint32
  BY <1>3, Facts DEF LInv
<1>5. ASSUME NEW x \in Scheme,
             NEW g \in DOMAIN scheme[x].out_count \cap DOMAIN scheme'[x].out_count
      PROVE  Limited(x, g)
  BY <1>3, <1>5, CountsStay
<1> QED
  BY <1>4, <1>5 DEF LimitStep, LInv, AllLimited

LEMMA SameLimited ==
  ASSUME LInv, GInv',
         \A s \in Scheme : /\ scheme'[s].out_count = scheme[s].out_count
                           /\ scheme'[s].deadline_sec = scheme[s].deadline_sec
  PROVE  LimitStep
  BY CountsStay DEF LimitStep, LInv, AllLimited

LEMMA IssueLimited ==
  ASSUME LInv, GInv', NEW to, NEW s \in Scheme, NEW id \in Id, NEW auth,
         Issue(to, s, id, auth)
  PROVE  LimitStep
<1>1. scheme \in Sheet /\ scheme' = [scheme EXCEPT ![s].issued = @ + 1]
  BY DEF LInv, GInv, Tables, Issue
<1>2. \A x \in Scheme : /\ scheme'[x].out_count = scheme[x].out_count
                        /\ scheme'[x].deadline_sec = scheme[x].deadline_sec
  BY <1>1 DEF Sheet, SchemeRow
<1> QED
  BY <1>2, SameLimited

\* A refresh of tables where at most one grade, below its limit, was drawn.
Drawn(sch) ==
    \A s \in Scheme :
        /\ DOMAIN sch[s].out_count = DOMAIN scheme[s].out_count
        /\ sch[s].deadline_sec = scheme[s].deadline_sec
        /\ \A g \in DOMAIN scheme[s].out_count :
              \/ sch[s].out_count[g] = scheme[s].out_count[g]
              \/ /\ sch[s].out_count[g] = scheme[s].out_count[g] + 1
                 /\ \/ scheme[s].grades[g].limit = None
                    \/ scheme[s].out_count[g] < scheme[s].grades[g].limit

LEMMA RefreshStepLimited ==
  ASSUME LInv, GInv', NEW sch \in Sheet, NEW gch, NEW bnk, RefreshSchedule(sch, gch, bnk),
         Drawn(sch), \A s \in Scheme : DueOf(gch, s) \subseteq OverdueOf(s)
  PROVE  LimitStep
<1>1. ASSUME NEW s \in Scheme
      PROVE  /\ MaxTime + scheme'[s].deadline_sec < Uint32
             /\ \A g \in DOMAIN scheme[s].out_count \cap DOMAIN scheme'[s].out_count :
                   Limited(s, g)
  <2>1. Cardinality(DueOf(gch, s)) \in Nat
    <3>1. DueOf(gch, s) \in SUBSET Id
      BY DEF DueOf, Due
    <3> QED
      BY <3>1, Subsets
  <2>2. scheme'[s].deadline_sec = scheme[s].deadline_sec
    BY <2>1, RefreshCounts DEF Drawn
  <2>3. ASSUME NEW g \in DOMAIN scheme[s].out_count
        PROVE  Limited(s, g)
    <3>1. /\ DOMAIN sch[s].out_count = DOMAIN scheme[s].out_count
          /\ \/ sch[s].out_count[g] = scheme[s].out_count[g]
             \/ /\ sch[s].out_count[g] = scheme[s].out_count[g] + 1
                /\ \/ scheme[s].grades[g].limit = None
                   \/ scheme[s].out_count[g] < scheme[s].grades[g].limit
      BY DEF Drawn
    <3> QED
      BY <3>1, RefreshLimited
  <2> QED
    BY <2>2, <2>3 DEF LInv
<1> QED
  BY <1>1 DEF LimitStep, LInv, AllLimited

LEMMA DueOverdue ==
  ASSUME NEW s \in Scheme
  PROVE  DueOf(gacha, s) \subseteq OverdueOf(s)
  BY DEF DueOf, Due, OverdueOf, Overdue

LEMMA ResolveLimited ==
  ASSUME LInv, GInv', NEW auth, Resolve(auth)
  PROVE  LimitStep
<1>1. scheme \in Sheet /\ RefreshSchedule(scheme, gacha, bank)
  BY DEF LInv, GInv, Tables, Resolve
<1>2. Drawn(scheme)
  BY DEF Drawn
<1> QED
  BY <1>1, <1>2, DueOverdue, RefreshStepLimited

\* The deadline set is due at once only if the scheme gives no time at all.
LEMMA SetOSeedLimited ==
  ASSUME LInv, GInv', NEW id \in Id, NEW zero \in ZeroSeeds, NEW auth,
         SetOSeed(id, zero, auth)
  PROVE  LimitStep
<1> DEFINE s == gacha[id].scheme
           at == (now + scheme[s].deadline_sec) % Uint32
           sch == [scheme EXCEPT ![s].unresolved = (@ + 1) % Uint32]
           gch == [gacha EXCEPT ![id].seeded = ~zero, ![id].deadline = at]
<1>1. /\ gacha[id].there /\ at <= MaxTime /\ scheme[s].unresolved < MaxSeeds
      /\ RefreshSchedule(sch, gch, bank)
  BY DEF SetOSeed, Horizon
<1>2. scheme \in Sheet /\ gacha \in Queue /\ Counted(scheme, gacha) /\ now \in 0 .. MaxTime
  BY DEF LInv, GInv, Tables
<1>3. gacha[id] \in Waiting /\ s \in Scheme
  BY <1>1, <1>2, WaitingFields
<1>4. at = now + scheme[s].deadline_sec /\ scheme[s].deadline_sec \in Nat
  <2>1. scheme[s].deadline_sec \in Nat
    BY <1>2, <1>3, RowFields
  <2> DEFINE n == now + scheme[s].deadline_sec
  <2>2. n \in Nat /\ n < Uint32
    <3>1. MaxTime + scheme[s].deadline_sec < Uint32
      BY <1>3 DEF LInv
    <3> HIDE DEF s
    <3> QED
      BY <1>2, <2>1, <3>1, Facts
  <2>3. \A x \in Nat, w \in Nat : x < w => x % w = x
    BY SMT
  <2>4. at = n % Uint32
    OBVIOUS
  <2> HIDE DEF n, at
  <2>5. at = n
    BY <2>2, <2>3, <2>4, Facts
  <2> QED
    BY <2>1, <2>5 DEF n
<1>5. /\ gch[id].scheme = s /\ gch[id].deadline = at
      /\ \A x \in Id \ {id} : gch[x] = gacha[x]
  BY <1>2, <1>3 DEF Queue, Waiting
<1> HIDE DEF gch, at
<1>6. ASSUME NEW x \in Scheme
      PROVE  DueOf(gch, x) \subseteq OverdueOf(x)
  <2> SUFFICES ASSUME NEW i \in DueOf(gch, x)
               PROVE  i \in OverdueOf(x)
    OBVIOUS
  <2>1. i \in Id /\ gch[i].there /\ gch[i].deadline <= now /\ gch[i].scheme = x
    BY DEF DueOf, Due
  <2>2. CASE i = id
    <3>1. scheme[s].deadline_sec = 0
      <4>1. now + scheme[s].deadline_sec <= now
        BY <1>4, <1>5, <2>1, <2>2
      <4> QED
        BY <1>2, <1>4, <4>1, Facts
    <3> QED
      BY <1>1, <1>5, <2>1, <2>2, <3>1 DEF OverdueOf, Overdue
  <2>3. CASE i # id
    BY <1>5, <2>1, <2>3 DEF OverdueOf, Overdue
  <2> QED
    BY <2>2, <2>3
<1> HIDE DEF s
<1>7. sch \in Sheet /\ Drawn(sch)
  <2> DEFINE more == (scheme[s].unresolved + 1) % Uint32
             row == [scheme[s] EXCEPT !.unresolved = more]
  <2>1. Form(scheme[s]) /\ scheme[s] \in SchemeRow /\ scheme[s].unresolved \in Nat
    BY <1>2, <1>3, RowFields
  <2>2. more \in 0 .. Uint32 - 1
    <3>1. scheme[s].unresolved + 1 \in Nat
      BY <2>1
    <3> QED
      BY <3>1, Facts
  <2>3. sch = [scheme EXCEPT ![s] = row]
    BY <1>2, <1>3 DEF Sheet
  <2> HIDE DEF more
  <2>4. /\ Form(row) /\ row \in SchemeRow /\ row.out_count = scheme[s].out_count
        /\ row.deadline_sec = scheme[s].deadline_sec
    BY <2>1, <2>2 DEF Form, SchemeRow
  <2> HIDE DEF row
  <2>5. \A x \in Scheme : sch[x] = IF x = s THEN row ELSE scheme[x]
    BY <1>2, <2>3 DEF Sheet
  <2>6. sch \in [Scheme -> SchemeRow]
    BY <1>2, <2>3, <2>4 DEF Sheet
  <2> HIDE DEF sch
  <2> QED
    BY <1>2, <2>4, <2>5, <2>6 DEF Sheet, Drawn
<1> HIDE DEF sch
<1> QED
  BY <1>1, <1>6, <1>7, RefreshStepLimited

\* The grade drawn is one whose limit is not reached.
LEMMA SetDSeedLimited ==
  ASSUME LInv, GInv', NEW id \in Id, NEW score \in Scores, NEW auth, SetDSeed(id, score, auth)
  PROVE  LimitStep
<1> DEFINE s == gacha[id].scheme
           row == scheme[s]
           winnable == Winnable(row, score)
           g == CHOOSE x \in winnable : \A y \in winnable : x <= y
           erased == Remaining(gacha, {id})
           paid == PaidOut(row, g, 1)
           sch == [scheme EXCEPT ![s] = paid]
<1>1. /\ scheme \in Sheet /\ gacha \in Queue /\ Counted(scheme, gacha) /\ gacha[id].there
      /\ GInv
  BY DEF LInv, GInv, Tables, SetDSeed
<1>2. s \in Scheme
  BY <1>1, WaitingFields
<1>3. ASSUME NEW x \in Scheme
      PROVE  DueOf(erased, x) \subseteq OverdueOf(x)
  BY Facts DEF DueOf, Due, Remaining, OverdueOf, Overdue
<1>4. CASE winnable = {}
  <2>1. RefreshSchedule(scheme, erased, bank)
    BY <1>4 DEF SetDSeed
  <2>2. Drawn(scheme)
    BY DEF Drawn
  <2> HIDE DEF erased
  <2> QED
    BY <1>1, <1>3, <2>1, <2>2, RefreshStepLimited
<1>5. CASE winnable # {}
  <2>1. PICK bnk : RefreshSchedule(sch, erased, bnk)
    <3>1. sch = [scheme EXCEPT ![s] = PaidOut(@, g, 1)]
      BY <1>1, <1>2 DEF Sheet
    <3> QED
      BY <1>5, <3>1 DEF SetDSeed
  <2> HIDE DEF s, erased
  <2>2. Form(row)
    BY <1>1, <1>2 DEF Sheet
  <2>3. g \in winnable
    <3>1. row.grades \in Seq(GradeRow)
      BY <2>2 DEF Form, SchemeRow
    <3>2. winnable \in SUBSET Nat
      BY <3>1, LenProperties DEF Winnable
    <3> HIDE DEF winnable
    <3>3. \E x \in winnable : \A y \in winnable : x <= y
      BY <1>5, <3>2, LeastNatural
    <3> QED
      BY <3>3
  <2>4. /\ g \in 1 .. Len(row.grades)
        /\ row.grades[g].limit = None \/ row.out_count[g] < row.grades[g].limit
    BY <2>3 DEF Winnable
  <2> HIDE DEF g, winnable
  <2>5. sch \in Sheet
    <3>1. Form(paid)
      <4>1. 1 <= row.unresolved
        <5>1. id \in PendingIn(gacha, s)
          BY <1>1 DEF SetDSeed, Queue, PendingIn, s
        <5>2. PendingIn(gacha, s) \in SUBSET Id
          BY DEF PendingIn
        <5>3. Cardinality(PendingIn(gacha, s)) \in Nat /\ Cardinality(PendingIn(gacha, s)) # 0
          BY <5>1, <5>2, Subsets, FS_EmptySet
        <5>4. Cardinality(PendingIn(gacha, s)) <= row.unresolved /\ row.unresolved \in Nat
          BY <1>1, <1>2, RowFields DEF CountedIn
        <5> QED
          BY <5>3, <5>4
      <4> DEFINE n == 1
      <4>2. n \in Nat /\ n <= row.unresolved
        BY <4>1
      <4> HIDE DEF n
      <4>3. Form(PaidOut(row, g, n))
        BY <2>2, <2>4, <4>2, PaidOutForm
      <4> QED
        BY <4>3 DEF n
    <3> HIDE DEF paid
    <3>2. \A x \in Scheme : Form(sch[x])
      BY <1>1, <1>2, <3>1 DEF Sheet
    <3>3. sch \in [Scheme -> SchemeRow]
      BY <1>1, <3>1 DEF Sheet, Form
    <3> HIDE DEF sch
    <3> QED
      BY <3>2, <3>3 DEF Sheet
  <2>6. Drawn(sch)
    <3>1. /\ DOMAIN paid.out_count = DOMAIN row.out_count
          /\ \A x \in DOMAIN row.out_count :
                paid.out_count[x] = row.out_count[x] + (IF x = g THEN 1 ELSE 0)
          /\ paid.deadline_sec = row.deadline_sec
      BY <2>2, PaidOutCounts
    <3>2. \A x \in Scheme : sch[x] = IF x = s THEN paid ELSE scheme[x]
      BY <1>1 DEF Sheet
    <3>3. \A x \in DOMAIN row.out_count : row.out_count[x] \in Nat
      BY <2>2, FormCounts
    <3> HIDE DEF paid, sch, g
    <3>4. ASSUME NEW x \in DOMAIN scheme[s].out_count
          PROVE  \/ sch[s].out_count[x] = scheme[s].out_count[x]
                 \/ /\ sch[s].out_count[x] = scheme[s].out_count[x] + 1
                    /\ \/ scheme[s].grades[x].limit = None
                       \/ scheme[s].out_count[x] < scheme[s].grades[x].limit
      <4>1. sch[s].out_count[x] = scheme[s].out_count[x] + (IF x = g THEN 1 ELSE 0)
        BY <1>2, <3>1, <3>2
      <4>2. CASE x = g
        BY <2>4, <4>1, <4>2
      <4>3. CASE x # g
        BY <3>3, <4>1, <4>3
      <4> QED
        BY <4>2, <4>3
    <3>5. /\ DOMAIN sch[s].out_count = DOMAIN scheme[s].out_count
          /\ sch[s].deadline_sec = scheme[s].deadline_sec
      BY <1>2, <3>1, <3>2
    <3>6. \A x \in Scheme : x # s => sch[x] = scheme[x]
      BY <3>2
    <3> QED
      BY <3>4, <3>5, <3>6 DEF Drawn
  <2> HIDE DEF sch
  <2> QED
    BY <1>1, <1>3, <2>1, <2>5, <2>6, RefreshStepLimited
<1> QED
  BY <1>4, <1>5

LEMMA NextLimited == DeadlinesFit /\ LInv /\ [Next]_vars => LimitStep
<1> SUFFICES ASSUME DeadlinesFit, LInv, [Next]_vars PROVE LimitStep
  OBVIOUS
<1>1. GInv'
  BY GInvNext DEF LInv
<1>2. ASSUME NEW auth \in AuthSets, Call(auth)
      PROVE  LimitStep
  BY <1>1, <1>2, OpenLimited, CloseLimited, IssueLimited, SetOSeedLimited, SetDSeedLimited,
     ResolveLimited DEF Call
<1>3. CASE RunDeferred
  BY <1>1, <1>3, ResolveLimited DEF RunDeferred
<1>4. CASE DropDeferred
  BY <1>1, <1>4, SameLimited DEF DropDeferred
<1>5. CASE Tick
  BY <1>1, <1>5, SameLimited DEF Tick
<1>6. CASE UNCHANGED vars
  BY <1>1, <1>6, SameLimited DEF vars
<1> QED
  BY <1>2, <1>3, <1>4, <1>5, <1>6 DEF Next, FireDeferred

LEMMA InitLInv == DeadlinesFit /\ Init => LInv
<1> SUFFICES ASSUME Init PROVE LInv
  OBVIOUS
<1>1. \A s \in Scheme : scheme[s].deadline_sec = 0
  BY DEF Init, NoScheme
<1> QED
  BY <1>1, InitGInv, Facts DEF LInv

\* While no deadline reaches past the last time there is, a grade is given
\* beyond its limit only as the first grade, and no more often than overdue
\* gachas go: a revealed score never draws a grade that is used up.
THEOREM LimitsAreKept ==
  ASSUME DeadlinesFit
  PROVE  Spec => LimitsKept
<1>1. Init => LInv
  BY InitLInv
<1>2. LInv /\ [Next]_vars => LInv'
  BY NextLimited DEF LimitStep
<1>3. LInv /\ [Next]_vars =>
        [\A s \in Scheme : \A g \in DOMAIN scheme[s].out_count \cap DOMAIN scheme'[s].out_count :
         LET limit == scheme[s].grades[g].limit
             was == scheme[s].out_count[g]
             is == scheme'[s].out_count[g]
             late == {id \in Id : /\ Overdue(id) /\ ~gacha'[id].there
                                  /\ gacha[id].scheme = s}
         IN  limit # None /\ is > limit /\ is # was =>
                /\ g = 1
                /\ is - (IF was > limit THEN was ELSE limit) <= Cardinality(late)]_vars
  BY NextLimited DEF LimitStep, AllLimited, Limited
<1> QED
  BY <1>1, <1>2, <1>3, PTL DEF Spec, LimitsKept
=============================================================================
