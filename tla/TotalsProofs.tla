---------------------------- MODULE TotalsProofs ----------------------------
(***************************************************************************)
(* What a change of one holding does to the total of Totals, how totals    *)
(* add up and are counted by groups, and the least element of a set of     *)
(* naturals.                                                               *)
(***************************************************************************)
EXTENDS Totals, FiniteSetTheorems, NaturalsInduction, WellFoundedInduction, TLAPS

\* The coins of one owner are as many as its holding.
LEMMA CoinsOfOwner ==
  ASSUME NEW o, NEW n \in Nat
  PROVE  /\ IsFiniteSet({o} \X (1 .. n))
         /\ Cardinality({o} \X (1 .. n)) = n
<1>1. IsFiniteSet(1 .. n) /\ Cardinality(1 .. n) = n
  BY FS_Interval
<1>2. IsFiniteSet({o}) /\ Cardinality({o}) = 1
  BY FS_Singleton
<1>3. IsFiniteSet({o} \X (1 .. n)) /\ Cardinality({o} \X (1 .. n)) = 1 * n
  BY <1>1, <1>2, FS_Product
<1> QED
  BY <1>3

\* Finitely many owners hold finitely many coins.
LEMMA CoinsFinite ==
  ASSUME NEW S, IsFiniteSet(S), NEW f \in [S -> Nat]
  PROVE  IsFiniteSet(Coins(f)) /\ Total(f) \in Nat
<1> DEFINE purse == [o \in S |-> {o} \X (1 .. f[o])]
           purses == {purse[o] : o \in S}
<1>1. purse \in Surjection(S, purses)
  BY DEF Surjection
<1>2. IsFiniteSet(purses)
  BY <1>1, FS_Surjection
<1>3. \A p \in purses : IsFiniteSet(p)
  <2>1. \A o \in S : IsFiniteSet({o} \X (1 .. f[o]))
    BY CoinsOfOwner
  <2> QED
    BY <2>1, Zenon
<1>4. IsFiniteSet(UNION purses)
  BY <1>2, <1>3, FS_UNION
<1>5. Coins(f) = UNION purses
  BY DEF Coins
<1> QED
  BY <1>4, <1>5, FS_CardinalityType DEF Total

\* The total is the holding of one owner and the coins of the others.
LEMMA TotalSplit ==
  ASSUME NEW S, IsFiniteSet(S), NEW f \in [S -> Nat], NEW o \in S
  PROVE  LET others == UNION {{x} \X (1 .. f[x]) : x \in S \ {o}}
         IN  /\ IsFiniteSet(others)
             /\ Total(f) = Cardinality(others) + f[o]
<1> DEFINE others == UNION {{x} \X (1 .. f[x]) : x \in S \ {o}}
           own == {o} \X (1 .. f[o])
<1>1. IsFiniteSet(Coins(f))
  BY CoinsFinite
<1>2. Coins(f) = others \cup own
  BY DEF Coins
<1>3. others \cap own = {}
  OBVIOUS
<1>4. IsFiniteSet(others)
  <2>1. others \in SUBSET Coins(f)
    BY <1>2
  <2> QED
    BY <1>1, <2>1, FS_Subset
<1>5. IsFiniteSet(own) /\ Cardinality(own) = f[o]
  BY CoinsOfOwner
<1>6. Cardinality(others \cup own) = Cardinality(others) + Cardinality(own)
  <2>1. Cardinality(others \cap own) = 0
    BY <1>3, FS_EmptySet
  <2>2. Cardinality(others) \in Nat /\ Cardinality(own) \in Nat
    BY <1>4, <1>5, FS_CardinalityType
  <2>3. Cardinality(others \cup own)
          = Cardinality(others) + Cardinality(own) - Cardinality(others \cap own)
    BY <1>4, <1>5, FS_Union
  <2> HIDE DEF others, own
  <2> QED
    BY <2>1, <2>2, <2>3
<1> HIDE DEF others, own
<1>7. Total(f) = Cardinality(others) + f[o]
  BY <1>2, <1>5, <1>6 DEF Total
<1> QED
  BY <1>4, <1>7 DEF others

\* Changing one holding changes the total by the same amount.
THEOREM TotalUpdate ==
  ASSUME NEW S, IsFiniteSet(S), NEW f \in [S -> Nat], NEW g \in [S -> Nat],
         NEW o \in S, \A x \in S \ {o} : g[x] = f[x]
  PROVE  Total(g) = Total(f) - f[o] + g[o]
<1> DEFINE othersF == UNION {{x} \X (1 .. f[x]) : x \in S \ {o}}
           othersG == UNION {{x} \X (1 .. g[x]) : x \in S \ {o}}
<1>1. othersF = othersG
  OBVIOUS
<1>2. IsFiniteSet(othersF) /\ Total(f) = Cardinality(othersF) + f[o]
  BY TotalSplit
<1>3. Total(g) = Cardinality(othersG) + g[o]
  BY TotalSplit
<1>4. Cardinality(othersF) \in Nat
  BY <1>2, FS_CardinalityType
<1> HIDE DEF othersF, othersG
<1> QED
  BY <1>1, <1>2, <1>3, <1>4

\* Nobody holds more than the total.
THEOREM TotalBounds ==
  ASSUME NEW S, IsFiniteSet(S), NEW f \in [S -> Nat], NEW o \in S
  PROVE  Total(f) \in Nat /\ f[o] <= Total(f)
<1> DEFINE others == UNION {{x} \X (1 .. f[x]) : x \in S \ {o}}
<1>1. IsFiniteSet(others) /\ Total(f) = Cardinality(others) + f[o]
  BY TotalSplit
<1>2. Cardinality(others) \in Nat
  BY <1>1, FS_CardinalityType
<1> HIDE DEF others
<1> QED
  BY <1>1, <1>2

\* Nothing held is a total of zero.
THEOREM TotalZero ==
  ASSUME NEW S, NEW f \in [S -> Nat], \A x \in S : f[x] = 0
  PROVE  Total(f) = 0
<1>1. Coins(f) = {}
  BY DEF Coins
<1> QED
  BY <1>1, FS_EmptySet DEF Total

\* The total of amounts that are the sizes of groups is the size of all the
\* groups, if no two of them meet.
THEOREM TotalGroups ==
  ASSUME NEW S, IsFiniteSet(S), NEW f \in [S -> Nat], NEW group,
         \A s \in S : IsFiniteSet(group[s]) /\ Cardinality(group[s]) = f[s],
         \A s \in S : \A t \in S : s # t => group[s] \cap group[t] = {}
  PROVE  Cardinality(UNION {group[s] : s \in S}) = Total(f)
<1> DEFINE all == UNION {group[s] : s \in S}
           count == [s \in S |-> CHOOSE b : b \in Bijection(1 .. f[s], group[s])]
           deal == [c \in Coins(f) |-> count[c[1]][c[2]]]
<1>1. \A s \in S : count[s] \in Bijection(1 .. f[s], group[s])
  <2> TAKE s \in S
  <2>1. ExistsBijection(1 .. f[s], group[s])
    BY FS_CardinalityType
  <2> QED
    BY <2>1 DEF ExistsBijection
<1> HIDE DEF count
<1>2. \A c \in Coins(f) : c[1] \in S /\ c[2] \in 1 .. f[c[1]] /\ c = <<c[1], c[2]>>
  BY DEF Coins
<1>3. \A s \in S : \A k \in 1 .. f[s] : <<s, k>> \in Coins(f)
  BY DEF Coins
<1>4. \A s \in S : /\ \A k \in 1 .. f[s] : count[s][k] \in group[s]
                   /\ \A k, m \in 1 .. f[s] : count[s][k] = count[s][m] => k = m
                   /\ \A e \in group[s] : \E k \in 1 .. f[s] : count[s][k] = e
  BY <1>1 DEF Bijection, Injection, Surjection, IsInjective
<1>5. deal \in [Coins(f) -> all]
  BY <1>2, <1>4
<1>6. \A c, d \in Coins(f) : deal[c] = deal[d] => c = d
  <2> SUFFICES ASSUME NEW c \in Coins(f), NEW d \in Coins(f), deal[c] = deal[d]
               PROVE  c = d
    OBVIOUS
  <2>1. count[c[1]][c[2]] \in group[c[1]] /\ count[d[1]][d[2]] \in group[d[1]]
    BY <1>2, <1>4
  <2>2. count[c[1]][c[2]] = count[d[1]][d[2]]
    OBVIOUS
  <2>3. c[1] = d[1]
    BY <1>2, <2>1, <2>2
  <2>4. c[2] = d[2]
    BY <1>2, <1>4, <2>2, <2>3
  <2> QED
    BY <1>2, <2>3, <2>4
<1>7. \A e \in all : \E c \in Coins(f) : deal[c] = e
  <2> TAKE e \in all
  <2>1. PICK s \in S : e \in group[s]
    OBVIOUS
  <2>2. PICK k \in 1 .. f[s] : count[s][k] = e
    BY <1>4, <2>1
  <2>3. <<s, k>> \in Coins(f) /\ <<s, k>>[1] = s /\ <<s, k>>[2] = k
    BY <1>3
  <2> QED
    BY <2>2, <2>3
<1> HIDE DEF deal, all
<1>8. deal \in Bijection(Coins(f), all)
  BY <1>5, <1>6, <1>7 DEF Bijection, Injection, Surjection, IsInjective
<1>9. IsFiniteSet(Coins(f))
  BY CoinsFinite
<1>10. Cardinality(all) = Cardinality(Coins(f))
  BY <1>8, <1>9, FS_Bijection DEF ExistsBijection
<1> QED
  BY <1>10 DEF Total, all

\* Totals add up.
THEOREM TotalSum ==
  ASSUME NEW S, IsFiniteSet(S), NEW f \in [S -> Nat], NEW g \in [S -> Nat],
         NEW h \in [S -> Nat], \A s \in S : f[s] = g[s] + h[s]
  PROVE  Total(f) = Total(g) + Total(h)
<1> DEFINE left(s) == {1} \X ({s} \X (1 .. g[s]))
           right(s) == {2} \X ({s} \X (1 .. h[s]))
           group == [s \in S |-> left(s) \cup right(s)]
           lefts == {1} \X Coins(g)
           rights == {2} \X Coins(h)
<1>1. \A s \in S : IsFiniteSet(group[s]) /\ Cardinality(group[s]) = f[s]
  <2> TAKE s \in S
  <2>1. /\ IsFiniteSet({s} \X (1 .. g[s])) /\ Cardinality({s} \X (1 .. g[s])) = g[s]
        /\ IsFiniteSet({s} \X (1 .. h[s])) /\ Cardinality({s} \X (1 .. h[s])) = h[s]
    BY CoinsOfOwner
  <2>2. /\ IsFiniteSet({1}) /\ Cardinality({1}) = 1 /\ IsFiniteSet({2}) /\ Cardinality({2}) = 1
    BY FS_Singleton
  <2>3. IsFiniteSet(left(s)) /\ Cardinality(left(s)) = 1 * g[s]
    BY <2>1, <2>2, FS_Product
  <2>4. IsFiniteSet(right(s)) /\ Cardinality(right(s)) = 1 * h[s]
    BY <2>1, <2>2, FS_Product
  <2>5. left(s) \cap right(s) = {}
    OBVIOUS
  <2>6. Cardinality(left(s) \cap right(s)) = 0
    BY <2>5, FS_EmptySet
  <2>7. group[s] = left(s) \cup right(s)
    OBVIOUS
  <2> HIDE DEF left, right, group
  <2>8. /\ IsFiniteSet(left(s) \cup right(s))
        /\ Cardinality(left(s) \cup right(s))
             = Cardinality(left(s)) + Cardinality(right(s)) - Cardinality(left(s) \cap right(s))
    BY <2>3, <2>4, FS_Union
  <2> QED
    BY <2>3, <2>4, <2>6, <2>7, <2>8
<1>2. \A s \in S : \A t \in S : s # t => group[s] \cap group[t] = {}
  OBVIOUS
<1>3. UNION {group[s] : s \in S} = lefts \cup rights
  <2>1. lefts = UNION {left(s) : s \in S}
    BY DEF Coins
  <2>2. rights = UNION {right(s) : s \in S}
    BY DEF Coins
  <2>3. \A s \in S : group[s] = left(s) \cup right(s)
    OBVIOUS
  <2> HIDE DEF left, right, group, lefts, rights
  <2> QED
    BY <2>1, <2>2, <2>3
<1>4. Cardinality(lefts \cup rights) = Total(f)
  <2> HIDE DEF group
  <2>1. Cardinality(UNION {group[s] : s \in S}) = Total(f)
    BY <1>1, <1>2, TotalGroups
  <2> QED
    BY <1>3, <2>1
<1>5. IsFiniteSet(lefts) /\ Cardinality(lefts) = 1 * Total(g)
  <2>1. IsFiniteSet({1}) /\ Cardinality({1}) = 1
    BY FS_Singleton
  <2>2. IsFiniteSet(Coins(g))
    BY CoinsFinite
  <2> QED
    BY <2>1, <2>2, FS_Product DEF Total
<1>6. IsFiniteSet(rights) /\ Cardinality(rights) = 1 * Total(h)
  <2>1. IsFiniteSet({2}) /\ Cardinality({2}) = 1
    BY FS_Singleton
  <2>2. IsFiniteSet(Coins(h))
    BY CoinsFinite
  <2> QED
    BY <2>1, <2>2, FS_Product DEF Total
<1>7. lefts \cap rights = {}
  OBVIOUS
<1>8. Total(g) \in Nat /\ Total(h) \in Nat
  BY CoinsFinite
<1> HIDE DEF lefts, rights
<1>9. Cardinality(lefts \cap rights) = 0
  BY <1>7, FS_EmptySet
<1>10. Cardinality(lefts \cup rights)
         = Cardinality(lefts) + Cardinality(rights) - Cardinality(lefts \cap rights)
  BY <1>5, <1>6, FS_Union
<1> QED
  BY <1>4, <1>5, <1>6, <1>8, <1>9, <1>10

\* A nonempty set of natural numbers has a least element: the induction over
\* the naturals that needs no operator parameter.
THEOREM LeastNatural ==
  ASSUME NEW S \in SUBSET Nat, S # {}
  PROVE  \E n \in S : \A m \in S : n <= m
<1> DEFINE less == {p \in Nat \X Nat : p[1] < p[2]}
<1>1. OpToRel(<, Nat) = less
  BY Zenon DEF OpToRel
<1>2. IsWellFoundedOn(OpToRel(<, Nat), Nat)
  BY NatLessThanWellFounded, Zenon
<1>3. IsWellFoundedOn(less, Nat)
  BY <1>1, <1>2, Zenon
<1>4. PICK n \in S : \A m \in S : <<m, n>> \notin less
  <2> HIDE DEF less
  <2> QED
    BY <1>3, WFMin, Zenon
<1>5. ASSUME NEW m \in S
      PROVE  n <= m
  <2>1. m \in Nat /\ n \in Nat
    OBVIOUS
  <2>2. <<m, n>> \in Nat \X Nat /\ <<m, n>>[1] = m /\ <<m, n>>[2] = n
    BY <2>1
  <2>3. ~ (m < n)
    BY <1>4, <2>2
  <2> QED
    BY <2>1, <2>3
<1> QED
  BY <1>5
=============================================================================
