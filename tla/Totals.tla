------------------------------- MODULE Totals -------------------------------
(***************************************************************************)
(* The sum of an amount held per owner.  A holding of n units is the set   *)
(* of n unit coins of its owner, and the total is the number of coins, so  *)
(* that what a change of one holding does to the total follows from facts  *)
(* about finite sets alone.                                                *)
(***************************************************************************)
EXTENDS Integers, FiniteSets

Coins(f) == UNION {{o} \X (1 .. f[o]) : o \in DOMAIN f}

Total(f) == Cardinality(Coins(f))
=============================================================================
