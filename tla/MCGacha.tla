------------------------------ MODULE MCGacha ------------------------------
(* Instances of Gacha for TLC.                                              *)
EXTENDS Gacha, TLC

CONSTANTS gxg, pub, ann,    \* the contract, a partner, a player
          S1, S2, G1, G2    \* schemes and gachas

Grade(reward, score, limit) == [reward |-> reward, score |-> score, limit |-> limit]
Offer(grades, budget, precision) ==
    [grades |-> grades, budget |-> budget, precision |-> precision,
     expiration |-> 1, deadline_sec |-> 1]

MCCreator == [s \in Scheme |-> pub]
MCSigners == {{pub}, {ann}, {gxg}}
MCFunds == [a \in Account |-> IF a = pub THEN 5 ELSE 0]

\* core: a first grade that may be given once and a second one, with a budget
\* that two first grades exceed, and a scheme of another budget whose only
\* grade may be given once, though there is enough for two
MCOffers ==
    {Offer(<<Grade(2, 1, 1), Grade(1, 0, None)>>, 3, 1),
     Offer(<<Grade(1, 1, 1)>>, 2, 1)}
MCBits == {0, 1}

\* one grade, which a score of zero misses
MCLone == {Offer(<<Grade(1, 1, None)>>, 2, 1)}

\* a budget that one reward uses up
MCSpent == {Offer(<<Grade(1, 0, None)>>, 1, 1)}
=============================================================================
