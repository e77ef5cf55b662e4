------------------------------- MODULE MCHtlc -------------------------------
(* Instances of Htlc for TLC.                                               *)
EXTENDS Htlc, TLC

CONSTANTS gxh, gxv, ann, bob,   \* the contract, the vault, a sender, a recipient
          T1, eth, A, B, key1, key2

MCIssuer == [t \in Token |-> ann]
MCFunds == [a \in Account |-> IF a = ann THEN 2 ELSE 0]
MCSigners == {{gxv}, {ann}, {bob}}
=============================================================================
