------------------------------ MODULE MCBancor ------------------------------
(* Instances of Bancor for TLC.                                             *)
EXTENDS Bancor, TLC

CONSTANTS gxc, gxt, gxr, gxb,   \* the contracts: system, token, reserve, bancor
          pub, adm, ann,        \* the issuer, the administrator, a trader
          T1, N1

MCIssuer == [t \in Token |-> pub]
MCFunds == [a \in Account |-> CASE a = ann -> 4 [] a = pub -> 2 [] a = adm -> 2 [] OTHER -> 0]
MCSigners == {{gxt}, {gxr}, {gxb}, {pub}, {adm}, {ann}}
MCPolicies == {[rate |-> 5000, fixed |-> 0]}
MCAmounts == {-1, 1, 3}
MCScales == {Same, [up |-> 2, down |-> 1], [up |-> 1, down |-> 2]}
=============================================================================
