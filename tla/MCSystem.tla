------------------------------ MODULE MCSystem ------------------------------
(* Instances of System for TLC.                                             *)
EXTENDS System, TLC

CONSTANTS gxc, gxr, gxt,            \* system, reserve and token contract
          ann, bob, gxy,            \* creators, a short name
          longname, gxcram,         \* a long name, the account of the system
          N1, N2, T1

Resources(ram, net) == [ram |-> ram, net |-> net, cpu |-> 0]

MCIssuer == [t \in Token |-> gxy]
MCFunds == [a \in Account |-> IF a = ann THEN 2 ELSE 0]
MCSigners == {{gxc}, {gxr}, {ann}, {gxc, bob}, {gxy}}
MCLimits == {Resources(0, 0), Resources(0, 1), Unlimited}
=============================================================================
