----------------------------- MODULE MCBalticMesh -----------------------------
(***************************************************************************)
(* Instances of BalticMesh: three devices of which two have addresses that *)
(* differ only in the digits the mask cuts off, or two of different ids.   *)
(***************************************************************************)
EXTENDS BalticMesh, TLC

CONSTANTS n1, n2, n3

ThreeMacs == n1 :> 4 @@ n2 :> 9 @@ n3 :> 12    \* 4 and 12 agree modulo 8
TwoMacs   == n1 :> 4 @@ n2 :> 9
===============================================================================
