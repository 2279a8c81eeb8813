---------------------------- MODULE MCDictionary ----------------------------
(* Instances of Dictionary: keys that collide, and a table that can fill. *)
EXTENDS Dictionary, TLC

CONSTANTS k1, k2, k3, k4

(* k1 and k2 have the last slot of a table of three for their home. *)
MCHash == k1 :> 2 @@ k2 :> 5 @@ k3 :> 3 @@ k4 :> 1
=============================================================================
