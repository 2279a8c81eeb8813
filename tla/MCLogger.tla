------------------------------ MODULE MCLogger ------------------------------
(***************************************************************************)
(* Instances of Logger: a wrapper that logs next to one that never does,   *)
(* at LOG_LEVEL INFO or WARNING.                                           *)
(***************************************************************************)
EXTENDS Logger, TLC

CONSTANTS w1, w2

MCWrappers == {w1, w2}
MCLevels == {20, 30}
MCMaxCalls == w1 :> 3 @@ w2 :> 0
=============================================================================
