------------------------------ MODULE MCRateLimiter ------------------------------
(***************************************************************************)
(* An instance of RateLimiter for TLC.                                     *)
(***************************************************************************)
EXTENDS RateLimiter, TLC

MCLength == Minute :> 2 @@ Day :> 5
MCLimit == Minute :> 1 @@ Day :> 2

Anyone == Permutations(Requests)
================================================================================
