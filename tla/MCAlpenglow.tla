----------------------------- MODULE MCAlpenglow -----------------------------
(***************************************************************************)
(* TLC instance of Alpenglow: four correct validators with 30, 20, 16 and  *)
(* 15 percent of the stake, and a faulty one with 19 percent.              *)
(***************************************************************************)
EXTENDS Alpenglow, FiniteSetsExt, TLC

CONSTANTS A, B, C, D, F

MCStakeOf == A :> 30 @@ B :> 20 @@ C :> 16 @@ D :> 15 @@ F :> 19
MCStake == [S \in SUBSET {A, B, C, D, F} |-> MapThenSumSet(LAMBDA v : MCStakeOf[v], S)]
=============================================================================
