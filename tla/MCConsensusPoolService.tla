----------------------- MODULE MCConsensusPoolService -----------------------
(***************************************************************************)
(* TLC instances of ConsensusPoolService.  Stakes of 40, 20 and 40 percent *)
(* reach every threshold exactly (20, 40, 60 and 80 percent), and miss     *)
(* each one by the least amount.                                           *)
(***************************************************************************)
EXTENDS ConsensusPoolService

CONSTANTS v1, v2, v3

MCStakeOf == [v \in Validator |-> IF v = v2 THEN 1 ELSE 2]
\* Fallback votes for one of the two blocks are enough.
MCVotes ==
    {v \in Vote : v.type # "Genesis" /\ ~(v.type = "NotarizeFallback" /\ v.id = 2)}
\* A second certified block in slot 1; no finalization in slot 3, only fast
\* finalization in slot 4.
MCCertificates ==
    {c \in Certificate : /\ c.type # "Genesis"
                         /\ c.id = 2 => c.slot = 1 /\ c.type # "FinalizeFast"
                         /\ c.slot = 3 => c.type \in {"Notarize", "Skip"}
                         /\ c.slot = 4 => c.type = "FinalizeFast"}
MCFewCertificates == {c \in Certificate : c.type \notin {"Genesis", "NotarizeFallback"}}
=============================================================================
