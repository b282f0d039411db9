--------------------------- MODULE MCVerifyServer ---------------------------
(* Small instances of VerifyServer for TLC. *)
EXTENDS VerifyServer, TLC

CONSTANTS t1, t2, free, pro, owner, j1, j2, j3

\* Metered tiers, scaled down so that two requests meet every limit: on free the
\* second one is over the daily quota, and over the concurrency once midnight has
\* renewed the quota; on pro it is admitted in parallel.
MCRpm == [x \in Tiers |-> 2]
MCScans == [x \in Tiers |-> IF x = free THEN 1 ELSE 3]
MCSandbox == [x \in Tiers |-> IF x = free THEN 1 ELSE 2]
MCConcurrency == [x \in Tiers |-> IF x = free THEN 1 ELSE 2]
MCGpu == [x \in Tiers |-> IF x = free THEN 0 ELSE 1]

FreeOrPro == {t1} \X {free, pro}
OwnerOnly == {<<t1, owner>>}

Symmetry == Permutations(Jobs)
============================================================================
