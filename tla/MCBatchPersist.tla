--------------------------- MODULE MCBatchPersist ---------------------------
(***************************************************************************)
(* Small instances of BatchPersist.  The threshold is small and the rest   *)
(* follows: what matters is whether the queue gets full once, twice, or    *)
(* only with the records of a failed batch.                                *)
(***************************************************************************)
EXTENDS BatchPersist, TLC
=============================================================================
