-------------------------- MODULE MCParallelImages --------------------------
(* Three workers share four images: a worker may take two, one, or none.    *)
EXTENDS ParallelImages
=============================================================================
