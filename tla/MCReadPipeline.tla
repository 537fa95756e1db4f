--------------------------- MODULE MCReadPipeline ---------------------------
(***************************************************************************)
(* Instances of ReadPipeline.  The ring is scaled down with the beam; the  *)
(* program's values are MAX_N_SECTOR_READS = 1024 and a beam of 8.         *)
(***************************************************************************)
EXTENDS ReadPipeline
\* io_limit defaults to the largest unsigned: no traversal reaches it.
Unlimited == MaxCandidates + 1
\* page_search dispatches while n_proc_in_q < beam_width / 2,
PageSearchBelow == BeamWidth \div 2
\* page_search_dup_graph while n_proc_in_q <= beam_width / 2, and counts the
\* cached nodes of a round apart from the others.
DupGraphBelow == (BeamWidth \div 2) + 1
DupGraphShare == BeamWidth - 1
=============================================================================
