---------------------------- MODULE MCThreadPool ----------------------------
(***************************************************************************)
(* Instances of ThreadPool for TLC.  setup_thread_data builds the pool with *)
(* the default start_core 0 and every call uses the default width -1; the   *)
(* other widths are what n_parallel admits.                                 *)
(***************************************************************************)
EXTENDS ThreadPool

AllWidths == (-1)..NThreads
=============================================================================
