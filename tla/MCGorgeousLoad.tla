--------------------------- MODULE MCGorgeousLoad ---------------------------
(***************************************************************************)
(* Five nodes, on pages of two in both files, buffers for two reads, two    *)
(* threads; caches of no, some and all nodes.                              *)
(***************************************************************************)
EXTENDS GorgeousLoad
NodeIds == 0..4
Layout == (0 :> <<3, 0>>) @@ (1 :> <<1>>) @@ (2 :> <<2, 4>>)
GraphLayout == (0 :> <<4, 2>>) @@ (1 :> <<1>>) @@ (2 :> <<3, 0>>)
Tags == {<<4, 1, 3>>, <<0, 3>>}
Program == [threads |-> 2, rep |-> FALSE, n_graph |-> 4, n_emb |-> 3, io_setup_fails |-> FALSE]
Programs == {Program,
             [Program EXCEPT !.n_graph = 2, !.rep = TRUE, !.n_emb = 5],
             [Program EXCEPT !.n_graph = 5, !.n_emb = 0],
             [Program EXCEPT !.n_graph = 0, !.n_emb = 4, !.io_setup_fails = TRUE]}
=============================================================================
