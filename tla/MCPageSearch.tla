---------------------------- MODULE MCPageSearch ----------------------------
(***************************************************************************)
(* Instances of PageSearch: seven nodes on four pages, three of them       *)
(* shared.  As load_mem_graph and load_mem_emb leave them, the caches hold *)
(* the first ids: the graph both nodes of two pages and the vectors one    *)
(* node of them, so that the refinement reads a page for two candidates,   *)
(* and one that holds a node it has evaluated.                             *)
(***************************************************************************)
EXTENDS PageSearch
NodeIds == 0..6
FourPages == <<<<4, 5>>, <<1, 2>>, <<0, 3>>, <<6>>>>
Adjacency == [n \in NodeIds |->
  CASE n = 0 -> <<2>>    [] n = 1 -> <<4, 0, 3>> [] n = 2 -> <<5, 0>>
    [] n = 3 -> <<5, 2>> [] n = 4 -> <<6>> [] n = 5 -> <<1>> [] n = 6 -> <<4, 3>>]
\* The medoid, or an answer of the in-memory index.
Starts == {<<4>>, <<5, 6>>}
\* Orders of the nodes around a query.
Orders == {d \in [NodeIds -> 1..7] : \A m, n \in NodeIds : d[m] = d[n] => m = n}
ManyPq == {d \in Orders : d[1] < d[2] /\ d[0] < d[3]}
SomePq == {d \in ManyPq : d[4] = 3 /\ d[5] = 1}
\* Without the filter, and with the ratio of the scripts; and a ratio above one
\* with as many results as candidates.
Unfiltered == [k_search |-> 4, filter |-> 1000, emb |-> 4, pq |-> ManyPq]
Filtering == [k_search |-> 2, filter |-> 9, emb |-> 8, pq |-> SomePq]
Calls == {Unfiltered, Filtering}
AllWanted == {[Unfiltered EXCEPT !.filter = 12]}
\* Exact distances that agree with nothing in particular.
Exact == {[n \in NodeIds |-> <<2, 7, 10, 5, 1, 4, 8>>[n + 1]]}
=============================================================================
