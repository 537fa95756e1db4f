-------------------------- MODULE MCDupGraphSearch --------------------------
(***************************************************************************)
(* Instances of DupGraphSearch: seven nodes, each page with the neighbours *)
(* of up to two others, as light_graph_replicated_partition fills it (from *)
(* the neighbours of the node, or theirs, repetitions included).           *)
(***************************************************************************)
EXTENDS DupGraphSearch
NodeIds == 0..6
Adjacency == [n \in NodeIds |->
  CASE n = 0 -> <<2>>    [] n = 1 -> <<4, 0, 3>> [] n = 2 -> <<5, 6>>
    [] n = 3 -> <<5, 2>> [] n = 4 -> <<6, 1>> [] n = 5 -> <<1>> [] n = 6 -> <<4, 3>>]
Copies == [n \in NodeIds |->
  CASE n = 0 -> <<0, 2, 5>> [] n = 1 -> <<1, 3, 4>> [] n = 2 -> <<2, 5, 6>>
    [] n = 3 -> <<3, 5, 1>> [] n = 4 -> <<4, 6, 6>> [] n = 5 -> <<5, 1, 3>>
    [] n = 6 -> <<6, 5, 1>>]
\* The medoid, or an answer of the in-memory index.
Starts == {<<4>>, <<5, 6>>}
\* Orders of the nodes around a query.
Orders == {d \in [NodeIds -> 1..7] : \A m, n \in NodeIds : d[m] = d[n] => m = n}
SomePq == {d \in Orders : d[1] < d[2] /\ d[0] < d[3]}
\* Exact distances that agree with nothing in particular.
Exact == {[n \in NodeIds |-> <<2, 7, 10, 5, 1, 4, 8>>[n + 1]]}
=============================================================================
