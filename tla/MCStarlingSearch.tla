-------------------------- MODULE MCStarlingSearch --------------------------
(***************************************************************************)
(* Six nodes on three pages, stored in another order by id; programs with  *)
(* each search, with caches and without, with few contexts, and a beam     *)
(* that is refused.                                                        *)
(***************************************************************************)
EXTENDS StarlingSearch
CONSTANTS a, b, c
NodeIds == 0..5
Layout == (0 :> <<3, 0>>) @@ (1 :> <<1, 5>>) @@ (2 :> <<2, 4>>)
Adjacency == [n \in NodeIds |->
  CASE n = 0 -> <<2, 1>> [] n = 1 -> <<4, 0>> [] n = 2 -> <<3, 0>>
    [] n = 3 -> <<5, 2>> [] n = 4 -> <<1, 3>> [] n = 5 -> <<2, 4>>]
Start == <<4>>
Program == [threads |-> 2, page |-> TRUE, beam |-> 2, io_limit |-> 99, num |-> 1, den |-> 1,
            k |-> 2, cache |-> "search", to_cache |-> 0, io_setup |-> TRUE]
Programs == {Program,
             [Program EXCEPT !.den = 2, !.threads = 1],
             [Program EXCEPT !.cache = "sample", !.to_cache = 2, !.threads = 1],
             [Program EXCEPT !.page = FALSE],
             [Program EXCEPT !.page = FALSE, !.cache = "bfs", !.to_cache = 4, !.threads = 1],
             [Program EXCEPT !.io_setup = FALSE],
             [Program EXCEPT !.beam = 3, !.threads = 1]}
\* Queries: the nodes around them by PQ distance, and by exact distance.
Order(s) == [n \in NodeIds |-> s[n + 1]]
TwoQueries == {[pq |-> Order(<<2, 4, 1, 3, 6, 5>>), exact |-> Order(<<1, 2, 3, 6, 5, 4>>)],
               [pq |-> Order(<<6, 2, 4, 5, 3, 1>>), exact |-> Order(<<5, 3, 1, 2, 6, 4>>)]}
=============================================================================
