--------------------------- MODULE MCLDGPartition ---------------------------
(***************************************************************************)
(* Four nodes in sectors of two, repartitioned into pages of two (all),    *)
(* which have no room to spare, or three (graph_only, graph_replica).      *)
(***************************************************************************)
EXTENDS LDGPartition
CONSTANTS a, b
Four == [nd |-> 4, C |-> 2,
         sectors |-> <<<<<<1, 3>>, <<0, 2>>>>, <<<<3>>, <<2, 0>>>>>>]
Job(m, s, k, l, c) == [mode |-> m, scale |-> s, ldg_times |-> k, lock_nums |-> l, cut |-> c]
\* No replication, with and without locked nodes and a cut graph; every node
\* replicated; some nodes replicated.
AllJobs == {Job("all", 1, 1, 0, 9), Job("all", 1, 2, 0, 1), Job("all", 1, 2, 1, 9),
            Job("graph_only", 1, 1, 0, 9), Job("graph_replica", 0, 1, 0, 9),
            Job("emb_only", 2, 1, 0, 9)}
\* No frequencies; the nodes by frequency; a file of another graph.
Ordered == [list |-> <<3, 1, 0, 2>>,
            nei |-> <<<<<<3, 7>>>>, <<<<2, 5>>, <<0, 9>>>>, <<>>, <<<<0, 2>>>>>>]
Alien == [Ordered EXCEPT !.nei[3] = <<<<1, 1>>>>]
Freqs == {NoFreq, Ordered, Alien}
=============================================================================
