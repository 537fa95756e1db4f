---------------------------- MODULE MCDiskBuild ----------------------------
(***************************************************************************)
(* Three base files, of five points, of four, and of six, which are more   *)
(* than are sampled; programs that build in one shot, in three and in five *)
(* shards, for both metrics, and those that are refused or fail.  The      *)
(* places are multiples of 60, so that every mean is a whole number.       *)
(***************************************************************************)
EXTENDS DiskBuild
Line == [big |-> <<180, 0, 720, 60, 420>>, small |-> <<180, 120, 540, 300>>,
         wide |-> <<180, 0, 720, 60, 420, 600>>]
Program == [data |-> "big", metric |-> "l2", dim |-> 5, pq_code |-> 2, disk_pq |-> 0,
            pq_only |-> FALSE, R |-> 3, ram |-> 100]
Calls == {Program,
          [Program EXCEPT !.R = 4, !.metric = "ip"],
          [Program EXCEPT !.ram = 36],
          [Program EXCEPT !.data = "small", !.ram = 20],
          [Program EXCEPT !.pq_code = 3, !.pq_only = TRUE],
          [Program EXCEPT !.pq_code = 0, !.pq_only = TRUE, !.dim = 3],
          [Program EXCEPT !.disk_pq = 2],
          [Program EXCEPT !.data = "wide", !.ram = 41],
          [Program EXCEPT !.ram = 0],
          [Program EXCEPT !.dim = 14, !.pq_code = 4]}
PickOrders == {<<3, 5, 2, 1, 6, 4>>}
Samplings == {{0, 1, 2, 3, 5}, {0, 2, 3, 4}}
Orders == {[n \in 0..5 |-> (2 * n) % 7]}
=============================================================================
