---------------------------- MODULE LDGPartition ----------------------------
(***************************************************************************)
(* The graph partitioner (graph_partition/include/partitioner.h), which    *)
(* decides which nodes share a page.  It loads a disk index, may order it  *)
(* by a frequency file, fills the partitions along the graph and then runs *)
(* rounds of streaming partitioning (LDG) in which OpenMP threads move     *)
(* every node to the partition with most of its neighbours.  free_q holds  *)
(* the partitions that have room, for nodes whose neighbours are all in    *)
(* full ones; its pop blocks.  With scale 0 every node gets a partition of *)
(* its own filled with copies of its surroundings.  With a scale that      *)
(* gives only some nodes one the program crashes before the others are     *)
(* placed.                                                                 *)
(***************************************************************************)
EXTENDS Integers, FiniteSets, SequencesExt

CONSTANTS
  Threads,       \* the OpenMP threads
  Index,         \* disk index: [nd, C: nodes per sector, sectors: neighbours of each slot]
  Jobs,          \* command lines: [mode, scale, ldg_times, lock_nums, cut]
  FreqFiles,     \* frequency files: [list, nei], NoFreq for none
  DimLen, MaxNodeLen, IdLen, \* bytes of a vector, of a node of the index, of an id
  OutLen         \* OUTPUT_SECTOR_LEN * block_size

NoFreq == [list |-> <<>>, nei |-> <<>>]
Nodes == 0..(Index.nd - 1)
INF == -1

\* load_disk_index: slot j of sector s holds node s * C + j.
SlotOf(n) == Index.sectors[(n \div Index.C) + 1][(n % Index.C) + 1]

\* Bytes of a node in the output, and how many fit a sector.
NodeLen(j) == CASE j.mode = "all" -> MaxNodeLen
                [] j.mode = "emb_only" -> DimLen
                [] OTHER -> MaxNodeLen - DimLen + IdLen
Capacity(j) == IF j.mode = "graph_replica" THEN (OutLen - DimLen) \div NodeLen(j)
               ELSE OutLen \div NodeLen(j)

\* What main makes of the options, with a scale that a page can hold.  The list
\* of a frequency file orders as many nodes as it has.
ASSUME PartitionAssumption ==
  /\ Threads # {}
  /\ Index.nd \in Nat \ {0} /\ Index.C \in Nat \ {0}
  /\ \A n \in Nodes : SlotOf(n) \in Seq(Nodes)
  /\ \A j \in Jobs : /\ j.mode \in {"all", "graph_only", "emb_only", "graph_replica"}
                     /\ {j.scale, j.ldg_times, j.lock_nums, j.cut} \subseteq Nat
                     /\ j.mode = "graph_only" => j.ldg_times = 1
                     /\ j.mode = "graph_replica" => j.scale = 0
                     /\ j.scale <= Capacity(j)
  /\ \A f \in FreqFiles :
       /\ f.list \in Seq(Nat) /\ ToSet(f.list) = 0..(Len(f.list) - 1)
       /\ f.nei \in Seq(Seq(Nodes \X Nat)) /\ Len(f.nei) = Len(f.list)
  /\ {DimLen, MaxNodeLen, IdLen, OutLen} \subseteq Nat \ {0}
  /\ DimLen < MaxNodeLen /\ MaxNodeLen + IdLen <= OutLen

VARIABLES
  job, freq,                       \* what the program was called with
  full_graph, pmutex,              \* pmutex: how many there are
  partition_number, n_primary_partition,
  partition, id2pid, filled_nodes,
  store_cnt, cur,                  \* replication: copies of a node, <<pid, i>>
  vis, fill,                       \* the initial fill: [i, j, pid, lock_nums]
  lock_pids, lock_nodes,
  round, stream, free_q,
  pc,                              \* the main thread
  th                               \* each OpenMP thread, in sync

input == <<job, freq>>
sizes == <<full_graph, pmutex, partition_number, n_primary_partition>>
layout == <<partition, id2pid>>
replication == <<filled_nodes, store_cnt, cur>>
filling == <<vis, fill>>
locks == <<lock_pids, lock_nodes>>
queues == <<round, stream, free_q>>
vars == <<input, sizes, layout, replication, filling, locks, queues, pc, th>>

CeilDiv(x, y) == (x + y - 1) \div y
Idle == [pc |-> "idle", node |-> 0, pid |-> INF, pcount |-> {}, best |-> 0]
Prefix(s, n) == SubSeq(s, 1, IF n < Len(s) THEN n ELSE Len(s))

load_disk_index == [n \in Nodes |-> SlotOf(n)]
C == Capacity(job)

\* relayout_adj: the neighbours that have a frequency first, by frequency (equal
\* ones in any order), then the others, each once, in the order of the list.  It
\* gives up on a list that has become shorter or longer.
Counted(n) == freq.nei[n + 1]
ByFrequency(n) ==
  {p \in [DOMAIN Counted(n) -> DOMAIN Counted(n)] :
     IsInjective(p) /\ \A i, j \in DOMAIN p : i < j => Counted(n)[p[i]][2] >= Counted(n)[p[j]][2]}
Others(n) ==
  {i \in DOMAIN SlotOf(n) : /\ \A x \in DOMAIN Counted(n) : Counted(n)[x][1] # SlotOf(n)[i]
                           /\ \A j \in 1..(i - 1) : SlotOf(n)[j] # SlotOf(n)[i]}
InOrder(places) ==
  {s \in [1..Cardinality(places) -> places] : \A i, j \in DOMAIN s : i < j => s[i] < s[j]}
relayout_adj(n) ==
  {[i \in DOMAIN c[1] |-> Counted(n)[c[1][i]][1]] \o [i \in DOMAIN c[2] |-> SlotOf(n)[c[2][i]]] :
     c \in ByFrequency(n) \X InOrder(Others(n))}
SameDegrees == \A n \in Nodes : Len(Counted(n)) + Cardinality(Others(n)) = Len(SlotOf(n))

\* The neighbours LDG counts: direct_graph, cut, and reverse_graph.
direct_graph == [n \in Nodes |-> Prefix(full_graph[n], job.cut)]
Neighbors(n, p) ==
  Cardinality({i \in DOMAIN direct_graph[n] : id2pid[direct_graph[n][i]] = p})
  + Cardinality({e \in Nodes \X (1..job.cut) :
                   /\ e[2] \in DOMAIN direct_graph[e[1]] /\ direct_graph[e[1]][e[2]] = n
                   /\ id2pid[e[1]] = p})

Pids == 0..(partition_number - 1)
Full(p) == Len(partition[p]) = C
-----------------------------------------------------------------------------
Init ==
  /\ job \in Jobs /\ freq \in FreqFiles
  /\ full_graph = <<>> /\ pmutex = 0 /\ partition_number = 0 /\ n_primary_partition = 0
  /\ partition = <<>> /\ id2pid = <<>>
  /\ filled_nodes = {} /\ store_cnt = [n \in Nodes |-> 0] /\ cur = <<0, 1>>
  /\ vis = {} /\ fill = [i |-> 1, j |-> 0, pid |-> 0, lock_nums |-> job.lock_nums]
  /\ lock_pids = {} /\ lock_nodes = {}
  /\ round = 0 /\ stream = {} /\ free_q = <<>>
  /\ pc = "load"
  /\ th = [t \in Threads |-> Idle]

\* The constructor: load the index, order it by the frequency file, make one
\* mutex for each partition of a layout without replication.
Load ==
  /\ pc = "load"
  /\ \/ freq = NoFreq /\ full_graph' = load_disk_index /\ pc' = "plan"
     \/ /\ freq # NoFreq /\ (Len(freq.list) # Index.nd \/ ~SameDegrees)
        /\ full_graph' = load_disk_index /\ pc' = "exit"
     \/ /\ freq # NoFreq /\ Len(freq.list) = Index.nd /\ SameDegrees
        /\ full_graph' \in {g \in [Nodes -> UNION {relayout_adj(n) : n \in Nodes}] :
                             \A n \in Nodes : g[n] \in relayout_adj(n)}
        /\ pc' = "plan"
  /\ partition_number' = CeilDiv(Index.nd, C)
  /\ pmutex' = partition_number'
  /\ UNCHANGED <<input, n_primary_partition, layout, replication, filling, locks, queues, th>>

\* graph_partition: how many partitions, and how many nodes own one.
Plan ==
  /\ pc = "plan"
  /\ LET scale == IF job.scale = 0 THEN C ELSE job.scale
         pn == IF scale = 1 THEN partition_number ELSE CeilDiv(Index.nd * scale, C)
         primary == IF scale = 1 THEN 0 ELSE (C * pn - Index.nd) \div (C - 1)
     IN  /\ partition_number' = pn
         /\ n_primary_partition' = primary
         /\ filled_nodes' = 0..(primary - 1)
         /\ partition' = [p \in 0..(pn - 1) |-> IF p < primary THEN <<p>> ELSE <<>>]
         /\ id2pid' = [n \in Nodes |-> IF n < primary THEN n ELSE INF]
         /\ store_cnt' = [n \in Nodes |-> IF n < primary THEN 1 ELSE 0]
         /\ pc' = IF scale = 1 THEN "fill"
                  ELSE IF freq # NoFreq THEN "exit" ELSE "replicate"
  /\ fill' = [fill EXCEPT !.pid = n_primary_partition']
  /\ UNCHANGED <<input, full_graph, pmutex, cur, vis, locks, queues, th>>

\* The k copies a primary partition may be extended with when its i-th node is
\* looked at: fully replicated, neighbours of its first i nodes, shuffled; else
\* neighbours of the i-th, the least copied first.
Copies(p, i, k) ==
  LET light == n_primary_partition = Index.nd
      c_nbrs == UNION {{x} \X DOMAIN full_graph[partition[p][x]] : x \in (IF light THEN 1 ELSE i)..i}
      node(c) == full_graph[partition[p][c[1]]][c[2]]
      count(c) == IF light THEN 0 ELSE store_cnt[node(c)]
      picks == {s \in UNION {[1..m -> c_nbrs] : m \in 0..k} :
                  /\ IsInjective(s) /\ (DOMAIN s = 1..k \/ ToSet(s) = c_nbrs)
                  /\ \A x, y \in DOMAIN s : x < y => count(s[x]) <= count(s[y])
                  /\ \A x \in DOMAIN s, c \in c_nbrs \ ToSet(s) : count(s[x]) <= count(c)}
  IN  {[x \in DOMAIN s |-> node(s[x])] : s \in picks}

\* light_graph_replicated_partition and scaled_graph_partition_primary: extend
\* partition after partition until it is full or its nodes are used up.  After the
\* latter partition_statistic lists the nodes of each partition: a node that owns
\* none is said to be in partition INF, which is far outside its array.
Replicate ==
  /\ pc = "replicate"
  /\ LET p == cur[1]
         i == cur[2]
     IN  IF p = n_primary_partition
           THEN /\ pc' = IF p = Index.nd THEN "save" ELSE "crashed"
                /\ UNCHANGED <<partition, store_cnt, cur>>
         ELSE IF i > Len(partition[p]) \/ Full(p)
           THEN cur' = <<p + 1, 1>> /\ UNCHANGED <<pc, partition, store_cnt>>
         ELSE \E copies \in Copies(p, i, C - Len(partition[p])) :
                /\ partition' = [partition EXCEPT ![p] = @ \o copies]
                /\ store_cnt' = [n \in Nodes |-> store_cnt[n] + Cardinality({x \in DOMAIN copies : copies[x] = n})]
                /\ cur' = <<p, i + 1>>
                /\ UNCHANGED pc
  /\ UNCHANGED <<input, sizes, id2pid, filled_nodes, filling, locks, queues, th>>

\* The initial fill, in the order of the frequencies or of the ids: fill.j is 0
\* at a node of the stream, else it is the place of its neighbour.
init_stream == IF freq # NoFreq THEN freq.list
               ELSE [i \in 1..(Index.nd - n_primary_partition) |-> n_primary_partition + i - 1]

Place(n, p) == /\ partition' = [partition EXCEPT ![p] = Append(@, n)]
               /\ id2pid' = [id2pid EXCEPT ![n] = p]
               /\ vis' = vis \cup {n}

\* On to the next node of the stream.
EndNeighbors(p) == fill' = [fill EXCEPT !.i = @ + 1, !.j = 0, !.pid = p,
                                        !.lock_nums = IF @ = 0 THEN 0 ELSE @ - 1]

\* A node of the stream goes into the current partition, or the next if that is
\* full; partitions that get one while lock_nums lasts are locked.
FillNode ==
  /\ pc = "fill" /\ fill.j = 0 /\ fill.i <= Len(init_stream)
  /\ LET n == init_stream[fill.i]
         p == IF Full(fill.pid) THEN fill.pid + 1 ELSE fill.pid
     IN  IF n \in vis
           THEN /\ fill' = [fill EXCEPT !.i = @ + 1, !.lock_nums = @ - 1]
                /\ UNCHANGED <<layout, vis, lock_pids>>
         ELSE /\ Place(n, p)
              /\ fill' = [fill EXCEPT !.j = 1, !.pid = p]
              /\ lock_pids' = IF fill.lock_nums > 0 THEN lock_pids \cup {p} ELSE lock_pids
  /\ UNCHANGED <<input, sizes, replication, lock_nodes, queues, pc, th>>

\* A neighbour goes there too, unless it has a place; one that finds the
\* partition full is left for later with those behind it.
FillNeighbor ==
  /\ pc = "fill" /\ fill.j > 0
  /\ LET nbrs == full_graph[init_stream[fill.i]]
     IN  IF fill.j > Len(nbrs)
           THEN EndNeighbors(fill.pid) /\ UNCHANGED <<layout, vis>>
         ELSE IF nbrs[fill.j] \in vis \cup filled_nodes
           THEN fill' = [fill EXCEPT !.j = @ + 1] /\ UNCHANGED <<layout, vis>>
         ELSE IF Full(fill.pid)
           THEN EndNeighbors(fill.pid + 1) /\ UNCHANGED <<layout, vis>>
         ELSE Place(nbrs[fill.j], fill.pid) /\ fill' = [fill EXCEPT !.j = @ + 1]
  /\ UNCHANGED <<input, sizes, replication, locks, queues, pc, th>>

\* The nodes of the leading locked partitions are locked.
EndFill ==
  /\ pc = "fill" /\ fill.j = 0 /\ fill.i > Len(init_stream)
  /\ LET leading == {p \in lock_pids : n_primary_partition..p \subseteq lock_pids}
     IN  lock_nodes' = UNION {ToSet(partition[p]) : p \in leading}
  /\ pc' = "round"
  /\ UNCHANGED <<input, sizes, layout, replication, filling, lock_pids, queues, th>>
-----------------------------------------------------------------------------
Unlocked == {p \in Pids : p >= n_primary_partition /\ p \notin lock_pids}

\* graph_partition_LDG: every unlocked partition is emptied and offered, in any
\* order; id2pid still says where the nodes were.
StartRound ==
  /\ pc = "round"
  /\ round < job.ldg_times
  /\ partition' = [p \in Pids |-> IF p \in Unlocked THEN <<>> ELSE partition[p]]
  /\ free_q' \in SetToSeqs(Unlocked)
  /\ stream' = n_primary_partition..(Index.nd - 1)
  /\ round' = round + 1
  /\ pc' = "ldg"
  /\ UNCHANGED <<input, sizes, id2pid, replication, filling, locks, th>>

\* Faulty: the loop does not wait for its threads.
EndRound_NoWait ==
  /\ pc = "ldg"
  /\ stream = {}
  /\ pc' = "round"
  /\ UNCHANGED <<input, sizes, layout, replication, filling, locks, queues, th>>

\* The parallel loop joins its threads.
EndRound ==
  /\ pc = "ldg"
  /\ stream = {} /\ \A t \in Threads : th[t].pc = "idle"
  /\ pc' = "round"
  /\ UNCHANGED <<input, sizes, layout, replication, filling, locks, queues, th>>

\* save_partition, after the last round or at once.
Save ==
  /\ pc = "save" \/ (pc = "round" /\ round = job.ldg_times)
  /\ pc' = "saved"
  /\ UNCHANGED <<input, sizes, layout, replication, filling, locks, queues, th>>

\* A thread goes on with its locals; main waits in the parallel loop.
Goto(t, locals) == /\ th' = [th EXCEPT ![t] = locals]
                   /\ UNCHANGED <<input, sizes, replication, filling, locks, round, pc>>

\* A thread takes a node of the shuffled stream; locked nodes stay.
TakeNode(t) ==
  /\ pc = "ldg" /\ th[t].pc = "idle"
  /\ \E n \in stream :
       /\ stream' = stream \ {n}
       /\ Goto(t, IF n \in lock_nodes THEN Idle ELSE [Idle EXCEPT !.pc = "count", !.node = n])
  /\ UNCHANGED <<layout, free_q>>

\* select_partition: count the neighbours in each partition, without a lock.
Count(t) ==
  /\ th[t].pc = "count"
  /\ LET n == th[t].node
     IN  Goto(t, [Idle EXCEPT !.pc = "score", !.node = n,
                    !.pcount = {<<p, Neighbors(n, p)>> : p \in {q \in Pids : Neighbors(n, q) > 0}}])
  /\ UNCHANGED <<layout, stream, free_q>>

\* select_partition: score the partitions one by one, each under its mutex, by
\* the room they have left.  There are only pmutex of them.
Score(t) ==
  /\ th[t].pc = "score"
  /\ \E c \in th[t].pcount :
       LET score == c[2] * (C - Len(partition[c[1]]))
           rest == [th[t] EXCEPT !.pcount = @ \ {c}]
       IN  Goto(t, IF c[1] >= pmutex THEN [Idle EXCEPT !.pc = "no_mutex"]
                   ELSE IF score > rest.best THEN [rest EXCEPT !.pid = c[1], !.best = score]
                   ELSE rest)
  /\ UNCHANGED <<layout, stream, free_q>>

\* select_partition: the best one, or else one from the queue.
Selected(t) ==
  /\ th[t].pc = "score" /\ th[t].pcount = {}
  /\ Goto(t, [th[t] EXCEPT !.pc = IF th[t].pid = INF THEN "pop" ELSE "insert",
                           !.best = 0])
  /\ UNCHANGED <<layout, stream, free_q>>

\* getUnfilled: pop, which waits while the queue is empty, ...
PopFree(t) ==
  /\ th[t].pc = "pop"
  /\ free_q # <<>>
  /\ free_q' = Tail(free_q)
  /\ Goto(t, [th[t] EXCEPT !.pc = "check", !.pid = Head(free_q)])
  /\ UNCHANGED <<layout, stream>>

\* ... and drop what has filled up.
CheckFree(t) ==
  /\ th[t].pc = "check"
  /\ Goto(t, [th[t] EXCEPT !.pc = IF Full(th[t].pid) THEN "pop" ELSE "insert"])
  /\ UNCHANGED <<layout, stream, free_q>>

\* Faulty: the partition is not looked at again under the lock.
InsertNode_Unchecked(t) ==
  /\ th[t].pc = "insert"
  /\ LET p == th[t].pid
     IN  /\ partition' = [partition EXCEPT ![p] = Append(@, th[t].node)]
         /\ id2pid' = [id2pid EXCEPT ![th[t].node] = p]
         /\ Goto(t, IF Len(partition[p]) + 1 = C THEN Idle ELSE [th[t] EXCEPT !.pc = "push"])
  /\ UNCHANGED <<stream, free_q>>

\* Faulty: a partition that has filled up is tried again.
InsertNode_Retries(t) ==
  /\ th[t].pc = "insert"
  /\ LET p == th[t].pid
     IN  IF Full(p) THEN Goto(t, th[t]) /\ UNCHANGED layout
         ELSE /\ partition' = [partition EXCEPT ![p] = Append(@, th[t].node)]
              /\ id2pid' = [id2pid EXCEPT ![th[t].node] = p]
              /\ Goto(t, IF Len(partition[p]) + 1 = C THEN Idle ELSE [th[t] EXCEPT !.pc = "push"])
  /\ UNCHANGED <<stream, free_q>>

\* sync, under the mutex of the partition: insert, or start over if it has
\* filled up since.
InsertNode(t) ==
  /\ th[t].pc = "insert"
  /\ LET p == th[t].pid
     IN  IF p >= pmutex THEN Goto(t, [Idle EXCEPT !.pc = "no_mutex"]) /\ UNCHANGED layout
         ELSE IF Full(p) THEN Goto(t, [th[t] EXCEPT !.pc = "count", !.pid = INF])
                              /\ UNCHANGED layout
         ELSE /\ partition' = [partition EXCEPT ![p] = Append(@, th[t].node)]
              /\ id2pid' = [id2pid EXCEPT ![th[t].node] = p]
              /\ Goto(t, IF Len(partition[p]) + 1 = C THEN Idle ELSE [th[t] EXCEPT !.pc = "push"])
  /\ UNCHANGED <<stream, free_q>>

\* sync, after unlocking: offer the partition (again) if it had room.
PushFree(t) ==
  /\ th[t].pc = "push"
  /\ free_q' = Append(free_q, th[t].pid)
  /\ Goto(t, Idle)
  /\ UNCHANGED <<layout, stream>>

Stopped == pc \in {"saved", "exit", "crashed"} /\ UNCHANGED vars

sync(t) == \/ TakeNode(t) \/ Count(t) \/ Score(t) \/ Selected(t) \/ PopFree(t)
           \/ CheckFree(t) \/ InsertNode(t) \/ PushFree(t)
main == \/ Load \/ Plan \/ Replicate
        \/ FillNode \/ FillNeighbor \/ EndFill
        \/ StartRound \/ EndRound \/ Save
Next == main \/ (\E t \in Threads : sync(t)) \/ Stopped

Spec == Init /\ [][Next]_vars

\* The main thread and the OpenMP threads keep being scheduled.
FairSpec == Spec /\ WF_vars(main) /\ \A t \in Threads : WF_vars(sync(t))
-----------------------------------------------------------------------------
Places == {"idle", "count", "score", "pop", "check", "insert", "push", "no_mutex"}

TypeOK ==
  /\ job \in Jobs /\ freq \in FreqFiles
  /\ pc \in {"load", "plan", "replicate", "fill", "round", "ldg", "save", "saved", "exit", "crashed"}
  /\ {pmutex, partition_number, n_primary_partition} \subseteq Nat
  /\ pc # "load" => full_graph \in [Nodes -> Seq(Nodes)]
  /\ pc \notin {"load", "plan", "exit"} =>
       /\ partition \in [Pids -> Seq(Nodes)]
       /\ id2pid \in [Nodes -> Pids \cup {INF}]
  /\ filled_nodes \subseteq Nodes /\ store_cnt \in [Nodes -> Nat] /\ cur \in Nat \X Nat
  /\ vis \subseteq Nodes
  /\ fill \in [i : Nat \ {0}, j : Nat, pid : Nat, lock_nums : Int]
  /\ lock_pids \subseteq Pids /\ lock_nodes \subseteq Nodes
  /\ round \in 0..job.ldg_times /\ stream \subseteq Nodes /\ free_q \in Seq(Pids)
  /\ th \in [Threads -> [pc : Places, node : Nodes, pid : Pids \cup {INF},
                         pcount : SUBSET (Pids \X Nat), best : Int]]

\* No partition outgrows a page, whatever two threads saw of it before they
\* inserted.
WithinCapacity == partition # <<>> => \A p \in Pids : Len(partition[p]) <= C

\* During a round a partition with room is in free_q, or a thread that will put
\* it there (or fill it) has it: nobody waits in pop for ever.
RoomOffered ==
  pc = "ldg" =>
    \A p \in Unlocked :
      \/ Full(p) \/ p \in ToSet(free_q)
      \/ \E t \in Threads : th[t].pid = p /\ th[t].pc \in {"check", "insert", "push"}

\* A thread that waits in pop finds a partition there, or another thread still
\* goes on: not everybody waits.
SomebodyGoesOn ==
  pc = "ldg" /\ (\E t \in Threads : th[t].pc = "pop") =>
    free_q # <<>> \/ \E t \in Threads : th[t].pc \notin {"idle", "pop"}

\* A thread locks a mutex that exists.
MutexExists == \A t \in Threads : th[t].pc # "no_mutex"

\* What holds throughout.
IInv == TypeOK /\ WithinCapacity /\ RoomOffered /\ SomebodyGoesOn /\ MutexExists

\* The file that is saved names for every node a partition that holds it, with
\* no more nodes than a page; without replication it holds it once, and no
\* other partition does.
Partitioned ==
  pc = "saved" =>
    /\ \A n \in Nodes : id2pid[n] \in Pids /\ n \in ToSet(partition[id2pid[n]])
    /\ job.scale = 1 =>
         \A p \in Pids : /\ IsInjective(partition[p])
                         /\ \A n \in ToSet(partition[p]) : id2pid[n] = p

\* The program ends: with the file saved, unless it gives up on the frequency
\* file, or crashes because only some nodes own a partition.
PartitioningEnds ==
  <>(\/ pc = "saved" \/ (pc = "exit" /\ freq # NoFreq)
     \/ (pc = "crashed" /\ \E n \in Nodes : id2pid[n] = INF))
=============================================================================
