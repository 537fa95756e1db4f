--------------------------- MODULE StarlingSearch ---------------------------
(***************************************************************************)
(* PQFlashIndex (src/starling): an index on disk that several threads      *)
(* search, from load to destructor.  A search takes a ThreadData (buffers  *)
(* and an I/O context) from the queue thread_data, works in rounds on a    *)
(* sorted candidate list and gives the ThreadData back.  Two searches:     *)
(*                                                                         *)
(*   page_search (page_search.cpp) reads pages of related nodes, expands   *)
(*   the node it wanted at once and the others of the page a round later;  *)
(*   cached_beam_search (pq_flash_index.cpp) reads the sector of a node,   *)
(*   nodes being stored in the order of their ids.                         *)
(*                                                                         *)
(* Distances are integers, different for different nodes of a query.       *)
(* Positions in lists count from 1, pages and ids from 0.                  *)
(***************************************************************************)
EXTENDS CandidateList

CONSTANTS
  Nodes,        \* ids, 0..num_points-1
  Nbrs,         \* adjacency of a node
  Pages,        \* gp_layout_: page -> its nodes, as the relayout tool wrote them
  PerSector,    \* nnodes_per_sector
  Medoids,      \* where a search may start (one medoid is picked)
  Queries,      \* the queries: records [pq, exact] of distances to the nodes
  Callers,      \* threads that search
  NCalls,       \* how many searches the program makes (bound)
  Options,      \* programs to look at, see opt
  MaxReads,     \* MAX_N_SECTOR_READS
  MaxRobinMap,  \* max_robin_map, cached nodes beyond it go to arrays
  CacheShare    \* at most 1 / CacheShare of the nodes are cached (10)

ASSUME StarlingAssumption ==
  /\ Nodes = 0..(Cardinality(Nodes) - 1)
  /\ \A n \in Nodes : Nbrs[n] \in Seq(Nodes) /\ IsInjective(Nbrs[n])
  /\ \A n \in Nodes : \E p \in DOMAIN Pages : n \in ToSet(Pages[p])
  /\ \A q \in Queries : IsInjective(q.pq) /\ IsInjective(q.exact)
  /\ Medoids \in Seq(Nodes) /\ Medoids # <<>>
  /\ \A o \in Options : o.k \in 1..LSearch /\ o.num <= o.den /\ o.threads \in Nat \ {0}

VARIABLES
  opt,          \* num_threads, use_page_search, beam_width, io_limit, use_ratio,
                \* k_search, how the cache is filled, num_nodes_to_cache, and
                \* whether the kernel has contexts for all threads
  phase,        \* what the program does: new, setup, centroids, sample, bfs,
                \* cache, search, gone; failed (load returned -1), exited
  ctx_map,      \* OpenMP thread -> whether io_setup gave it a context
  thread_data,  \* the queue, of the OpenMP threads the data was made for
  scratch,      \* data -> sector_scratch: slot -> page it holds
  in_flight,    \* data -> reads submitted to its context: [slot, page]
  node_list, cur_level,
  nhood_cache,  \* id -> the node whose record was cached for it
  nhood_array,  \* the same for ids below max_cached
  asked,        \* searches called
  th            \* thread -> the search it is in

vars == <<opt, phase, ctx_map, thread_data, scratch, in_flight, node_list, cur_level,
          nhood_cache, nhood_array, asked, th>>
caching == <<node_list, cur_level, nhood_cache, nhood_array>>
pool == <<ctx_map, thread_data, scratch, in_flight>>

NoNode == Cardinality(Nodes)
Idle == [pc |-> "idle"]
Min2(a, b) == IF a < b THEN a ELSE b
Slots(s) == 1..Len(s)

\* Where a node is in the index file: page search goes by the partition, the
\* others by id.
PageOf(n) == CHOOSE p \in DOMAIN Pages : n \in ToSet(Pages[p])
SectorOf(n) == IF opt.page THEN PageOf(n) ELSE n \div PerSector

\* The nodes in a sector of the file.
Stored(p) == IF opt.page THEN Pages[p]
             ELSE [i \in 1..Min2(PerSector, Cardinality(Nodes) - p * PerSector) |->
                     p * PerSector + i - 1]

\* Whose record a search takes for that of n in a buffer that holds sector p.
RecordOf(n, p) ==
  LET i == IF opt.page THEN CHOOSE j \in Slots(Pages[PageOf(n)]) : Pages[PageOf(n)][j] = n
           ELSE (n % PerSector) + 1
  IN  IF i <= Len(Stored(p)) THEN Stored(p)[i] ELSE NoNode
-----------------------------------------------------------------------------
Init ==
  /\ opt \in Options
  /\ phase = "new"
  /\ ctx_map = <<>> /\ thread_data = <<>>
  /\ scratch = [d \in 1..opt.threads |-> <<>>]
  /\ in_flight = [d \in 1..opt.threads |-> {}]
  /\ node_list = <<>> /\ cur_level = {}
  /\ nhood_cache = <<>> /\ nhood_array = <<>>
  /\ asked = 0
  /\ th = [c \in Callers |-> Idle]

\* Load; files that do not fit together are refused before anything is set up.
load ==
  /\ phase = "new"
  /\ phase' \in {"setup", "failed"}
  /\ UNCHANGED <<opt, pool, caching, asked, th>>

\* An OpenMP thread registers itself and makes a ThreadData with its context,
\* which is bad_ctx when io_setup failed.
setup_thread_data(t) ==
  /\ phase = "setup"
  /\ t \notin DOMAIN ctx_map
  /\ \E good \in {TRUE, opt.io_setup} : ctx_map' = (t :> good) @@ ctx_map
  /\ thread_data' = Append(thread_data, t)
  /\ phase' = IF Len(thread_data') = opt.threads THEN "centroids" ELSE phase
  /\ UNCHANGED <<opt, scratch, in_flight, caching, asked, th>>

\* Read with a borrowed ThreadData, and return it.
Borrow(next) ==
  /\ thread_data # <<>>
  /\ IF ctx_map[Head(thread_data)]
       THEN phase' = next /\ thread_data' = Append(Tail(thread_data), Head(thread_data))
     ELSE phase' = "exited" /\ UNCHANGED thread_data

use_medoids_data_as_centroids ==
  /\ phase = "centroids"
  /\ Borrow(opt.cache)
  /\ cur_level' = ToSet(Medoids)
  /\ UNCHANGED <<opt, ctx_map, scratch, in_flight, node_list, nhood_cache,
                 nhood_array, asked, th>>
-----------------------------------------------------------------------------
\* generate_cache_list_from_sample_queries: after the sample queries take the
\* nodes counted most often.  The counters are left out: any nodes may be.
Sampled ==
  /\ phase = "sample"
  /\ asked = NCalls /\ \A c \in Callers : th[c] = Idle
  /\ \E s \in kSubset(opt.to_cache, Nodes) : \E list \in SetToSeqs(s) : node_list' = list
  /\ phase' = "cache"
  /\ asked' = 0
  /\ UNCHANGED <<opt, pool, cur_level, nhood_cache, nhood_array, th>>

\* cache_bfs_levels: no more than a share of the nodes, rounded, but one.
ToCache ==
  LET share == (2 * Cardinality(Nodes) + CacheShare) \div (2 * CacheShare)
  IN  IF opt.to_cache <= share THEN opt.to_cache ELSE IF share = 0 THEN 1 ELSE share

LevelFits == Len(node_list) + Cardinality(cur_level) < ToCache /\ cur_level # {}

\* The neighbours of a level, read in some order, until there are enough.
NextLevel(list, order) ==
  FoldLeft(LAMBDA lvl, n :
             FoldLeft(LAMBDA l, m : IF Cardinality(l) + Len(list) >= ToCache THEN l
                                    ELSE l \cup ({m} \ ToSet(list)),
                      lvl, Nbrs[n]),
           {}, order)

CacheLevel ==
  /\ phase = "bfs"
  /\ LevelFits
  /\ \E order \in SetToSeqs(cur_level \ ToSet(node_list)) :
       /\ node_list' = node_list \o order
       /\ cur_level' = NextLevel(node_list', order)
  /\ UNCHANGED <<opt, phase, pool, nhood_cache, nhood_array, asked, th>>

CacheLastLevel ==
  /\ phase = "bfs"
  /\ ~LevelFits
  /\ LET n == Min2(ToCache - Len(node_list), Cardinality(cur_level))
     IN  \E s \in kSubset(n, cur_level) : node_list' = node_list \o SetToSeq(s)
  /\ Borrow("cache")
  /\ UNCHANGED <<opt, ctx_map, scratch, in_flight, cur_level, nhood_cache,
                 nhood_array, asked, th>>

\* Beyond max_robin_map the list is replaced by the first ids, whose records
\* are found in arrays.
load_cache_list ==
  /\ phase = "cache"
  /\ LET max_cached == IF Len(node_list) > MaxRobinMap THEN Len(node_list) - MaxRobinMap ELSE 0
         list == [i \in Slots(node_list) |->
                    IF i > MaxRobinMap THEN i - MaxRobinMap - 1 ELSE node_list[i]]
     IN  /\ node_list' = list
         /\ nhood_array' = [n \in {n \in ToSet(list) : n < max_cached} |->
                              RecordOf(n, SectorOf(n))]
         /\ nhood_cache' = [n \in {n \in ToSet(list) : n >= max_cached} |->
                              RecordOf(n, SectorOf(n))]
  /\ Borrow("search")
  /\ UNCHANGED <<opt, ctx_map, scratch, in_flight, cur_level, asked, th>>

\* What the caches hold for a node: page_search looks into nhood_cache only.
Cached == IF opt.page THEN nhood_cache ELSE nhood_array @@ nhood_cache
-----------------------------------------------------------------------------
(***************************************************************************)
(* A search.                                                               *)
(***************************************************************************)
Goto(c, s) == th' = [th EXCEPT ![c] = s]

\* Sampling calls cached_beam_search with false for io_limit.
IoLimit == IF phase = "sample" /\ ~opt.page THEN 0 ELSE opt.io_limit
KSearch == IF phase = "sample" THEN 1 ELSE opt.k
Share(n) == IF phase = "sample" THEN n ELSE (n * opt.num) \div opt.den

Call(c) ==
  /\ phase \in {"sample", "search"}
  /\ th[c] = Idle
  /\ asked < NCalls
  /\ \E q \in Queries : Goto(c, [pc |-> "pop", q |-> q])
  /\ asked' = asked + 1
  /\ UNCHANGED <<opt, phase, pool, caching>>

\* The queue is empty: wait 10us for a push and try again.
WaitData(c) ==
  /\ th[c].pc = "pop"
  /\ thread_data = <<>>
  /\ UNCHANGED vars

\* Faulty: the ThreadData stays in the queue.
TakeData_Peek == thread_data
TakeData == Tail(thread_data)

\* The state of a search for q that starts with the ThreadData d from medoid m.
Begun(q, d, m) ==
  [pc |-> "round", q |-> q, data |-> d, retset |-> <<Candidate(q.pq, m, TRUE)>>, visited |-> {m},
   page_visited |-> {}, evaluated |-> {}, expanded |-> {},
   k |-> 1, nk |-> 0, num_ios |-> 0, frontier |-> <<>>, last_io |-> <<>>]

\* Take a ThreadData, reset it and start from a medoid.
PopData(c) ==
  /\ th[c].pc = "pop"
  /\ thread_data # <<>>
  /\ opt.beam <= MaxReads
  /\ \E m \in ToSet(Medoids) : Goto(c, Begun(th[c].q, Head(thread_data), m))
  /\ thread_data' = TakeData
  /\ UNCHANGED <<opt, phase, ctx_map, scratch, in_flight, caching, asked>>

\* The check of the beam comes after the pop.
Throw(c) ==
  /\ th[c].pc = "pop"
  /\ thread_data # <<>>
  /\ opt.beam > MaxReads
  /\ Goto(c, Idle)
  /\ thread_data' = TakeData
  /\ UNCHANGED <<opt, phase, ctx_map, scratch, in_flight, caching, asked>>

\* Look at the i-th candidate, while the beam has room.
Select(s, i) ==
  LET n == s.retset[i].id
      taken == [s EXCEPT !.retset[i].flag = FALSE, !.seen = @ + 1]
  IN  IF s.seen = opt.beam \/ ~s.retset[i].flag
           \/ (opt.page /\ PageOf(n) \in s.page_visited) THEN s
      ELSE IF n \in DOMAIN Cached THEN [taken EXCEPT !.cached = Append(@, n)]
      ELSE [taken EXCEPT !.frontier = Append(@, n),
                         !.page_visited = IF opt.page THEN @ \cup {PageOf(n)} ELSE @]

\* Faulty: the list position a neighbour was put at is not remembered.
Insert_NoMark(s, m) ==
  [s EXCEPT !.retset = add_to_retset(@, Candidate(s.q.pq, m, TRUE))]

\* Offer a neighbour; nk is the best position of the list that was changed.
Insert(s, m) ==
  LET list == add_to_retset(s.retset, Candidate(s.q.pq, m, TRUE))
  IN  IF list = s.retset THEN s
      ELSE [s EXCEPT !.retset = list,
                     !.nk = Min2(@, InsertPos(s.retset, s.q.pq[m]))]

\* Evaluate the record r under the id n, and expand it.
Evaluate(s, n) == [s EXCEPT !.evaluated = @ \cup {n}]
Expand(s, r) ==
  LET nbrs == IF r = NoNode THEN <<>> ELSE Nbrs[r]
  IN  FoldLeft(Insert, [s EXCEPT !.visited = @ \cup ToSet(nbrs), !.expanded = @ \cup {r}],
               Fresh(s, nbrs))

\* The rest of a page read in the round before: evaluate all, expand the share
\* of them that is nearest.
FinishPage(s, n) ==
  LET rest == SelectSeq(Pages[PageOf(n)], LAMBDA m : m # n)
      sorted == SortSeq(rest, LAMBDA a, b : s.q.exact[a] < s.q.exact[b])
  IN  FoldLeft(Expand, FoldLeft(Evaluate, s, rest), SubSeq(sorted, 1, Share(Len(rest))))

\* Evaluate and expand the nodes of the beam that are in the cache.
UseCached(s) == FoldLeft(LAMBDA a, n : Expand(Evaluate(a, n), Cached[n]), s, s.cached)

\* The reads of a round, and whether the kernel refuses them.
Reads(s) == {[slot |-> i, page |-> SectorOf(s.frontier[i])] : i \in Slots(s.frontier)}
Refused(s) == s.frontier # <<>> /\ ~ctx_map[s.data]

Searching(s) == s.k <= Len(s.retset) /\ s.num_ios < IoLimit

\* Select the candidates of a round and submit their reads; then work on what
\* is there: the rest of the last pages, and the candidates in the cache.
Submit(c) ==
  LET s == FoldLeft(Select,
                    [cached |-> <<>>, seen |-> 0] @@
                    [th[c] EXCEPT !.frontier = <<>>, !.nk = Len(th[c].retset) + 1],
                    [i \in 1..(Len(th[c].retset) - th[c].k + 1) |-> th[c].k + i - 1])
      paged == FoldLeft(FinishPage, [s EXCEPT !.last_io = <<>>], s.last_io)
      done == UseCached(paged)
  IN  /\ th[c].pc = "round"
      /\ Searching(th[c])
      /\ IF Refused(s) THEN phase' = "exited" /\ UNCHANGED <<in_flight, th>>
         ELSE /\ in_flight' = [in_flight EXCEPT ![s.data] = @ \cup Reads(s)]
              /\ Goto(c, [x \in DOMAIN th[c] |->
                            IF x = "pc" THEN "wait"
                            ELSE IF x = "num_ios" THEN s.num_ios + Len(s.frontier)
                            ELSE done[x]])
              /\ UNCHANGED phase
      /\ UNCHANGED <<opt, ctx_map, thread_data, scratch, caching, asked>>

\* Faulty: the search goes on when the first of its reads has completed.
Owed_One(s) == Min2(1, Len(s.frontier))
\* get_events(ctx, n_ops).
Owed(s) == Len(s.frontier)

\* Wait for as many completions on the context as reads were submitted.
GetEvents(c) ==
  /\ th[c].pc = "wait"
  /\ LET d == th[c].data
     IN  \E finished \in kSubset(Owed(th[c]), in_flight[d]) :
           /\ in_flight' = [in_flight EXCEPT ![d] = @ \ finished]
           /\ scratch' = [scratch EXCEPT ![d] =
                [i \in DOMAIN @ \cup {r.slot : r \in finished} |->
                   IF \E r \in finished : r.slot = i
                     THEN (CHOOSE r \in finished : r.slot = i).page ELSE @[i]]]
  /\ th' = [th EXCEPT ![c].pc = "parse"]
  /\ UNCHANGED <<opt, phase, ctx_map, thread_data, caching, asked>>

\* Faulty: without a change the position stays.
NextPosition_Stays(s) == IF s.nk <= s.k THEN s.nk ELSE s.k
NextPosition(s) == IF s.nk <= s.k THEN s.nk ELSE s.k + 1

\* Take the record of the i-th node wanted from its buffer.
Wanted(s, i) == Expand(Evaluate(s, s.frontier[i]),
                       RecordOf(s.frontier[i], scratch[s.data][i]))

\* Evaluate and expand the nodes the round wanted, and move to the best
\* position that has changed, or one further.
Parse(c) ==
  LET p == th[c]
      s == FoldLeft(Wanted, p, [i \in Slots(p.frontier) |-> i])
  IN  /\ p.pc = "parse"
      /\ Goto(c, [s EXCEPT !.pc = "round",
                           !.last_io = IF opt.page THEN p.frontier ELSE <<>>,
                           !.k = NextPosition(s)])
      /\ UNCHANGED <<opt, phase, pool, caching, asked>>

\* Copy the k nearest of the nodes evaluated.  With fewer page_search ends the
\* program, and cached_beam_search copies what is behind them.
Answer(s) ==
  LET Nearest(i) == {n \in s.evaluated :
        Cardinality({m \in s.evaluated : s.q.exact[m] < s.q.exact[n]}) = i - 1}
  IN  [i \in 1..KSearch |-> IF Nearest(i) = {} THEN NoNode ELSE CHOOSE n \in Nearest(i) : TRUE]

Finish(c) ==
  LET s == th[c]
  IN  /\ s.pc = "round"
      /\ ~Searching(s)
      /\ IF opt.page /\ Cardinality(s.evaluated) < KSearch
           THEN phase' = "exited" /\ UNCHANGED <<thread_data, th>>
         ELSE /\ thread_data' = Append(thread_data, s.data)
              /\ Goto(c, [pc |-> "done", q |-> s.q, retset |-> s.retset,
                          visited |-> s.visited, evaluated |-> s.evaluated,
                          expanded |-> s.expanded, indices |-> Answer(s)])
              /\ UNCHANGED phase
      /\ UNCHANGED <<opt, ctx_map, scratch, in_flight, caching, asked>>

Return(c) ==
  /\ th[c].pc = "done"
  /\ Goto(c, Idle)
  /\ UNCHANGED <<opt, phase, pool, caching, asked>>
-----------------------------------------------------------------------------
\* Free every ThreadData of the queue, deregister all threads.
destroy_thread_data == thread_data' = <<>> /\ ctx_map' = <<>>

\* ~PQFlashIndex: what a load that failed has made is left.
Destroy ==
  /\ \/ phase = "failed" /\ UNCHANGED pool
     \/ /\ phase = "search"
        /\ asked = NCalls /\ \A c \in Callers : th[c] = Idle
        /\ destroy_thread_data
        /\ UNCHANGED <<scratch, in_flight>>
  /\ phase' = "gone"
  /\ UNCHANGED <<opt, caching, asked, th>>

Stopped == phase \in {"gone", "exited"} /\ UNCHANGED vars

Search(c) == \/ PopData(c) \/ Throw(c) \/ Submit(c) \/ GetEvents(c) \/ Parse(c)
             \/ Finish(c) \/ Return(c)

Next == \/ load \/ \E t \in 1..opt.threads : setup_thread_data(t)
        \/ use_medoids_data_as_centroids
        \/ Sampled \/ CacheLevel \/ CacheLastLevel \/ load_cache_list
        \/ phase # "exited" /\ \E c \in Callers : Call(c) \/ WaitData(c) \/ Search(c)
        \/ Destroy \/ Stopped

Spec == Init /\ [][Next]_vars

\* Every thread that is searching goes on: weak fairness of Search(c), which is
\* enabled when CanGoOn(c) is.
CanGoOn(c) == phase # "exited" /\ (th[c].pc = "pop" => thread_data # <<>>) /\ th[c] # Idle
FairSpec == Spec /\ \A c \in Callers : []<>~CanGoOn(c) \/ []<><<Search(c)>>_vars
-----------------------------------------------------------------------------
Holding == {c \in Callers : th[c].pc \in {"round", "wait", "parse"}}

\* A search takes every record for the node it wanted: its buffers hold the
\* pages it asked for when it parses them, and the caches the record of the
\* node itself, of no more nodes than asked for.
RecordsAreTheirOwn ==
  /\ \A c \in Holding : th[c].pc = "parse" =>
       \A i \in Slots(th[c].frontier) :
         /\ i \in DOMAIN scratch[th[c].data]
         /\ RecordOf(th[c].frontier[i], scratch[th[c].data][i]) = th[c].frontier[i]
  /\ \A n \in DOMAIN nhood_cache : nhood_cache[n] = n
  /\ \A n \in DOMAIN nhood_array : nhood_array[n] = n
  /\ phase \in {"bfs", "cache"} =>
       IsInjective(node_list) /\ Len(node_list) <= opt.to_cache

\* Every ThreadData is in the queue once, or with one search: no two searches
\* share buffers or a context, and the destructor finds all of them, as it
\* asserts.  (A search that throws for its beam loses its ThreadData.)
DataAccounted ==
  phase \in {"sample", "bfs", "cache", "search"} /\ opt.beam <= MaxReads =>
    \A d \in 1..opt.threads :
      Cardinality({i \in Slots(thread_data) : thread_data[i] = d})
      + Cardinality({c \in Holding : th[c].data = d}) = 1

\* An answer is k nodes, the nearest of all that were evaluated.  Every
\* candidate of the final list was evaluated, although the rest of the last
\* pages is dropped, and every one was expanded unless use_ratio forbids.
AnswerNearest ==
  \A c \in Callers : th[c].pc = "done" =>
    LET s == th[c]
    IN  /\ ToSet(s.indices) \subseteq s.evaluated /\ IsInjective(s.indices)
        /\ \A n \in s.evaluated \ ToSet(s.indices) :
             s.q.exact[Last(s.indices)] < s.q.exact[n]
        /\ Ids(s.retset) \subseteq s.evaluated
        /\ opt.num = opt.den => Ids(s.retset) \subseteq s.expanded

\* Every search that was called returns, as long as the threads go on: nobody
\* waits for a ThreadData for ever.
SearchesEnd ==
  opt.beam <= MaxReads =>
    \A c \in Callers : th[c].pc = "pop" ~> (th[c] = Idle \/ phase = "exited")
=============================================================================
