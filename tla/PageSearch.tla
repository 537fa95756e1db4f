----------------------------- MODULE PageSearch -----------------------------
(***************************************************************************)
(* One query of DecoIndex::page_search (src/gorgeous/index_search.cpp):    *)
(* the traversal, which keeps a sorted list of candidates by PQ distance   *)
(* and expands them page by page, and the refinement, which computes exact *)
(* distances of the best candidates and copies out the k nearest.          *)
(*                                                                         *)
(* Reads are numbered in issue order; which sector buffer a read uses is   *)
(* in ReadPipeline, which this module implements: its theorems say that a  *)
(* completed read is parsed from its own, untouched buffer, and that every *)
(* query starts from a quiet ring, so that a query is studied alone.       *)
(* Distances are integers: PQ and exact distances are any functions of the *)
(* given sets, unrelated to each other.  No io_limit is set.               *)
(***************************************************************************)
EXTENDS CandidateList

CONSTANTS
  Nodes,        \* ids, 0..num_points-1
  Layout,       \* gp_layout_: page -> ids on it, in order
  Nbrs,         \* adjacency of a node, on its page or in mem_graph_
  MemGraph,     \* nodes whose adjacency is in memory (node_in_mem_pos)
  MemEmb,       \* nodes whose vector is in memory (get_mem_emb_addr)
  StartLists,   \* what a query may start from: the medoid, or mem_index_'s answer
  ExactDists,   \* exact distances a query may have to the nodes
  Programs,     \* how a query is called, see opt
  BeamWidth,
  EmbDen,
  MaxReads      \* MAX_N_SECTOR_READS

Pages == DOMAIN Layout

ASSUME SearchAssumption ==
  /\ 0 \in Nodes /\ Nodes \subseteq Nat
  /\ \A p \in Pages : Layout[p] \in Seq(Nodes) /\ IsInjective(Layout[p])
  /\ \A n \in Nodes : \E p \in Pages : n \in ToSet(Layout[p])
  /\ \A p, q \in Pages : p # q => ToSet(Layout[p]) \cap ToSet(Layout[q]) = {}
  /\ \A n \in Nodes : Nbrs[n] \in Seq(Nodes)
  /\ StartLists \subseteq Seq(Nodes)
  /\ \A s \in StartLists : s # <<>> /\ IsInjective(s) /\ Len(s) <= LSearch
  /\ \A o \in Programs :
       /\ o.k_search \in 1..LSearch /\ o.emb \in 0..EmbDen
       /\ o.filter \in Nat /\ o.pq \subseteq [Nodes -> Int]
  /\ ExactDists \subseteq [Nodes -> Int]
  /\ \A n \in {LSearch, BeamWidth, EmbDen, MaxReads} : n \in Nat \ {0}

VARIABLES
  opt,               \* k_search, filter (pq_filter_ratio in tenths), emb
                     \* (emb_search_ratio, of EmbDen), pq: distances to look at
  pc, pq, exact,     \* the query: its distances to the nodes
  retset, visited, page_visited,
  full_retset,       \* how often a node was evaluated and pushed
  frontier,          \* the reads issued: node (or NoNode) and page
  flying, sector_buffers, cached_node_id,
  n_io_in_q, n_proc_in_q, n_cached_in_q,
  embedding_search_L, l_idx, n_ops,
  sorted, previous, indices, \* copying out: entries left, last one looked at, ids
  selected           \* auxiliary: candidates read or taken from mem_graph_

query_vars == <<opt, pq, exact>>
sets == <<retset, visited, page_visited, full_retset>>
ring == <<frontier, flying, sector_buffers>>
cached == <<cached_node_id, n_cached_in_q>>
refine == <<embedding_search_L, l_idx, n_ops>>
results == <<sorted, previous, indices>>
vars == <<pc, query_vars, sets, ring, cached, n_io_in_q, n_proc_in_q, refine,
          results, selected>>

NoNode == -1
PageOf(n) == CHOOSE p \in Pages : n \in ToSet(Layout[p])
NoneEvaluated == [n \in Nodes |-> 0]
exact_visited == {n \in Nodes : full_retset[n] > 0}
-----------------------------------------------------------------------------
\* Offer the neighbours of n that were not seen before.
OfferNbr(s, m) == Offered(s, m, pq)
Expand(s, n) == FoldLeft(OfferNbr, s, Nbrs[n])

\* A node of a page that was read for another node (exact_id) is skipped when
\* its PQ distance is beyond the filter.
Filtered(s, n) ==
  n # s.exact_id /\ pq[n] * 10 >= Last(s.retset).distance * opt.filter

\* Evaluate a node of the page.
Evaluate(s, n) ==
  IF Filtered(s, n) THEN s
  ELSE [s EXCEPT !.retset = IF n \in s.visited THEN @
                            ELSE add_to_retset(@, Candidate(pq, n, FALSE)),
                 !.visited = @ \cup {n},
                 !.full_retset[n] = @ + 1,
                 !.vis_cand = Append(@, n)]

Now == [retset |-> retset, visited |-> visited, full_retset |-> full_retset,
        vis_cand |-> <<>>, exact_id |-> NoNode]

\* Faulty: only the node the page was read for is expanded.
ParsePage_TargetOnly(target) ==
  LET s == FoldLeft(Evaluate, [Now EXCEPT !.exact_id = target], Layout[PageOf(target)])
  IN  Expand(s, target)

\* Parse the page read for target: evaluate its nodes, then expand those that
\* were evaluated.
ParsePage(target) ==
  LET s == FoldLeft(Evaluate, [Now EXCEPT !.exact_id = target], Layout[PageOf(target)])
  IN  FoldLeft(Expand, s, s.vis_cand)

-----------------------------------------------------------------------------
Init ==
  /\ pc = "start"
  /\ opt \in Programs
  /\ pq \in opt.pq /\ exact \in ExactDists
  /\ retset = <<>> /\ visited = {} /\ page_visited = {}
  /\ full_retset = NoneEvaluated
  /\ frontier = <<>> /\ flying = {} /\ sector_buffers = <<>>
  /\ cached_node_id = <<>>
  /\ n_io_in_q = 0 /\ n_proc_in_q = 0 /\ n_cached_in_q = 0
  /\ embedding_search_L = 0 /\ l_idx = 0 /\ n_ops = 0
  /\ sorted = NoneEvaluated /\ previous = NoNode /\ indices = <<>>
  /\ selected = 0

StartQuery(list) ==
  /\ pc = "start"
  /\ retset' \in Started(list, pq)
  /\ visited' = ToSet(list)
  /\ pc' = "process"
  /\ UNCHANGED <<query_vars, page_visited, full_retset, ring, cached,
                 n_io_in_q, n_proc_in_q, refine, results, selected>>

\* Parse one completed page, if there is one, then expand the cached nodes.
Process ==
  /\ pc = "process"
  /\ LET s == IF n_proc_in_q > 0 THEN ParsePage(frontier[Head(sector_buffers)].id)
              ELSE Now
         t == FoldLeft(Expand, s, cached_node_id)
     IN  /\ retset' = t.retset
         /\ visited' = t.visited
         /\ full_retset' = t.full_retset
  /\ IF n_proc_in_q > 0
       THEN sector_buffers' = Tail(sector_buffers) /\ n_proc_in_q' = n_proc_in_q - 1
       ELSE UNCHANGED <<sector_buffers, n_proc_in_q>>
  /\ cached_node_id' = <<>> /\ n_cached_in_q' = 0
  /\ pc' = "collect"
  /\ UNCHANGED <<query_vars, page_visited, frontier, flying, n_io_in_q, refine,
                 results, selected>>

\* Faulty: the collected reads are not counted as waiting.
Collect_ForgetsProc(n) ==
  /\ pc = "collect"
  /\ n <= n_io_in_q
  /\ n_io_in_q > 0 /\ n_proc_in_q = 0 => n >= 1
  /\ \E finished \in kSubset(n, flying) : \E s \in SetToSeqs(finished) :
       /\ sector_buffers' = sector_buffers \o s
       /\ flying' = flying \ finished
  /\ n_io_in_q' = n_io_in_q - n
  /\ pc' = "dispatch"
  /\ UNCHANGED <<query_vars, sets, frontier, cached, n_proc_in_q, refine,
                 results, selected>>

\* get_events(min_r, n_io_in_q): completions arrive in any order.
Collect(n) ==
  /\ pc = "collect"
  /\ n <= n_io_in_q
  /\ n_io_in_q > 0 /\ n_proc_in_q = 0 => n >= 1
  /\ \E finished \in kSubset(n, flying) : \E s \in SetToSeqs(finished) :
       /\ sector_buffers' = sector_buffers \o s
       /\ flying' = flying \ finished
  /\ n_io_in_q' = n_io_in_q - n
  /\ n_proc_in_q' = n_proc_in_q + n
  /\ pc' = "dispatch"
  /\ UNCHANGED <<query_vars, sets, frontier, cached, refine, results,
                 selected>>

RoundOpen == n_io_in_q = 0 /\ n_cached_in_q = 0 /\ n_proc_in_q < BeamWidth \div 2

\* Look at the i-th candidate: take it from mem_graph_, or read its page
\* unless that was read before; either way it is no longer a candidate to
\* select.
Select(s, i) ==
  LET n == retset[i].id
      taken == [s EXCEPT !.retset[i].flag = FALSE]
  IN  IF s.num_seen = BeamWidth \/ ~retset[i].flag THEN s
      ELSE IF n \in MemGraph
        THEN [taken EXCEPT !.cached = Append(@, n), !.num_seen = @ + 1]
      ELSE IF PageOf(n) \in s.page_visited THEN taken
      ELSE [taken EXCEPT !.reads = Append(@, [id |-> n, pid |-> PageOf(n)]),
                         !.page_visited = @ \cup {PageOf(n)},
                         !.num_seen = @ + 1]

\* The candidates of a round, nearest first.
Round ==
  FoldLeft(Select,
           [retset |-> retset, page_visited |-> page_visited, reads |-> <<>>,
            cached |-> <<>>, num_seen |-> 0],
           [i \in 1..Len(retset) |-> i])

\* Faulty: an empty round is followed by another.
LoopEnds_Never(round) == FALSE

LoopEnds(round) == n_io_in_q + Len(round.reads) = 0 /\ n_proc_in_q = 0
                   /\ n_cached_in_q + Len(round.cached) = 0

Dispatch ==
  /\ pc = "dispatch"
  /\ RoundOpen
  /\ LET round == Round
         r == Len(round.reads)
     IN  /\ retset' = round.retset
         /\ page_visited' = round.page_visited
         /\ frontier' = frontier \o round.reads
         /\ flying' = flying \cup (Len(frontier) + 1)..(Len(frontier) + r)
         /\ n_io_in_q' = n_io_in_q + r
         /\ cached_node_id' = cached_node_id \o round.cached
         /\ n_cached_in_q' = n_cached_in_q + Len(round.cached)
         /\ selected' = selected + round.num_seen
         /\ pc' = IF LoopEnds(round) THEN "refine" ELSE "process"
  /\ UNCHANGED <<query_vars, visited, full_retset, sector_buffers, n_proc_in_q,
                 refine, results>>

SkipDispatch ==
  /\ pc = "dispatch"
  /\ ~RoundOpen
  /\ pc' = "process"
  /\ UNCHANGED <<query_vars, sets, ring, cached, n_io_in_q, n_proc_in_q,
                 refine, results, selected>>
-----------------------------------------------------------------------------
(***************************************************************************)
(* The refinement.                                                         *)
(***************************************************************************)
\* emb_search_ratio of the candidates, but no fewer than k_search.
BeginRefine ==
  /\ pc = "refine"
  /\ LET share == (Len(retset) * opt.emb) \div EmbDen
     IN  embedding_search_L' = IF share < opt.k_search THEN opt.k_search ELSE share
  /\ l_idx' = 0
  /\ pc' = "embed"
  /\ UNCHANGED <<query_vars, sets, ring, cached, n_io_in_q, n_proc_in_q, n_ops,
                 results, selected>>

\* Behind the candidates the list holds value-initialised entries of id 0.
CandidateId(i) == IF i <= Len(retset) THEN retset[i].id ELSE 0

\* Faulty: a candidate found in mem_graph_ is taken for evaluated.
NeedsVector_NotCached(s, n) ==
  n \notin exact_visited /\ PageOf(n) \notin s.page_visited /\ n \notin MemGraph

\* Not evaluated by the traversal, and on a page nobody read.
NeedsVector(s, n) == n \notin exact_visited /\ PageOf(n) \notin s.page_visited

\* Ask for the vector of the i-th candidate, from memory or from its page.
Request(s, i) ==
  LET n == CandidateId(i)
  IN  IF ~NeedsVector(s, n) THEN s
      ELSE IF n \in MemEmb THEN [s EXCEPT !.vectors = Append(@, n)]
      ELSE [s EXCEPT !.reads = Append(@, [id |-> NoNode, pid |-> PageOf(n)]),
                     !.page_visited = @ \cup {PageOf(n)}]

\* compute_exact_dists_and_push.
Push(f, n) == [f EXCEPT ![n] = @ + 1]

BatchSize ==
  IF embedding_search_L - l_idx < MaxReads THEN embedding_search_L - l_idx ELSE MaxReads

\* Submit the reads of a batch, then evaluate the vectors found in memory.
SubmitEmbeddings ==
  /\ pc = "embed"
  /\ l_idx < embedding_search_L
  /\ LET batch == FoldLeft(Request,
                           [page_visited |-> page_visited, vectors |-> <<>>, reads |-> <<>>],
                           [i \in 1..BatchSize |-> l_idx + i])
         r == Len(batch.reads)
     IN  /\ page_visited' = batch.page_visited
         /\ frontier' = frontier \o batch.reads
         /\ flying' = flying \cup (Len(frontier) + 1)..(Len(frontier) + r)
         /\ n_ops' = r
         /\ full_retset' = FoldLeft(Push, full_retset, batch.vectors)
  /\ l_idx' = l_idx + BatchSize
  /\ pc' = "drain"
  /\ UNCHANGED <<query_vars, retset, visited, sector_buffers, cached,
                 n_io_in_q, n_proc_in_q, embedding_search_L, results,
                 selected>>

\* Every node of a page that the traversal has seen is evaluated, also one
\* that was evaluated before.
DrainEmbeddings(finished) ==
  /\ pc = "drain"
  /\ Cardinality(finished) \in 1..n_ops
  /\ LET seen == {n \in visited : \E t \in finished : PageOf(n) = frontier[t].pid}
     IN  full_retset' = [n \in Nodes |-> full_retset[n] + IF n \in seen THEN 1 ELSE 0]
  /\ flying' = flying \ finished
  /\ n_ops' = n_ops - Cardinality(finished)
  /\ UNCHANGED <<pc, query_vars, retset, visited, page_visited, frontier,
                 sector_buffers, cached, n_io_in_q, n_proc_in_q,
                 embedding_search_L, l_idx, results, selected>>

EndBatch ==
  /\ pc = "drain"
  /\ n_ops = 0
  /\ pc' = "embed"
  /\ UNCHANGED <<query_vars, sets, ring, cached, n_io_in_q, n_proc_in_q,
                 refine, results, selected>>

\* visited and page_visited are cleared, full_retset is sorted.
SortResults ==
  /\ pc = "embed"
  /\ l_idx >= embedding_search_L
  /\ sorted' = full_retset
  /\ pc' = "copy"
  /\ UNCHANGED <<query_vars, sets, ring, cached, n_io_in_q, n_proc_in_q,
                 refine, previous, indices, selected>>

\* Faulty: full_retset is copied out as it was filled.
Next_Unsorted == {n \in Nodes : sorted[n] > 0}

\* The entries that may come next in sorted order: std::sort may leave equal
\* distances in any order.
NextEntries ==
  {n \in Nodes : sorted[n] > 0 /\ \A m \in Nodes : sorted[m] > 0 => exact[n] <= exact[m]}

\* Only a repetition next to its first occurrence is skipped.
Repeated(n) == n = previous

CopyEntry(n) ==
  /\ pc = "copy"
  /\ Len(indices) < opt.k_search
  /\ n \in NextEntries
  /\ sorted' = [sorted EXCEPT ![n] = @ - 1]
  /\ indices' = IF Repeated(n) THEN indices ELSE Append(indices, n)
  /\ previous' = n
  /\ UNCHANGED <<pc, query_vars, sets, ring, cached, n_io_in_q, n_proc_in_q,
                 refine, selected>>

\* With fewer than k results the program prints "The number of unique ids is
\* less than topk" and exits.
EndQuery ==
  /\ pc = "copy"
  /\ Len(indices) = opt.k_search \/ NextEntries = {}
  /\ pc' = IF Len(indices) = opt.k_search THEN "done" ELSE "too_few"
  /\ UNCHANGED <<query_vars, sets, ring, cached, n_io_in_q, n_proc_in_q,
                 refine, results, selected>>

Stopped == pc \in {"done", "too_few"} /\ UNCHANGED vars

Next == \/ \E list \in StartLists : StartQuery(list)
        \/ Process
        \/ \E n \in 0..n_io_in_q : Collect(n)
        \/ Dispatch \/ SkipDispatch
        \/ BeginRefine \/ SubmitEmbeddings
        \/ \E finished \in SUBSET flying : DrainEmbeddings(finished)
        \/ EndBatch \/ SortResults
        \/ \E n \in Nodes : CopyEntry(n)
        \/ EndQuery \/ Stopped

Spec == Init /\ [][Next]_vars

\* The thread keeps running and the kernel completes what it was given: weak
\* fairness of Next, which is enabled until the query has ended.
Ended == pc \in {"done", "too_few"}
FairSpec == Spec /\ ([]<>Ended \/ []<><<Next>>_vars)
-----------------------------------------------------------------------------
Traversal == {"process", "collect", "dispatch"}
Refined == {"copy", "done", "too_few"}

\* retset stays sorted by PQ distance and free of repetitions although nodes
\* enter it from three places (pages, their neighbours, mem_graph_), as the
\* binary search of InsertIntoPool and the test against the last entry assume;
\* and no candidate is given up too early: of the nodes that were visited, none
\* that is missing from the list is nearer than its last, and none is missing
\* while there is room.
KeepsNearest == KeepsBest(retset, visited, pq)

\* The filter is near enough to matter: some node is too far for some list.
Filters == \E m, n \in Nodes : pq[n] * 10 >= pq[m] * opt.filter

\* A candidate whose neighbours were offered.
Expanded(n) == ToSet(Nbrs[n]) \subseteq visited

\* The traversal ends at a fixed point of greedy search: every candidate of the
\* final list has been expanded, whether it was read, met on the page of
\* another node or found in mem_graph_, and however its page and the rounds
\* interleaved.
\* With the page filter this is not so, see EnoughResults.
TraversalClosed ==
  pc \notin Traversal \cup {"start"} /\ ~Filters =>
    \A i \in 1..Len(retset) : ~retset[i].flag /\ Expanded(retset[i].id)

\* The refinement leaves no candidate it looks at without an exact distance,
\* though it skips those whose page anyone has read (page_visited).
CandidatesEvaluated ==
  pc \in Refined /\ ~Filters =>
    \A i \in 1..embedding_search_L :
      i <= Len(retset) => retset[i].id \in exact_visited

\* No two nodes that were evaluated are equally far.
Distinct == \A m, n \in exact_visited : exact[m] = exact[n] => m = n

\* The answer lists the nearest by exact distance of all nodes that were
\* evaluated, in order and each once, although a node can be evaluated twice
\* (by the traversal and with a page of the refinement).  Among equally far
\* nodes one may come twice: the sort may leave another between the two.
AnswerNearest ==
  /\ Distinct => IsInjective(indices)
  /\ pc = "done" =>
       /\ \A i, j \in 1..opt.k_search : i < j => exact[indices[i]] <= exact[indices[j]]
       /\ \A n \in exact_visited \ ToSet(indices) : exact[Last(indices)] <= exact[n]

\* The search finds k nodes to answer with and does not take the exit for too
\* few of them (there are k nodes to be found).
EnoughResults == pc # "too_few"

\* The query ends, with k results or at the check for too few.
SearchEnds == <>Ended
-----------------------------------------------------------------------------
(***************************************************************************)
(* A query is one query of the pipeline: its reads are the pipeline's, one *)
(* number lower, and copying out the results is a stutter.                 *)
(***************************************************************************)
TraversalReads ==
  IF pc = "drain" THEN {} ELSE flying \cup ToSet(sector_buffers)

Pipeline == INSTANCE ReadPipeline WITH
  DispatchBelow <- BeamWidth \div 2,
  MemoryShare <- 0,
  IoLimit <- Cardinality(Nodes) + 1,
  MaxCandidates <- Cardinality(Nodes),
  EmbeddingL <- LSearch,
  Queries <- 1,
  pc <- IF pc \in Refined THEN "start" ELSE pc,
  query <- IF pc = "start" THEN 0 ELSE 1,
  base <- 0,
  issued <- Len(frontier),
  flying <- {t - 1 : t \in flying},
  sector_buffers <- [i \in DOMAIN sector_buffers |-> sector_buffers[i] - 1],
  sec_buf2ftr <- [b \in {(t - 1) % MaxReads : t \in TraversalReads} |->
                    CHOOSE t \in 0..Len(frontier) :
                      t + 1 \in TraversalReads /\ t % MaxReads = b]

\* The search drives its reads the way ReadPipeline says: what is proved of the
\* pipeline, that no sector buffer is handed out while it is in use above all,
\* holds of the search with its real choice of candidates.
ImplementsPipeline == Pipeline!Spec
=============================================================================
