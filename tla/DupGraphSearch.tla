--------------------------- MODULE DupGraphSearch ---------------------------
(***************************************************************************)
(* One query of DecoIndex::page_search_dup_graph                           *)
(* (src/gorgeous/index_search_dup_graph.cpp), on the layout where the page *)
(* of a node holds its vector, its neighbours and copies of the            *)
(* neighbours of some nodes around it.  The search keeps pointers to those *)
(* copies (loaded) and expands a node from one of them without a read; the *)
(* pointers lead into the sector buffers, which the ring hands out again   *)
(* after MaxReads reads.                                                   *)
(*                                                                         *)
(* The loop is that of PageSearch; its reads are those of ReadPipeline,    *)
(* which this module implements.  Distances are integers, different for    *)
(* different nodes.  No io_limit is set.                                   *)
(***************************************************************************)
EXTENDS CandidateList

CONSTANTS
  Nodes,        \* ids, 0..num_points-1
  Copied,       \* node -> the nodes whose neighbours its page holds, itself first
  Nbrs,         \* adjacency of a node
  MemGraph,     \* nodes whose adjacency is in memory (node_in_mem_pos)
  MemEmb,       \* nodes whose vector is in memory (get_mem_emb_addr)
  StartLists,   \* what a query may start from
  PqDists, ExactDists, \* distances a query may have to the nodes
  KSearch, BeamWidth,
  FilterNum, FilterDen,  \* pq_filter_ratio
  EmbNum, EmbDen,        \* emb_search_ratio
  MaxReads      \* MAX_N_SECTOR_READS

ASSUME DupGraphAssumption ==
  /\ 0 \in Nodes /\ Nodes \subseteq Nat /\ IsFiniteSet(Nodes)
  /\ \A n \in Nodes : /\ Copied[n] \in Seq(Nodes) /\ Copied[n] # <<>> /\ Copied[n][1] = n
                      /\ Nbrs[n] \in Seq(Nodes) /\ IsInjective(Nbrs[n])
  /\ StartLists \subseteq Seq(Nodes)
  /\ \A s \in StartLists : s # <<>> /\ IsInjective(s) /\ Len(s) <= LSearch
  /\ PqDists \cup ExactDists \subseteq [Nodes -> Int]
  /\ \A d \in PqDists \cup ExactDists : IsInjective(d)
  /\ LSearch \in Nat /\ KSearch \in 1..LSearch
  /\ EmbNum \in Nat /\ EmbDen \in Nat \ {0} /\ EmbNum <= EmbDen
  /\ MaxReads \in Nat /\ BeamWidth \in 1..MaxReads

VARIABLES
  pc, pq, exact,
  retset, visited, page_visited,
  full_retset,       \* how often a node was evaluated and pushed
  loaded,            \* node -> pointer to a copy of its neighbours
  frontier,          \* the reads issued: the node whose page is read
  flying, sector_buffers,
  cached_node,       \* nodes to expand without a read, with their pointers
  n_io_in_q, n_proc_in_q, n_cached_in_q,
  embedding_search_L, l_idx, n_ops,
  indices,
  selected           \* auxiliary: candidates taken by the rounds

sets == <<retset, visited, page_visited, full_retset, loaded>>
ring == <<frontier, flying, sector_buffers>>
cached == <<cached_node, n_cached_in_q>>
refine == <<embedding_search_L, l_idx, n_ops>>
vars == <<pc, pq, exact, sets, ring, cached, n_io_in_q, n_proc_in_q, refine, indices,
          selected>>

\* A pointer: into mem_graph_, or to the i-th copy in the buffer of a read.
InMemory == [read |-> 0, slot |-> 0]

\* What the sector buffer of read t holds now: the page read into it last.
Content(t) ==
  LET users == {u \in DOMAIN frontier : u % MaxReads = t % MaxReads}
  IN  frontier[CHOOSE u \in users : \A v \in users : v <= u]

\* The neighbours found through a pointer to those of n (garbage behind the
\* copies of the page is taken for none).
NbrsAt(n, ptr) ==
  IF ptr = InMemory THEN Nbrs[n]
  ELSE LET page == Copied[Content(ptr.read)]
       IN  IF ptr.slot <= Len(page) THEN Nbrs[page[ptr.slot]] ELSE <<>>
-----------------------------------------------------------------------------
Init ==
  /\ pc = "start"
  /\ pq \in PqDists /\ exact \in ExactDists
  /\ retset = <<>> /\ visited = {} /\ page_visited = {}
  /\ full_retset = [n \in Nodes |-> 0]
  /\ loaded = [n \in {} |-> InMemory]
  /\ frontier = <<>> /\ flying = {} /\ sector_buffers = <<>>
  /\ cached_node = <<>>
  /\ n_io_in_q = 0 /\ n_proc_in_q = 0 /\ n_cached_in_q = 0
  /\ embedding_search_L = 0 /\ l_idx = 0 /\ n_ops = 0
  /\ indices = <<>>
  /\ selected = 0

StartQuery(list) ==
  /\ pc = "start"
  /\ retset' \in Started(list, pq)
  /\ visited' = ToSet(list)
  /\ pc' = "process"
  /\ UNCHANGED <<pq, exact, page_visited, full_retset, loaded, ring, cached, n_io_in_q,
                 n_proc_in_q, refine, indices, selected>>

\* Faulty: the copies are counted from the one of the node itself.
Load_OffByOne(t) ==
  LET page == Copied[frontier[t]]
      new == {page[j] : j \in 2..Len(page)} \ (MemGraph \cup DOMAIN loaded)
      Slot(n) == CHOOSE j \in 2..Len(page) : page[j] = n /\ \A i \in 2..(j - 1) : page[i] # n
  IN  [n \in DOMAIN loaded \cup new |->
         IF n \in DOMAIN loaded THEN loaded[n] ELSE [read |-> t, slot |-> Slot(n) - 1]]

\* Remember where the page of read t has the neighbours of other nodes; those
\* in memory and those already loaded are left alone.
Load(t) ==
  LET page == Copied[frontier[t]]
      new == {page[j] : j \in 2..Len(page)} \ (MemGraph \cup DOMAIN loaded)
      Slot(n) == CHOOSE j \in 2..Len(page) : page[j] = n /\ \A i \in 2..(j - 1) : page[i] # n
  IN  [n \in DOMAIN loaded \cup new |->
         IF n \in DOMAIN loaded THEN loaded[n] ELSE [read |-> t, slot |-> Slot(n)]]

\* Faulty: the neighbour is marked as expanded, but not remembered for it.
Early_Forgets(s, m) ==
  LET list == add_to_retset(s.retset, Candidate(pq, m, TRUE))
  IN  IF m \in DOMAIN s.loaded /\ pq[m] * FilterDen < Last(list).distance * FilterNum
        THEN [s EXCEPT !.retset = [i \in DOMAIN list |->
                         IF list[i].id = m THEN [list[i] EXCEPT !.flag = FALSE] ELSE list[i]]]
      ELSE [s EXCEPT !.retset = list]

\* Offer a neighbour of the node just read; if it is near enough and loaded,
\* it is to be expanded at once and need not be selected.
Early(s, m) ==
  LET list == add_to_retset(s.retset, Candidate(pq, m, TRUE))
  IN  IF m \in DOMAIN s.loaded /\ pq[m] * FilterDen < Last(list).distance * FilterNum
        THEN [s EXCEPT !.expand = Append(@, m),
                       !.retset = [i \in DOMAIN list |->
                         IF list[i].id = m THEN [list[i] EXCEPT !.flag = FALSE] ELSE list[i]]]
      ELSE [s EXCEPT !.retset = list]

\* compute_and_push_nbrs_target_update, for the node whose page is read t.
ExpandTarget(s, n) ==
  LET fresh == Fresh(s, Nbrs[n])
      offered == FoldLeft(Early, [s EXCEPT !.visited = @ \cup ToSet(fresh)], fresh)
  IN  FoldLeft(LAMBDA a, m : Offer(a, NbrsAt(m, a.loaded[m]), pq), offered, offered.expand)

Now == [retset |-> retset, visited |-> visited, loaded |-> loaded, expand |-> <<>>]

\* Process one completed page, if there is one: evaluate its node, remember
\* the copies, expand it.  Then expand the nodes that need no read.
Process ==
  /\ pc = "process"
  /\ LET t == Head(sector_buffers)
         s == IF n_proc_in_q > 0 THEN ExpandTarget([Now EXCEPT !.loaded = Load(t)], frontier[t])
              ELSE Now
         u == FoldLeft(LAMBDA a, c : Offer(a, NbrsAt(c.id, c.ptr), pq), s, cached_node)
     IN  /\ retset' = u.retset
         /\ visited' = u.visited
         /\ loaded' = u.loaded
         /\ IF n_proc_in_q > 0
              THEN /\ full_retset' = [full_retset EXCEPT ![frontier[t]] = @ + 1]
                   /\ sector_buffers' = Tail(sector_buffers)
                   /\ n_proc_in_q' = n_proc_in_q - 1
              ELSE UNCHANGED <<full_retset, sector_buffers, n_proc_in_q>>
  /\ cached_node' = <<>> /\ n_cached_in_q' = 0
  /\ pc' = "collect"
  /\ UNCHANGED <<pq, exact, page_visited, frontier, flying, n_io_in_q, refine, indices,
                 selected>>

\* get_events(min_r, n_io_in_q): completions arrive in any order.
Collect(n) ==
  /\ pc = "collect"
  /\ n <= n_io_in_q
  /\ n_io_in_q > 0 /\ n_proc_in_q = 0 => n >= 1
  /\ \E finished \in kSubset(n, flying) : \E s \in SetToSeqs(finished) :
       /\ sector_buffers' = sector_buffers \o s
       /\ flying' = flying \ finished
  /\ n_io_in_q' = n_io_in_q - n
  /\ n_proc_in_q' = n_proc_in_q + n
  /\ pc' = "dispatch"
  /\ UNCHANGED <<pq, exact, sets, frontier, cached, refine, indices, selected>>

\* Faulty: a round may begin with many pages unparsed.
RoundOpen_AnyQueue == n_io_in_q = 0 /\ n_cached_in_q = 0

RoundOpen == n_io_in_q = 0 /\ n_cached_in_q = 0 /\ n_proc_in_q <= BeamWidth \div 2

\* Look at the i-th candidate: take it from mem_graph_, from a copy, or read
\* its page.  Those in memory are counted apart (disk_seen) from the others.
Select(s, i) ==
  LET n == retset[i].id
      taken == [s EXCEPT !.retset[i].flag = FALSE]
  IN  IF s.num_seen = BeamWidth \/ s.disk_seen = BeamWidth \/ ~retset[i].flag THEN s
      ELSE IF n \in MemGraph
        THEN [taken EXCEPT !.cached = Append(@, [id |-> n, ptr |-> InMemory]),
                           !.disk_seen = @ + 1]
      ELSE IF n \in DOMAIN loaded
        THEN [taken EXCEPT !.cached = Append(@, [id |-> n, ptr |-> loaded[n]]),
                           !.num_seen = @ + 1]
      ELSE IF n \in s.page_visited THEN taken
      ELSE [taken EXCEPT !.reads = Append(@, n), !.page_visited = @ \cup {n}, !.num_seen = @ + 1]

\* The candidates of a round, nearest first.
Round ==
  FoldLeft(Select,
           [retset |-> retset, page_visited |-> page_visited, reads |-> <<>>,
            cached |-> <<>>, num_seen |-> 0, disk_seen |-> 0],
           [i \in 1..Len(retset) |-> i])

LoopEnds(round) == n_io_in_q + Len(round.reads) = 0 /\ n_proc_in_q = 0
                   /\ n_cached_in_q + Len(round.cached) = 0

Dispatch ==
  /\ pc = "dispatch"
  /\ RoundOpen
  /\ LET round == Round
         r == Len(round.reads)
         c == Len(round.cached)
     IN  /\ retset' = round.retset
         /\ page_visited' = round.page_visited
         /\ frontier' = frontier \o round.reads
         /\ flying' = flying \cup (Len(frontier) + 1)..(Len(frontier) + r)
         /\ n_io_in_q' = n_io_in_q + r
         /\ cached_node' = cached_node \o round.cached
         /\ n_cached_in_q' = n_cached_in_q + c
         /\ selected' = selected + r + c
         /\ pc' = IF LoopEnds(round) THEN "refine" ELSE "process"
  /\ UNCHANGED <<pq, exact, visited, full_retset, loaded, sector_buffers, n_proc_in_q,
                 refine, indices>>

SkipDispatch ==
  /\ pc = "dispatch"
  /\ ~RoundOpen
  /\ pc' = "process"
  /\ UNCHANGED <<pq, exact, sets, ring, cached, n_io_in_q, n_proc_in_q, refine, indices,
                 selected>>
-----------------------------------------------------------------------------
\* emb_search_ratio of the candidates, but no fewer than k_search.
BeginRefine ==
  /\ pc = "refine"
  /\ LET share == (Len(retset) * EmbNum) \div EmbDen
     IN  embedding_search_L' = IF share < KSearch THEN KSearch ELSE share
  /\ l_idx' = 0
  /\ pc' = "embed"
  /\ UNCHANGED <<pq, exact, sets, ring, cached, n_io_in_q, n_proc_in_q, n_ops, indices,
                 selected>>

\* Behind the candidates the list holds value-initialised entries of id 0.
CandidateId(i) == IF i <= Len(retset) THEN retset[i].id ELSE 0

\* Faulty: a node expanded from a copy is taken for one that was read.
Request_TrustsLoaded(s, i) ==
  LET n == CandidateId(i)
  IN  IF n \in s.page_visited \cup DOMAIN loaded THEN s
      ELSE IF n \in MemEmb THEN [s EXCEPT !.vectors = Append(@, n)]
      ELSE [s EXCEPT !.reads = Append(@, n), !.page_visited = @ \cup {n}]

\* Ask for the vector of the i-th candidate, from memory or from its page,
\* unless its page was read.
Request(s, i) ==
  LET n == CandidateId(i)
  IN  IF n \in s.page_visited THEN s
      ELSE IF n \in MemEmb THEN [s EXCEPT !.vectors = Append(@, n)]
      ELSE [s EXCEPT !.reads = Append(@, n), !.page_visited = @ \cup {n}]

BatchSize ==
  IF embedding_search_L - l_idx < MaxReads THEN embedding_search_L - l_idx ELSE MaxReads

\* Submit the reads of a batch, then evaluate the vectors found in memory.
SubmitEmbeddings ==
  /\ pc = "embed"
  /\ l_idx < embedding_search_L
  /\ LET batch == FoldLeft(Request,
                           [page_visited |-> page_visited, vectors |-> <<>>, reads |-> <<>>],
                           [i \in 1..BatchSize |-> l_idx + i])
         r == Len(batch.reads)
     IN  /\ page_visited' = batch.page_visited
         /\ frontier' = frontier \o batch.reads
         /\ flying' = flying \cup (Len(frontier) + 1)..(Len(frontier) + r)
         /\ n_ops' = r
         /\ full_retset' = FoldLeft(LAMBDA f, n : [f EXCEPT ![n] = @ + 1],
                                    full_retset, batch.vectors)
  /\ l_idx' = l_idx + BatchSize
  /\ pc' = "drain"
  /\ UNCHANGED <<pq, exact, retset, visited, loaded, sector_buffers, cached, n_io_in_q,
                 n_proc_in_q, embedding_search_L, indices, selected>>

DrainEmbeddings(finished) ==
  /\ pc = "drain"
  /\ Cardinality(finished) \in 1..n_ops
  /\ full_retset' = [n \in Nodes |->
       full_retset[n] + Cardinality({t \in finished : frontier[t] = n})]
  /\ flying' = flying \ finished
  /\ n_ops' = n_ops - Cardinality(finished)
  /\ UNCHANGED <<pc, pq, exact, retset, visited, page_visited, loaded, frontier,
                 sector_buffers, cached, n_io_in_q, n_proc_in_q, embedding_search_L, l_idx,
                 indices, selected>>

EndBatch ==
  /\ pc = "drain"
  /\ n_ops = 0
  /\ pc' = "embed"
  /\ UNCHANGED <<pq, exact, sets, ring, cached, n_io_in_q, n_proc_in_q, refine, indices,
                 selected>>

\* The nodes of S, nearest first; no two are equally far.
Rank(n, S) == Cardinality({m \in S : exact[m] < exact[n]})
NearestFirst(S) == [i \in 1..Cardinality(S) |-> CHOOSE n \in S : Rank(n, S) = i - 1]

\* Sort full_retset and copy the first k, skipping repetitions (which are
\* adjacent).  With fewer the program exits.
EndQuery ==
  /\ pc = "embed"
  /\ l_idx >= embedding_search_L
  /\ LET sorted == NearestFirst({n \in Nodes : full_retset[n] > 0})
     IN  IF Len(sorted) < KSearch THEN pc' = "too_few" /\ indices' = sorted
         ELSE pc' = "done" /\ indices' = SubSeq(sorted, 1, KSearch)
  /\ UNCHANGED <<pq, exact, sets, ring, cached, n_io_in_q, n_proc_in_q, refine, selected>>

Stopped == pc \in {"done", "too_few"} /\ UNCHANGED vars

Next == \/ \E list \in StartLists : StartQuery(list)
        \/ Process
        \/ \E n \in 0..n_io_in_q : Collect(n)
        \/ Dispatch \/ SkipDispatch
        \/ BeginRefine \/ SubmitEmbeddings
        \/ \E finished \in SUBSET flying : DrainEmbeddings(finished)
        \/ EndBatch \/ EndQuery \/ Stopped

Spec == Init /\ [][Next]_vars
-----------------------------------------------------------------------------
Traversal == {"start", "process", "collect", "dispatch"}
Refined == {"done", "too_few"}

\* The sector buffer a pointer leads into has not been handed out again.
StillThere(ptr) == ptr = InMemory \/ Len(frontier) < ptr.read + MaxReads

\* A node is expanded with its own neighbours until its copy is overwritten: as
\* long as the traversal uses it, every pointer of loaded and of the queue of
\* cached nodes whose buffer was not handed out again leads to the neighbours of
\* its node, however often the ring went round and whatever else was overwritten.
\* (Nothing in the code drops the other pointers; they lead anywhere.)
AdjacencyIsOwn ==
  pc \in Traversal =>
    /\ \A n \in DOMAIN loaded : StillThere(loaded[n]) => NbrsAt(n, loaded[n]) = Nbrs[n]
    /\ \A i \in DOMAIN cached_node :
         StillThere(cached_node[i].ptr) =>
           NbrsAt(cached_node[i].id, cached_node[i].ptr) = Nbrs[cached_node[i].id]

\* No sector buffer was used twice.
FewReads == Len(frontier) <= MaxReads

\* A traversal that used no sector buffer twice ends at a fixed point of greedy
\* search: every candidate of the list has been expanded, after a read, from
\* memory, from a copy when it was selected or from a copy when it was offered.
TraversalClosed ==
  pc \notin Traversal /\ FewReads =>
    \A i \in 1..Len(retset) : ~retset[i].flag /\ ToSet(Nbrs[retset[i].id]) \subseteq visited

\* The answer is distinct, and the nearest of all nodes that were evaluated, to
\* which every candidate the refinement looks at belongs, expanded without a
\* read or not.
AnswerNearest ==
  pc = "done" =>
    /\ IsInjective(indices)
    /\ \A i \in 1..embedding_search_L : i <= Len(retset) => full_retset[retset[i].id] > 0
    /\ \A n \in Nodes \ ToSet(indices) : full_retset[n] > 0 => exact[Last(indices)] <= exact[n]
-----------------------------------------------------------------------------
(***************************************************************************)
(* A query is one query of the pipeline with the constants of this search. *)
(***************************************************************************)
TraversalReads == IF pc = "drain" THEN {} ELSE flying \cup ToSet(sector_buffers)

Pipeline == INSTANCE ReadPipeline WITH
  DispatchBelow <- (BeamWidth \div 2) + 1,
  MemoryShare <- BeamWidth - 1,
  IoLimit <- Cardinality(Nodes) + 1,
  MaxCandidates <- Cardinality(Nodes),
  EmbeddingL <- LSearch,
  Queries <- 1,
  pc <- IF pc \in Refined THEN "start" ELSE pc,
  query <- IF pc = "start" THEN 0 ELSE 1,
  base <- 0,
  issued <- Len(frontier),
  flying <- {t - 1 : t \in flying},
  sector_buffers <- [i \in DOMAIN sector_buffers |-> sector_buffers[i] - 1],
  sec_buf2ftr <- [b \in {(t - 1) % MaxReads : t \in TraversalReads} |->
                    CHOOSE t \in 0..Len(frontier) :
                      t + 1 \in TraversalReads /\ t % MaxReads = b]

\* The search drives its reads the way ReadPipeline says, so that what is
\* proved of the pipeline holds of it: no sector buffer is handed out before
\* its page was parsed (which is not to say: before the last pointer to it).
ImplementsPipeline == Pipeline!Spec
=============================================================================
