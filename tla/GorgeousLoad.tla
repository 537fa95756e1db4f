---------------------------- MODULE GorgeousLoad ----------------------------
(***************************************************************************)
(* DecoIndex from load to destructor (src/gorgeous/deco_index.cpp), with   *)
(* the FileIOManager it reads through (src/file_io_manager.cpp): threads   *)
(* register their I/O contexts, and the caches of the searches are filled  *)
(* by asynchronous reads, the adjacency of the first nodes and of popular  *)
(* ones (load_mem_graph), and the vectors of the first (load_mem_emb).     *)
(*                                                                         *)
(* A context is named by the thread that it was set up for.  Node ids,     *)
(* pages and buffers count from 0, as in the code.                         *)
(***************************************************************************)
EXTENDS Integers, FiniteSets, SequencesExt

CONSTANTS
  Nodes,       \* ids, 0..num_points-1
  Pages,       \* gp_layout_: the nodes on a page of the index file
  GraphPages,  \* the nodes on a page of the compact graph file
  n_graph_node_per_sector,  \* capacity of its pages
  TagLists,    \* sampled tags, the ids of the navigation graph
  Options,     \* programs to look at, see opt
  MaxReads     \* MAX_N_SECTOR_READS

\* The pages of the graph file that load_mem_graph reads.
num_points == Cardinality(Nodes)
n_pages == (num_points + n_graph_node_per_sector - 1) \div n_graph_node_per_sector

\* Layouts name every node once, as the partitioner and the relayout tools write
\* them without replication; the graph file has as few pages as will do.
ASSUME GorgeousLoadAssumption ==
  /\ IsFiniteSet(Nodes) /\ Nodes = 0..(Cardinality(Nodes) - 1) /\ Nodes # {}
  /\ \A layout \in {Pages, GraphPages} :
       /\ \A p \in DOMAIN layout : layout[p] \in Seq(Nodes) /\ IsInjective(layout[p])
       /\ \A n \in Nodes : \E p \in DOMAIN layout : \A q \in DOMAIN layout :
            n \in ToSet(layout[q]) <=> q = p
  /\ n_graph_node_per_sector \in Nat \ {0} /\ DOMAIN GraphPages = 0..(n_pages - 1)
  /\ \A p \in DOMAIN GraphPages : Len(GraphPages[p]) <= n_graph_node_per_sector
  /\ \A t \in TagLists : t \in Seq(Nodes)
  /\ \A o \in Options : o.threads \in Nat \ {0} /\ {o.n_graph, o.n_emb} \subseteq 0..Cardinality(Nodes)
  /\ MaxReads \in Nat \ {0}

VARIABLES
  opt,          \* num_threads, use_graph_rep_index_, how many nodes each cache
                \* is to hold (n_graph, n_emb), whether io_setup may fail
  phase,        \* new, setup, loaded, graph, graph_done, emb, ready, gone;
                \* failed: load returned -1; exited: exit(-1)
  tags,
  fds,          \* files opened; a file id is a place in this list
  index_fid, graph_fid,
  ctx_map,      \* buckets of the map of thread ids, its generation and its keys
  reg,          \* thread -> where it is in setup_thread_data
  ctxs,         \* thread id in the pool -> context
  in_flight,    \* reads submitted: [buf, page]
  tmp_bufs,     \* buffers of the reads that have completed, to be parsed
  slot,         \* the place on the page in the first of them
  sector_scratch, sector_scratch_idx, sec_buf2id,
  cur,          \* cur_page, cur_id
  max_cached_id, cached_popular, mem_graph_, cur_popular_sid,
  max_cached_emb_id, coord_cache

vars == <<opt, phase, tags, fds, index_fid, graph_fid, ctx_map, reg, ctxs, in_flight,
          tmp_bufs, slot, sector_scratch, sector_scratch_idx, sec_buf2id, cur, max_cached_id, cached_popular,
          mem_graph_, cur_popular_sid, max_cached_emb_id, coord_cache>>
files == <<fds, index_fid, graph_fid>>
threads == <<ctx_map, reg, ctxs>>
completed == <<tmp_bufs, slot>>
reading == <<in_flight, completed, sector_scratch, sector_scratch_idx, sec_buf2id, cur>>
graph == <<max_cached_id, cached_popular, mem_graph_, cur_popular_sid>>
emb == <<max_cached_emb_id, coord_cache>>

INF == Cardinality(Nodes) + 1
bad_ctx == Cardinality(Nodes)
Threads == 0..(opt.threads - 1)
PageOf(n) == CHOOSE p \in DOMAIN Pages : n \in ToSet(Pages[p])
Min2(a, b) == IF a < b THEN a ELSE b
-----------------------------------------------------------------------------
Init ==
  /\ opt \in Options /\ tags \in TagLists
  /\ phase = "new"
  /\ fds = <<>> /\ index_fid = INF /\ graph_fid = INF
  /\ ctx_map = [buckets |-> <<>>, generation |-> 0]
  /\ reg = [t \in Threads |-> [pc |-> "register"]]
  /\ ctxs = [t \in Threads |-> bad_ctx]
  /\ in_flight = {} /\ tmp_bufs = <<>> /\ slot = 1 /\ sec_buf2id = <<>> /\ cur = 0
  /\ sector_scratch = [b \in 0..(MaxReads - 1) |-> INF] /\ sector_scratch_idx = 0
  /\ max_cached_id = 0 /\ cached_popular = <<>> /\ mem_graph_ = <<>> /\ cur_popular_sid = 0
  /\ max_cached_emb_id = 0 /\ coord_cache = <<>>

\* A file that cannot be opened is entered all the same, as -1 (a build with
\* assertions ends here, see load and load_mem_graph).
open(f) == \E fd \in {f, "none"} : fds' = Append(fds, fd)

\* load: files that do not fit together end it with -1, a partition file of
\* other nodes or the assertion in open ends the program; else the file of the
\* pages is opened.
load ==
  /\ phase = "new"
  /\ \/ phase' \in {"failed", "exited"} /\ UNCHANGED files
     \/ /\ phase' = "setup"
        /\ open(IF opt.rep THEN "graph_rep" ELSE "index")
        /\ index_fid' = Len(fds')
        /\ UNCHANGED graph_fid
  /\ UNCHANGED <<opt, tags, threads, reading, graph, emb>>

\* register_thread: io_setup may fail.  An insertion can move the other entries
\* to other buckets, or all of them to a new array.
register_thread(t) ==
  /\ phase = "setup" /\ reg[t].pc = "register"
  /\ \/ \E b \in SetToSeqs(ToSet(ctx_map.buckets) \cup {t}), moved \in {0, 1} :
          ctx_map' = [buckets |-> b, generation |-> ctx_map.generation + moved]
     \/ opt.io_setup_fails /\ UNCHANGED ctx_map
  /\ reg' = [reg EXCEPT ![t] = [pc |-> "get_ctx"]]
  /\ UNCHANGED <<opt, phase, tags, files, ctxs, reading, graph, emb>>

\* get_ctx returns a reference into the map, and lets its lock go.
get_ctx(t) ==
  /\ phase = "setup" /\ reg[t].pc = "get_ctx"
  /\ reg' = [reg EXCEPT ![t] =
       IF t \in ToSet(ctx_map.buckets)
         THEN [pc |-> "copy", generation |-> ctx_map.generation,
               bucket |-> CHOOSE i \in DOMAIN ctx_map.buckets : ctx_map.buckets[i] = t]
       ELSE [pc |-> "copy", generation |-> INF]]
  /\ UNCHANGED <<opt, phase, tags, files, ctx_map, ctxs, reading, graph, emb>>

\* The thread copies what the reference leads to now: the entry of another
\* thread when the entries have moved, anything when the array was freed.
CopyCtx(t) ==
  /\ phase = "setup" /\ reg[t].pc = "copy"
  /\ \E c \in CASE reg[t].generation = INF -> {bad_ctx}
                [] reg[t].generation = ctx_map.generation -> {ctx_map.buckets[reg[t].bucket]}
                [] OTHER -> Threads \cup {bad_ctx} : ctxs' = [ctxs EXCEPT ![t] = c]
  /\ reg' = [reg EXCEPT ![t] = [pc |-> "done"]]
  /\ phase' = IF \A u \in Threads \ {t} : reg[u].pc = "done" THEN "loaded" ELSE phase
  /\ UNCHANGED <<opt, tags, files, ctx_map, reading, graph, emb>>

\* A submission that the kernel refuses ends the program.
Accepted(fid) == ctxs[0] # bad_ctx /\ ctxs[0] \in ToSet(ctx_map.buckets) /\ fds[fid] # "none"
-----------------------------------------------------------------------------
\* Faulty: a tag that is the first id beyond gets no place.
Popular_Strict(first, popular) == {n \in {tags[i] : i \in 1..popular} : n > first}

\* The tags that get a place of their own.
Popular(first, popular) == {n \in {tags[i] : i \in 1..popular} : n >= first}

\* load_mem_graph: open the file, unless its partition file or the assertion in
\* open ends the program, and divide the n_graph places between the first ids
\* and the popular ones.
load_mem_graph ==
  /\ phase = "loaded"
  /\ \/ opt.n_graph = 0 /\ phase' = "graph_done" /\ UNCHANGED <<files, cur, graph>>
     \/ opt.n_graph > 0 /\ phase' = "exited" /\ UNCHANGED <<files, cur, graph>>
     \/ /\ opt.n_graph > 0 /\ phase' = "graph"
        /\ open("graph") /\ graph_fid' = Len(fds') /\ UNCHANGED index_fid
        /\ LET popular == IF opt.n_graph < num_points THEN Min2(Len(tags), opt.n_graph) ELSE 0
           IN  /\ max_cached_id' = opt.n_graph - popular
               /\ cached_popular' = [n \in Popular(max_cached_id', popular) |-> INF]
        /\ mem_graph_' = [i \in 0..(opt.n_graph - 1) |-> INF]
        /\ cur_popular_sid' = max_cached_id'
        /\ cur' = 0
  /\ UNCHANGED <<opt, tags, threads, in_flight, completed, sector_scratch,
                 sector_scratch_idx, sec_buf2id, emb>>

\* load_mem_emb: the first n_emb ids.
load_mem_emb ==
  /\ phase = "graph_done"
  /\ IF opt.n_emb = 0 THEN phase' = "ready" /\ UNCHANGED <<cur, emb>>
     ELSE /\ phase' = "emb"
          /\ max_cached_emb_id' = opt.n_emb
          /\ coord_cache' = [i \in 0..(opt.n_emb - 1) |-> INF]
          /\ cur' = 0
  /\ UNCHANGED <<opt, tags, files, threads, in_flight, completed,
                 sector_scratch, sector_scratch_idx, sec_buf2id, graph>>

Total == IF phase = "graph" THEN n_pages ELSE opt.n_emb

\* The batch before is parsed.
BatchDone == in_flight = {} /\ tmp_bufs = <<>>

\* Faulty: the next batch starts where this one did.
NextCur_Stays(batch) == cur
NextCur(batch) == cur + Cardinality(batch)

\* The page read for item i of a batch: a page of the graph file, or the page
\* of node i.
PageFor(i) == IF phase = "graph" \/ opt.rep THEN i ELSE PageOf(i)

\* Read the next pages into the next sector buffers.
SubmitBatch ==
  /\ phase \in {"graph", "emb"}
  /\ BatchDone /\ cur < Total
  /\ LET batch == cur..(Min2(cur + MaxReads, Total) - 1)
         Buf(i) == (sector_scratch_idx + i - cur) % MaxReads
         ItemAt(b) == CHOOSE i \in batch : Buf(i) = b
     IN  IF Accepted(IF phase = "graph" THEN graph_fid ELSE index_fid)
           THEN /\ in_flight' = {[buf |-> Buf(i), page |-> PageFor(i)] : i \in batch}
                /\ sec_buf2id' = [b \in {Buf(i) : i \in batch} |-> ItemAt(b)]
                /\ cur' = NextCur(batch)
                /\ sector_scratch_idx' = (sector_scratch_idx + Cardinality(batch)) % MaxReads
                /\ UNCHANGED phase
         ELSE phase' = "exited" /\ UNCHANGED <<in_flight, sec_buf2id, cur,
                                               sector_scratch_idx>>
  /\ UNCHANGED <<opt, tags, files, threads, completed, sector_scratch, graph,
                 emb>>

\* get_events(ctx, 1, n_ops): some reads of the batch have completed, in some
\* order.
GetEvents ==
  /\ phase \in {"graph", "emb"}
  /\ tmp_bufs = <<>>
  /\ \E done \in SUBSET in_flight \ {{}} :
       /\ in_flight' = in_flight \ done
       /\ tmp_bufs' \in SetToSeqs({r.buf : r \in done})
       /\ sector_scratch' = [b \in DOMAIN sector_scratch |->
            IF \E r \in done : r.buf = b THEN (CHOOSE r \in done : r.buf = b).page
            ELSE sector_scratch[b]]
  /\ slot' = 1
  /\ UNCHANGED <<opt, phase, tags, files, threads, sector_scratch_idx,
                 sec_buf2id, cur, graph, emb>>

\* Faulty: the next popular node is written to the same place.
CacheNeighbors_SamePlace(n) ==
  IF n < max_cached_id
    THEN /\ mem_graph_' = [mem_graph_ EXCEPT ![n] = n]
         /\ UNCHANGED <<cached_popular, cur_popular_sid>>
  ELSE IF n \in DOMAIN cached_popular
    THEN /\ mem_graph_' = [mem_graph_ EXCEPT ![cur_popular_sid] = n]
         /\ cached_popular' = [cached_popular EXCEPT ![n] = cur_popular_sid]
         /\ UNCHANGED cur_popular_sid
  ELSE UNCHANGED <<mem_graph_, cached_popular, cur_popular_sid>>

\* The neighbours of n, found on a page of the graph file, go to their place.
CacheNeighbors(n) ==
  IF n < max_cached_id
    THEN /\ mem_graph_' = [mem_graph_ EXCEPT ![n] = n]
         /\ UNCHANGED <<cached_popular, cur_popular_sid>>
  ELSE IF n \in DOMAIN cached_popular
    THEN /\ mem_graph_' = [mem_graph_ EXCEPT ![cur_popular_sid] = n]
         /\ cached_popular' = [cached_popular EXCEPT ![n] = cur_popular_sid]
         /\ cur_popular_sid' = cur_popular_sid + 1
  ELSE UNCHANGED <<mem_graph_, cached_popular, cur_popular_sid>>

\* A node of the page in the first buffer; behind the last one comes the next
\* buffer.
ParseNode ==
  /\ phase = "graph" /\ tmp_bufs # <<>>
  /\ LET layout == GraphPages[sector_scratch[Head(tmp_bufs)]]
     IN  IF slot > Len(layout)
           THEN /\ tmp_bufs' = Tail(tmp_bufs) /\ slot' = 1
                /\ UNCHANGED <<mem_graph_, cached_popular, cur_popular_sid>>
         ELSE /\ CacheNeighbors(layout[slot])
              /\ slot' = slot + 1
              /\ UNCHANGED tmp_bufs
  /\ UNCHANGED <<opt, phase, tags, files, threads, in_flight, sector_scratch,
                 sector_scratch_idx, sec_buf2id, cur, max_cached_id, emb>>

\* The node whose vector is found for n in a buffer that holds a page: at the
\* front of a page of its own, or at its place on the page.
VectorFor(n, page) ==
  IF opt.rep THEN page
  ELSE LET j == CHOOSE j \in DOMAIN Pages[PageOf(n)] : Pages[PageOf(n)][j] = n
       IN  IF j \in DOMAIN Pages[page] THEN Pages[page][j] ELSE INF

\* The vector in the first buffer, of the node it was read for.
ParseVector ==
  /\ phase = "emb" /\ tmp_bufs # <<>>
  /\ LET buf == Head(tmp_bufs)
         id == sec_buf2id[buf]
     IN  coord_cache' = [coord_cache EXCEPT ![id] = VectorFor(id, sector_scratch[buf])]
  /\ tmp_bufs' = Tail(tmp_bufs)
  /\ UNCHANGED <<opt, phase, tags, files, threads, in_flight, slot,
                 sector_scratch, sector_scratch_idx, sec_buf2id, cur,
                 graph, max_cached_emb_id>>

EndLoad ==
  /\ phase \in {"graph", "emb"}
  /\ BatchDone /\ cur = Total
  /\ phase' = IF phase = "graph" THEN "graph_done" ELSE "ready"
  /\ UNCHANGED <<opt, tags, files, threads, reading, graph, emb>>
-----------------------------------------------------------------------------
\* Free the scratch of every thread, and deregister all threads.
destroy_thread_data == ctx_map' = [ctx_map EXCEPT !.buckets = <<>>]

\* ~DecoIndex: all contexts go, and all files are closed.
Destroy ==
  /\ phase \in {"ready", "failed"}
  /\ phase' = "gone"
  /\ destroy_thread_data
  /\ UNCHANGED <<opt, tags, files, reg, ctxs, reading, graph, emb>>

Stopped == phase \in {"gone", "exited"} /\ UNCHANGED vars

Next == \/ load
        \/ \E t \in Threads : register_thread(t) \/ get_ctx(t) \/ CopyCtx(t)
        \/ load_mem_graph \/ load_mem_emb \/ SubmitBatch
        \/ GetEvents \/ ParseNode \/ ParseVector \/ EndLoad
        \/ Destroy \/ Stopped

Spec == Init /\ [][Next]_vars

\* The program runs on, and the kernel completes reads.
FairSpec == Spec /\ WF_vars(Next)
-----------------------------------------------------------------------------
\* What a search asks the caches.
node_in_mem_pos(n) ==
  IF opt.n_graph = 0 THEN INF
  ELSE IF n < max_cached_id THEN n
  ELSE IF n \in DOMAIN cached_popular THEN cached_popular[n] ELSE INF
get_mem_emb_addr(n) == IF n < max_cached_emb_id THEN n ELSE INF

\* Once everything is loaded, whatever the order of the completions, a search
\* that finds a node in a cache finds its own neighbours, or vector, there.
CachesAreOwn ==
  phase = "ready" => \A n \in Nodes :
    /\ node_in_mem_pos(n) # INF => mem_graph_[node_in_mem_pos(n)] = n
    /\ get_mem_emb_addr(n) # INF => coord_cache[get_mem_emb_addr(n)] = n

\* The caches hold what was asked for: the first tags and, in the places left,
\* the first ids, of no more nodes than n_graph.
CachesAreFilled ==
  phase = "ready" /\ opt.n_graph > 0 =>
    LET cached == {n \in Nodes : node_in_mem_pos(n) # INF}
    IN  /\ opt.n_graph < num_points =>
             {tags[i] : i \in 1..Min2(Len(tags), opt.n_graph)} \subseteq cached
        /\ 0..(max_cached_id - 1) \subseteq cached
        /\ Cardinality(cached) <= opt.n_graph
        /\ \A n \in cached : node_in_mem_pos(n) \in DOMAIN mem_graph_

\* Loading ends.
LoadEnds == <>(phase \in {"gone", "exited"})
=============================================================================
