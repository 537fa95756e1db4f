---------------------------- MODULE ReadPipeline ----------------------------
(***************************************************************************)
(* The read pipeline that drives the queries of one thread in page_search  *)
(* and page_search_dup_graph (src/gorgeous), with the graph left out:      *)
(* which candidates a round selects is arbitrary, how their reads share    *)
(* the ring of sector buffers is exact.                                    *)
(*                                                                         *)
(* Reads are numbered in the order they are issued and read t goes to      *)
(* sector buffer t % MaxReads: sector_scratch_idx advances by one modulo   *)
(* MAX_N_SECTOR_READS, and a query, which resets it to 0, starts its       *)
(* numbering at a multiple of MaxReads.  The kernel completes reads in any *)
(* order, and nothing in the code checks that the buffer it hands out is   *)
(* free.                                                                   *)
(***************************************************************************)
EXTENDS Integers, Sequences, FiniteSets

CONSTANTS
  BeamWidth,      \* beam_width
  DispatchBelow,  \* a round starts when n_proc_in_q is below this
  MemoryShare,    \* cached nodes a round may take on top of beam_width
  MaxReads,       \* MAX_N_SECTOR_READS, the size of the ring
  IoLimit,        \* io_limit
  MaxCandidates,  \* nodes a query can select, each once (visited)
  EmbeddingL,     \* bound on embedding_search_L
  Queries         \* queries this thread answers in one runTask

ASSUME PipelineAssumption ==
  /\ BeamWidth \in Nat \ {0}
  /\ DispatchBelow \in Nat
  /\ MemoryShare \in Nat
  /\ MaxReads \in Nat \ {0}
  /\ BeamWidth <= MaxReads        \* both searches throw otherwise
  /\ IoLimit \in Nat
  /\ MaxCandidates \in Nat
  /\ EmbeddingL \in Nat
  /\ Queries \in Nat

VARIABLES
  pc,             \* next part of the code to run
  query,          \* index of the current query
  base,           \* number of the query's first read
  issued,         \* number of the next read
  flying,         \* reads submitted and not yet returned by get_events
  sector_buffers, \* reads returned and not yet processed, in queue order
  sec_buf2ftr,    \* read each unfinished sector buffer was issued for
  n_io_in_q, n_proc_in_q, n_cached_in_q, \* the counters of the loop
  selected,       \* candidates the query has selected
  n_ops,          \* reads of the embedding batch still awaited
  embedding_search_L, \* candidates the embedding phase looks at
  l_idx           \* the next of them

\* What the thread keeps from one query to the next.
ring == <<issued, flying, sector_buffers>>
counters == <<n_io_in_q, n_proc_in_q, n_cached_in_q>>
embedding == <<n_ops, embedding_search_L, l_idx>>
vars == <<pc, query, base, ring, sec_buf2ftr, counters, selected, embedding>>

Buffer(t) == t % MaxReads
Reads == 0..(issued - 1)
NoNode == -1      \* the null pointer operator[] creates for a missing buffer
NoEntries == [b \in {} |-> NoNode]

\* The order in which get_events hands back n of the reads in flight.
Arrivals(n) ==
  {s \in [1..n -> flying] : \A i, j \in 1..n : s[i] = s[j] => i = j}
ReadsOf(s) == {s[i] : i \in 1..Len(s)}

\* insert leaves an existing entry alone.
InsertNew(reads) ==
  [b \in DOMAIN sec_buf2ftr \cup {Buffer(t) : t \in reads} |->
     IF b \in DOMAIN sec_buf2ftr THEN sec_buf2ftr[b]
     ELSE CHOOSE t \in reads : Buffer(t) = b]

\* operator[] on a missing buffer adds a null entry.
TouchAll(reads) ==
  [b \in DOMAIN sec_buf2ftr \cup {Buffer(t) : t \in reads} |->
     IF b \in DOMAIN sec_buf2ftr THEN sec_buf2ftr[b] ELSE NoNode]

\* Faulty: the entry of a processed buffer stays.
Erase_Forgotten(b) == sec_buf2ftr

Erase(b) == [c \in DOMAIN sec_buf2ftr \ {b} |-> sec_buf2ftr[c]]

\* The loop runs while num_ios < io_limit.
LoopEntry(num_ios) == IF num_ios < IoLimit THEN "process" ELSE "refine"
-----------------------------------------------------------------------------
Init == /\ query = 0 /\ pc = "start"
        /\ base = 0 /\ issued = 0
        /\ flying = {} /\ sector_buffers = <<>> /\ sec_buf2ftr = NoEntries
        /\ n_io_in_q = 0 /\ n_proc_in_q = 0 /\ n_cached_in_q = 0
        /\ selected = 0
        /\ n_ops = 0 /\ embedding_search_L = 0 /\ l_idx = 0

\* The thread takes a query: reset() rewinds the ring, the counters and the
\* map are fresh, the queue and the reads in flight are what they were.
StartQuery ==
  /\ pc = "start"
  /\ query < Queries
  /\ query' = query + 1
  /\ \E k \in 0..issued : /\ MaxReads * k >= issued
                          /\ MaxReads * k < issued + MaxReads
                          /\ base' = MaxReads * k
  /\ issued' = base'
  /\ sec_buf2ftr' = NoEntries
  /\ n_io_in_q' = 0 /\ n_proc_in_q' = 0 /\ n_cached_in_q' = 0
  /\ selected' = 0 /\ n_ops' = 0 /\ embedding_search_L' = 0 /\ l_idx' = 0
  /\ pc' = LoopEntry(0)
  /\ UNCHANGED <<flying, sector_buffers>>

\* Process one completed sector, if there is one, then drain the cached
\* nodes.  A buffer unknown to the map ends the program ("(bug) read
\* error!"); a null entry is dereferenced.
Process ==
  /\ pc = "process"
  /\ n_cached_in_q' = 0
  /\ IF n_proc_in_q = 0
       THEN /\ pc' = "collect"
            /\ UNCHANGED <<sector_buffers, sec_buf2ftr, n_proc_in_q>>
       ELSE LET b == Buffer(Head(sector_buffers))
            IN  /\ sector_buffers' = Tail(sector_buffers)
                /\ sec_buf2ftr' = Erase(b)
                /\ n_proc_in_q' = n_proc_in_q - 1
                /\ pc' = IF b \notin DOMAIN sec_buf2ftr THEN "read_error"
                         ELSE IF sec_buf2ftr[b] = NoNode THEN "crash"
                         ELSE "collect"
  /\ UNCHANGED <<query, base, issued, flying, n_io_in_q, selected, embedding>>

\* get_events(min_r, n_io_in_q): min_r is 1 when there is nothing to process,
\* and then the thread blocks until a read completes.
Collect(n) ==
  /\ pc = "collect"
  /\ n <= n_io_in_q
  /\ n_io_in_q > 0 /\ n_proc_in_q = 0 => n >= 1
  /\ \E s \in Arrivals(n) :
       /\ sector_buffers' = sector_buffers \o s
       /\ flying' = flying \ ReadsOf(s)
       /\ sec_buf2ftr' = TouchAll(ReadsOf(s))
  /\ n_io_in_q' = n_io_in_q - n
  /\ n_proc_in_q' = n_proc_in_q + n
  /\ pc' = "dispatch"
  /\ UNCHANGED <<query, base, issued, n_cached_in_q, selected, embedding>>

\* Faulty: a round starts with reads outstanding.
RoundOpen_IgnoresReads == n_cached_in_q = 0 /\ n_proc_in_q < DispatchBelow

\* Faulty: a round starts however many sectors wait to be processed.
RoundOpen_IgnoresQueue == n_io_in_q = 0 /\ n_cached_in_q = 0

RoundOpen == n_io_in_q = 0 /\ n_cached_in_q = 0 /\ n_proc_in_q < DispatchBelow

\* Faulty: the sectors that wait to be processed are not asked for.
LoopEnds_IgnoresQueue(r, c) == n_io_in_q + r = 0 /\ n_cached_in_q + c = 0

\* Faulty: an empty round is followed by another.
LoopEnds_Never(r, c) == FALSE

\* Nothing selected and nothing left in any queue: break.
LoopEnds(r, c) ==
  n_io_in_q + r = 0 /\ n_cached_in_q + c = 0 /\ n_proc_in_q = 0

\* A round selects candidates: r are read, c have their neighbours in memory.
Dispatch(r, c) ==
  /\ pc = "dispatch"
  /\ RoundOpen
  /\ r <= BeamWidth
  /\ r + c <= BeamWidth + MemoryShare
  /\ selected + r + c <= MaxCandidates
  /\ selected' = selected + r + c
  /\ LET new == issued..(issued + r - 1)
     IN  /\ flying' = flying \cup new
         /\ sec_buf2ftr' = InsertNew(new)
  /\ issued' = issued + r
  /\ n_io_in_q' = n_io_in_q + r
  /\ n_cached_in_q' = n_cached_in_q + c
  /\ pc' = IF LoopEnds(r, c) THEN "refine" ELSE LoopEntry(issued + r - base)
  /\ UNCHANGED <<query, base, sector_buffers, n_proc_in_q, embedding>>

\* The condition of the round does not hold: loop.
SkipDispatch ==
  /\ pc = "dispatch"
  /\ ~RoundOpen
  /\ pc' = LoopEntry(issued - base)
  /\ UNCHANGED <<query, base, ring, sec_buf2ftr, counters, selected, embedding>>

\* The traversal is over; how many candidates are refined depends on the length
\* of the candidate list.
BeginRefine ==
  /\ pc = "refine"
  /\ embedding_search_L' \in 0..EmbeddingL
  /\ l_idx' = 0
  /\ pc' = "embed"
  /\ UNCHANGED <<query, base, ring, sec_buf2ftr, counters, selected, n_ops>>

\* Faulty: the batch is not cut at embedding_search_L.
BatchSize_Whole == MaxReads

\* Candidates the next batch of the embedding phase looks at.
BatchSize ==
  IF embedding_search_L - l_idx < MaxReads THEN embedding_search_L - l_idx
  ELSE MaxReads

\* One batch of the embedding phase; r of its candidates have to be read.
SubmitEmbeddings(r) ==
  /\ pc = "embed"
  /\ l_idx < embedding_search_L
  /\ r <= BatchSize
  /\ l_idx' = l_idx + BatchSize
  /\ flying' = flying \cup (issued..(issued + r - 1))
  /\ issued' = issued + r
  /\ n_ops' = r
  /\ pc' = "drain"
  /\ UNCHANGED <<query, base, sector_buffers, sec_buf2ftr, counters, selected,
                 embedding_search_L>>

\* get_events(1, n_ops), until the batch is complete.
DrainEmbeddings(finished) ==
  /\ pc = "drain"
  /\ Cardinality(finished) \in 1..n_ops
  /\ flying' = flying \ finished
  /\ n_ops' = n_ops - Cardinality(finished)
  /\ UNCHANGED <<pc, query, base, issued, sector_buffers, sec_buf2ftr, counters,
                 selected, embedding_search_L, l_idx>>

EndBatch ==
  /\ pc = "drain"
  /\ n_ops = 0
  /\ pc' = "embed"
  /\ UNCHANGED <<query, base, ring, sec_buf2ftr, counters, selected, embedding>>

\* The results are sorted and copied out; the thread asks for another query.
EndQuery ==
  /\ pc = "embed"
  /\ l_idx >= embedding_search_L
  /\ pc' = "start"
  /\ UNCHANGED <<query, base, ring, sec_buf2ftr, counters, selected, embedding>>

\* No query is left, or the program is gone.
Stopped ==
  /\ \/ pc \in {"read_error", "crash"}
     \/ pc = "start" /\ query = Queries
  /\ UNCHANGED vars

Next == \/ StartQuery
        \/ Process
        \/ \E n \in 0..n_io_in_q : Collect(n)
        \/ \E r \in 0..BeamWidth, c \in 0..(BeamWidth + MemoryShare) : Dispatch(r, c)
        \/ SkipDispatch
        \/ BeginRefine
        \/ \E r \in 0..MaxReads : SubmitEmbeddings(r)
        \/ \E finished \in SUBSET flying : DrainEmbeddings(finished)
        \/ EndBatch \/ EndQuery \/ Stopped

Spec == Init /\ [][Next]_vars

\* The thread keeps running and the kernel completes what it was given.
FairSpec == Spec /\ WF_vars(Next)
-----------------------------------------------------------------------------
InQueue == {sector_buffers[i] : i \in 1..Len(sector_buffers)}
Owed == flying \cup InQueue
Traversal == {"process", "collect", "dispatch"}

\* Every variable keeps its type.
TypeOK ==
  /\ pc \in Traversal \cup {"start", "refine", "embed", "drain",
                         "read_error", "crash"}
  /\ query \in 0..Queries
  /\ base \in Nat /\ issued \in Nat
  /\ flying \subseteq Reads
  /\ sector_buffers \in Seq(Reads)
  /\ \A b \in DOMAIN sec_buf2ftr : sec_buf2ftr[b] \in Reads \cup {NoNode}
  /\ n_io_in_q \in Nat /\ n_proc_in_q \in Nat /\ n_cached_in_q \in Nat
  /\ selected \in 0..MaxCandidates
  /\ n_ops \in Nat
  /\ embedding_search_L \in 0..EmbeddingL
  /\ l_idx \in 0..embedding_search_L

\* No two reads that are in flight or wait to be processed share a sector
\* buffer: the kernel is never given a buffer whose completed page is still to
\* be parsed, although sector_scratch_idx advances without looking.
BuffersExclusive ==
  \A s, t \in Owed : Buffer(s) = Buffer(t) => s = t

\* The sector parsed next is recorded under the node it was read for, so a page
\* is never interpreted with another node's page id.
RightNode ==
  pc = "process" /\ n_proc_in_q > 0 =>
    LET t == Head(sector_buffers)
    IN  Buffer(t) \in DOMAIN sec_buf2ftr /\ sec_buf2ftr[Buffer(t)] = t

\* The circular queues never lap themselves: they have MaxReads places and
\* push does not check.
QueuesFit == Len(sector_buffers) <= MaxReads /\ n_cached_in_q <= MaxReads

\* The counters count what they stand for, so the loop neither waits for a
\* read that was returned nor leaves with one still owed.
CountersExact ==
  /\ pc \in Traversal => /\ n_io_in_q = Cardinality(flying)
                         /\ n_proc_in_q = Len(sector_buffers)
  /\ pc = "drain" => n_ops = Cardinality(flying)

\* When the traversal hands over to the embedding phase, and between queries,
\* nothing is in flight and nothing waits: the completion context and the queue
\* of the thread are as the next user expects them.
QuietHandover == pc \in {"start", "refine", "embed"} => Owed = {}

\* The assertion of both searches, "(bug) read error!", never fires.
NoReadError == pc # "read_error"

\* The thread answers all its queries.
QueriesEnd == <>(pc = "start" /\ query = Queries)
-----------------------------------------------------------------------------
(***************************************************************************)
(* Why the ring is large enough.  A round issues at most BeamWidth reads,  *)
(* none is in flight when it starts and fewer than DispatchBelow wait, and *)
(* the queue is first in first out.  A read that waits with k reads behind *)
(* it, in the queue or in flight, is therefore no more than BeamWidth + k  *)
(* numbers old, and at most BeamWidth + DispatchBelow - 2 are behind it.   *)
(***************************************************************************)
RingHoldsWindow == 2 * BeamWidth + DispatchBelow - 2 <= MaxReads
NoIoLimit == IoLimit > MaxCandidates
CachedQueueHoldsRound == BeamWidth + MemoryShare <= MaxReads

\* How far the ring has advanced since a read that is still owed.
Window ==
  /\ pc \in Traversal =>
       /\ n_proc_in_q + n_io_in_q < BeamWidth + DispatchBelow
       /\ \A t \in flying : issued - t <= BeamWidth
       /\ \A i \in 1..Len(sector_buffers) :
            issued - sector_buffers[i] <= BeamWidth + (Len(sector_buffers) - i) + n_io_in_q
  /\ pc = "drain" => \A t \in flying : issued - t <= MaxReads

\* A read is owed once, in flight or at one place of the queue.
OwedOnce ==
  /\ flying \cap InQueue = {}
  /\ \A i, j \in 1..Len(sector_buffers) :
       sector_buffers[i] = sector_buffers[j] => i = j

\* During the traversal the map records exactly the reads that are owed.
MapExact ==
  pc \in Traversal =>
    /\ DOMAIN sec_buf2ftr = {Buffer(t) : t \in Owed}
    /\ \A t \in Owed : sec_buf2ftr[Buffer(t)] = t

\* What every step preserves when the ring is large enough and no traversal
\* reaches io_limit (checked here, proved in ReadPipelineProofs).
IInv ==
  /\ TypeOK
  /\ pc \notin {"read_error", "crash"}
  /\ pc \in Traversal => base <= issued /\ issued - base <= selected
  /\ pc \notin Traversal => sector_buffers = <<>>
  /\ pc \in {"start", "refine", "embed"} => flying = {}
  /\ n_cached_in_q <= BeamWidth + MemoryShare
  /\ CountersExact
  /\ OwedOnce
  /\ Window
  /\ MapExact
=============================================================================
