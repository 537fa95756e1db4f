------------------------- MODULE GorgeousLoadProofs -------------------------
(***************************************************************************)
(* Proofs about GorgeousLoad for every index, layout, program and number   *)
(* of sector buffers: whatever the order in which reads complete, and      *)
(* whatever the threads read for their contexts, the caches of a loaded    *)
(* index hold each node's own neighbours and vector, and the nodes that    *)
(* they were to hold.                                                      *)
(***************************************************************************)
EXTENDS GorgeousLoad, FiniteSetTheorems, SequenceTheorems, TLAPS

Bufs == 0..(MaxReads - 1)
InFlight == {r.buf : r \in in_flight}
Reading == phase \in {"graph", "emb"}

\* Reads of a batch are in different buffers, and each buffer is for the item
\* that sec_buf2id says.
BatchInv ==
  /\ opt \in Options /\ tags \in TagLists
  /\ cur \in Nat /\ slot \in Nat \ {0} /\ sector_scratch_idx \in Bufs
  /\ DOMAIN sector_scratch = Bufs
  /\ InFlight \subseteq Bufs
  /\ \A r, q \in in_flight : r.buf = q.buf => r = q
  /\ tmp_bufs \in Seq(Bufs) /\ IsInjective(tmp_bufs)
  /\ ToSet(tmp_bufs) \cap InFlight = {}
  /\ ~Reading => in_flight = {} /\ tmp_bufs = <<>>
  /\ Reading =>
       /\ cur <= Total
       /\ \A b \in InFlight \cup ToSet(tmp_bufs) :
            b \in DOMAIN sec_buf2id /\ sec_buf2id[b] \in 0..(cur - 1)
       /\ \A b, c \in InFlight \cup ToSet(tmp_bufs) : sec_buf2id[b] = sec_buf2id[c] => b = c
       /\ \A r \in in_flight : r.page = PageFor(sec_buf2id[r.buf])
       /\ \A b \in ToSet(tmp_bufs) : sector_scratch[b] = PageFor(sec_buf2id[b])

\* The items of the batch that are not parsed.
Waiting == {sec_buf2id[b] : b \in InFlight \cup ToSet(tmp_bufs)}

\* A node whose neighbours were found: on a page that is parsed, or before the
\* slot on the page that is being parsed.
Parsed(n) ==
  \E p \in 0..(cur - 1) :
    /\ n \in ToSet(GraphPages[p])
    /\ \/ p \notin Waiting
       \/ /\ tmp_bufs # <<>> /\ p = sec_buf2id[Head(tmp_bufs)]
          /\ \E j \in DOMAIN GraphPages[p] : j < slot /\ GraphPages[p][j] = n

\* The popular nodes that have their place.
Entered == {n \in DOMAIN cached_popular : cached_popular[n] # INF}
GraphLoaded == phase \in {"graph_done", "emb", "ready"}

\* The places are divided between the first ids and the popular nodes.
SharesInv ==
  (phase = "graph" \/ GraphLoaded) /\ opt.n_graph > 0 =>
    /\ max_cached_id \in Nat
    /\ DOMAIN cached_popular \subseteq Nodes \ 0..(max_cached_id - 1)
    /\ max_cached_id + Cardinality(DOMAIN cached_popular) <= opt.n_graph
    /\ opt.n_graph < num_points =>
         \A i \in 1..Min2(Len(tags), opt.n_graph) :
           tags[i] < max_cached_id \/ tags[i] \in DOMAIN cached_popular
    /\ DOMAIN mem_graph_ = 0..(opt.n_graph - 1)

\* The popular nodes entered have the places from max_cached_id on, each its own.
PlacesInv ==
  (phase = "graph" \/ GraphLoaded) /\ opt.n_graph > 0 =>
    /\ cur_popular_sid = max_cached_id + Cardinality(Entered)
    /\ \A n \in Entered : /\ cached_popular[n] \in max_cached_id..(cur_popular_sid - 1)
                          /\ mem_graph_[cached_popular[n]] = n

\* What has been parsed has been cached.
GraphInv ==
  /\ phase = "graph" =>
       /\ opt.n_graph > 0
       /\ \A n \in Nodes : Parsed(n) => /\ n < max_cached_id => mem_graph_[n] = n
                                        /\ n \in DOMAIN cached_popular => n \in Entered
       /\ \A n \in Entered : Parsed(n)
  /\ GraphLoaded /\ opt.n_graph > 0 =>
       \A n \in Nodes : /\ n < max_cached_id => mem_graph_[n] = n
                        /\ n \in DOMAIN cached_popular => n \in Entered

EmbInv ==
  /\ phase \notin {"emb", "ready", "exited", "gone"} => max_cached_emb_id = 0
  /\ phase \in {"emb", "ready"} => max_cached_emb_id \in Nat
  /\ phase = "emb" =>
       /\ max_cached_emb_id = opt.n_emb /\ DOMAIN coord_cache = 0..(opt.n_emb - 1)
       /\ \A i \in 0..(cur - 1) : i \notin Waiting => coord_cache[i] = i
  /\ phase = "ready" => \A i \in 0..(max_cached_emb_id - 1) : coord_cache[i] = i

LoadInv == BatchInv /\ SharesInv /\ PlacesInv /\ GraphInv /\ EmbInv

-----------------------------------------------------------------------------
\* The constants, as the proofs need them.
LEMMA Constants ==
  /\ MaxReads \in Nat \ {0} /\ n_pages \in Nat
  /\ num_points \in Nat \ {0} /\ Nodes = 0..(num_points - 1)
  /\ INF = num_points + 1
  /\ \A o \in Options : o.n_graph \in 0..num_points /\ o.n_emb \in 0..num_points
  /\ IsFiniteSet(Nodes) /\ Cardinality(Nodes) = num_points
<1>1. IsFiniteSet(Nodes) /\ Nodes # {} /\ Nodes = 0..(num_points - 1)
  BY GorgeousLoadAssumption DEF num_points
<1>2. num_points \in Nat
  BY <1>1, FS_CardinalityType DEF num_points
<1>3. num_points # 0
  BY <1>1, FS_EmptySet DEF num_points
<1>4. \A o \in Options : o.n_graph \in 0..num_points /\ o.n_emb \in 0..num_points
  BY GorgeousLoadAssumption DEF num_points
<1>5. n_pages \in Nat
  <2> DEFINE C == n_graph_node_per_sector
             t == num_points + C - 1
  <2>1. C \in Nat \ {0} /\ t \in Nat
    BY <1>2, GorgeousLoadAssumption
  <2> HIDE DEF C, t
  <2>2. t \div C \in Nat
    BY <2>1, SMT
  <2> QED BY <2>2 DEF n_pages, C, t
<1>6. MaxReads \in Nat \ {0}
  BY GorgeousLoadAssumption
<1> QED BY <1>1, <1>2, <1>3, <1>4, <1>5, <1>6 DEF num_points, INF

\* A page of the graph file lists nodes, each once; a node is on one page.
LEMMA GraphPage ==
  /\ \A p \in 0..(n_pages - 1) : GraphPages[p] \in Seq(Nodes) /\ IsInjective(GraphPages[p])
  /\ \A n \in Nodes : \E p \in 0..(n_pages - 1) : \A q \in 0..(n_pages - 1) :
       n \in ToSet(GraphPages[q]) <=> q = p
<1>1. \A layout \in {Pages, GraphPages} :
        /\ \A p \in DOMAIN layout : layout[p] \in Seq(Nodes) /\ IsInjective(layout[p])
        /\ \A n \in Nodes : \E p \in DOMAIN layout : \A q \in DOMAIN layout :
             n \in ToSet(layout[q]) <=> q = p
  BY Zenon, GorgeousLoadAssumption
<1>2. GraphPages \in {Pages, GraphPages} /\ DOMAIN GraphPages = 0..(n_pages - 1)
  BY Zenon, GorgeousLoadAssumption
<1>3. \A p \in 0..(n_pages - 1) : GraphPages[p] \in Seq(Nodes) /\ IsInjective(GraphPages[p])
  BY Zenon, <1>1, <1>2
<1>4. ASSUME NEW n \in Nodes
      PROVE  \E p \in 0..(n_pages - 1) : \A q \in 0..(n_pages - 1) :
               n \in ToSet(GraphPages[q]) <=> q = p
  <2>1. PICK p \in DOMAIN GraphPages : \A q \in DOMAIN GraphPages : n \in ToSet(GraphPages[q]) <=> q = p
    BY Zenon, <1>1, <1>2
  <2> QED BY <1>2, <2>1
<1> QED BY <1>3, <1>4

\* The vector of a node is found on the page that is read for it.
LEMMA VectorIsThere ==
  ASSUME phase = "emb", NEW i \in Nodes
  PROVE  VectorFor(i, PageFor(i)) = i
<1>1. CASE opt.rep
  BY <1>1 DEF VectorFor, PageFor
<1>2. CASE ~opt.rep
  <2>1. PICK p \in DOMAIN Pages : \A q \in DOMAIN Pages : i \in ToSet(Pages[q]) <=> q = p
    BY GorgeousLoadAssumption
  <2>2. PageOf(i) \in DOMAIN Pages /\ i \in ToSet(Pages[PageOf(i)])
    BY <2>1 DEF PageOf
  <2>3. \E j \in DOMAIN Pages[PageOf(i)] : Pages[PageOf(i)][j] = i
    BY <2>2 DEF ToSet
  <2>4. PageFor(i) = PageOf(i)
    BY <1>2 DEF PageFor
  <2> QED BY <1>2, <2>3, <2>4 DEF VectorFor
<1> QED BY <1>1, <1>2

\* Sequences without repetitions: the first element and the others.
LEMMA TailSet ==
  ASSUME NEW S, NEW s \in Seq(S), s # <<>>, IsInjective(s)
  PROVE  /\ Head(s) \in ToSet(s) /\ Tail(s) \in Seq(S) /\ IsInjective(Tail(s))
         /\ ToSet(Tail(s)) = ToSet(s) \ {Head(s)}
<1>1. /\ Len(s) \in Nat \ {0} /\ DOMAIN s = 1..Len(s) /\ Head(s) = s[1]
  BY LenProperties, EmptySeq
<1>2. /\ Tail(s) \in Seq(S) /\ Len(Tail(s)) = Len(s) - 1
      /\ \A i \in 1..Len(Tail(s)) : Tail(s)[i] = s[i + 1]
  BY HeadTailProperties
<1>3. DOMAIN Tail(s) = 1..(Len(s) - 1)
  BY <1>2, LenProperties
<1>4. IsInjective(Tail(s))
  BY <1>1, <1>2, <1>3 DEF IsInjective
<1>5. ToSet(Tail(s)) \subseteq ToSet(s) \ {Head(s)}
  BY <1>1, <1>2, <1>3 DEF IsInjective, ToSet
<1>6. ASSUME NEW x \in ToSet(s) \ {Head(s)} PROVE x \in ToSet(Tail(s))
  <2>1. PICK i \in 1..Len(s) : x = s[i]
    BY <1>1 DEF ToSet
  <2>2. i # 1
    BY <2>1, <1>1
  <2> DEFINE k == i - 1
  <2>3. k \in 1..(Len(s) - 1) /\ s[k + 1] = x
    BY <2>1, <2>2, <1>1
  <2>4. Tail(s)[k] = x /\ k \in DOMAIN Tail(s)
    BY <2>3, <1>2, <1>3
  <2> QED BY <2>4 DEF ToSet
<1>7. Head(s) \in ToSet(s)
  BY <1>1 DEF ToSet
<1>8. ToSet(Tail(s)) = ToSet(s) \ {Head(s)}
  BY <1>5, <1>6
<1> QED BY <1>2, <1>4, <1>7, <1>8

\* The buffers of a batch are different ones.
LEMMA DivisionFacts ==
  ASSUME NEW M \in Nat \ {0}, NEW t \in Nat
  PROVE  /\ t % M \in 0..(M - 1)
         /\ t \div M \in Int
         /\ t = M * (t \div M) + (t % M)
BY SMT

LEMMA WithinATurn ==
  ASSUME NEW M \in Nat \ {0}, NEW s \in Nat, NEW t \in Nat, s < t, t - s < M
  PROVE  s % M # t % M
<1> SUFFICES ASSUME s % M = t % M PROVE FALSE
  OBVIOUS
<1> DEFINE qs == s \div M
           qt == t \div M
           rest == s % M
<1>1. qs \in Int /\ qt \in Int /\ rest \in Int /\ s = M * qs + rest /\ t = M * qt + rest
  BY DivisionFacts
<1> HIDE DEF qs, qt, rest
<1>2. t - s = M * (qt - qs)
  <2>1. M * (qt - qs) = M * qt - M * qs
    BY <1>1, SMT
  <2> QED BY <1>1, <2>1
<1>3. CASE qt - qs <= 0
  <2>1. M * (qs - qt) >= 0
    BY <1>1, <1>3
  <2>2. M * (qs - qt) = -(M * (qt - qs))
    BY <1>1
  <2> QED BY <2>1, <2>2, <1>2
<1>4. CASE qt - qs > 0
  <2>1. PICK k \in Nat : qt - qs = k + 1
    BY <1>1, <1>4
  <2>2. M * (qt - qs) = M * k + M
    BY <2>1
  <2>3. M * k >= 0
    OBVIOUS
  <2> QED BY <1>2, <2>2, <2>3
<1> QED BY <1>1, <1>3, <1>4

-----------------------------------------------------------------------------
LEMMA InitPart ==
  ASSUME Init
  PROVE  LoadInv
<1>1. tmp_bufs = <<>> /\ tmp_bufs \in Seq(Bufs) /\ IsInjective(tmp_bufs) /\ ToSet(tmp_bufs) = {}
  BY EmptySeq DEF Init, IsInjective, ToSet
<1>2. BatchInv
  BY <1>1, Constants DEF Init, BatchInv, Bufs, InFlight, Reading
<1> QED BY <1>2 DEF Init, LoadInv, SharesInv, PlacesInv, GraphInv, EmbInv, GraphLoaded

\* What the division says does not look at the reads.
LEMMA SharesKept ==
  ASSUME SharesInv, PlacesInv, UNCHANGED <<opt, phase, tags, graph>>
  PROVE  SharesInv' /\ PlacesInv'
<1>1. /\ max_cached_id' = max_cached_id /\ cached_popular' = cached_popular
      /\ mem_graph_' = mem_graph_ /\ cur_popular_sid' = cur_popular_sid
  BY DEF graph
<1>2. Entered' = Entered /\ (GraphLoaded' <=> GraphLoaded)
  BY <1>1 DEF Entered, GraphLoaded
<1>3. SharesInv'
  BY <1>1, <1>2 DEF SharesInv
<1>4. PlacesInv'
  BY <1>1, <1>2 DEF PlacesInv
<1> QED BY <1>3, <1>4

LEMMA UnchangedPart ==
  ASSUME LoadInv, UNCHANGED <<opt, phase, tags, reading, graph, emb>>
  PROVE  LoadInv'
<1>1. /\ in_flight' = in_flight /\ tmp_bufs' = tmp_bufs /\ slot' = slot
      /\ sector_scratch' = sector_scratch /\ sector_scratch_idx' = sector_scratch_idx
      /\ sec_buf2id' = sec_buf2id /\ cur' = cur
  BY DEF reading, completed
<1>2. /\ InFlight' = InFlight /\ Total' = Total /\ Waiting' = Waiting
      /\ \A i : PageFor(i)' = PageFor(i)
      /\ \A n : Parsed(n)' <=> Parsed(n)
  <2>1. InFlight' = InFlight
    BY <1>1 DEF InFlight
  <2>2. Total' = Total
    BY DEF Total
  <2>3. Waiting' = Waiting
    BY <1>1, <2>1 DEF Waiting
  <2>4. ASSUME NEW i PROVE PageFor(i)' = PageFor(i)
    BY DEF PageFor
  <2>5. ASSUME NEW n PROVE Parsed(n)' <=> Parsed(n)
    BY <1>1, <2>3 DEF Parsed
  <2> QED BY <2>1, <2>2, <2>3, <2>4, <2>5
<1>3. BatchInv'
  BY <1>1, <1>2 DEF LoadInv, BatchInv, Reading
<1>4. SharesInv' /\ PlacesInv'
  BY SharesKept DEF LoadInv
<1>5. GraphInv'
  BY <1>2 DEF LoadInv, GraphInv, Entered, GraphLoaded, graph
<1>6. EmbInv'
  BY <1>1, <1>2 DEF LoadInv, EmbInv, emb
<1> QED BY <1>3, <1>4, <1>5, <1>6 DEF LoadInv

\* Steps before the caches are loaded, and behind.
LEMMA QuietPart ==
  ASSUME LoadInv, UNCHANGED <<opt, tags, reading, graph, emb>>,
         phase \in {"new", "setup", "loaded", "ready", "failed"},
         phase' \in {"setup", "loaded", "failed", "exited", "gone"},
         phase = "ready" => phase' = "gone"
  PROVE  LoadInv'
<1>1. BatchInv'
  BY DEF LoadInv, BatchInv, reading, completed, Reading, InFlight
<1>2. max_cached_emb_id' = 0 \/ phase' \in {"exited", "gone"}
  BY DEF LoadInv, EmbInv, emb
<1> QED BY <1>1, <1>2 DEF LoadInv, SharesInv, PlacesInv, GraphInv, EmbInv, GraphLoaded

\* Registration does not touch the caches.
LEMMA RegisterPart ==
  ASSUME LoadInv, NEW t, load \/ register_thread(t) \/ get_ctx(t) \/ CopyCtx(t) \/ Destroy
  PROVE  LoadInv'
<1>1. CASE load
  BY <1>1, QuietPart DEF load
<1>2. CASE register_thread(t)
  BY <1>2, UnchangedPart DEF register_thread
<1>3. CASE get_ctx(t)
  BY <1>3, UnchangedPart DEF get_ctx
<1>4. CASE CopyCtx(t)
  BY <1>4, QuietPart DEF CopyCtx
<1>5. CASE Destroy
  BY <1>5, QuietPart DEF Destroy
<1> QED BY <1>1, <1>2, <1>3, <1>4, <1>5

\* The places of the popular nodes begin behind those of the first ids.
LEMMA Divided ==
  ASSUME LoadInv, load_mem_graph, phase' = "graph"
  PROVE  /\ max_cached_id' \in 0..opt.n_graph
         /\ DOMAIN cached_popular' \subseteq Nodes \ 0..(max_cached_id' - 1)
         /\ max_cached_id' + Cardinality(DOMAIN cached_popular') <= opt.n_graph
         /\ opt.n_graph < num_points =>
              \A i \in 1..Min2(Len(tags), opt.n_graph) :
                tags[i] < max_cached_id' \/ tags[i] \in DOMAIN cached_popular'
         /\ \A n \in DOMAIN cached_popular' : cached_popular'[n] = INF
<1> DEFINE popular == IF opt.n_graph < num_points THEN Min2(Len(tags), opt.n_graph) ELSE 0
           first == opt.n_graph - popular
<1>1. /\ max_cached_id' = first
      /\ cached_popular' = [n \in Popular(first, popular) |-> INF]
  BY DEF load_mem_graph
<1>2. opt.n_graph \in Nat /\ tags \in Seq(Nodes) /\ Len(tags) \in Nat
  <2>1. opt \in Options /\ tags \in TagLists
    BY DEF LoadInv, BatchInv
  <2>2. tags \in Seq(Nodes)
    BY <2>1, GorgeousLoadAssumption
  <2> QED BY <2>1, <2>2, Constants, LenProperties
<1>3. popular \in 0..opt.n_graph /\ popular <= Len(tags)
  BY <1>2 DEF Min2
<1>4. \A i \in 1..popular : tags[i] \in Nodes
  BY <1>2, <1>3, ElementOfSeq
<1>5. /\ Popular(first, popular) \subseteq Nodes
      /\ \A n \in Popular(first, popular) : n >= first
  BY <1>4 DEF Popular
<1>6. Cardinality(Popular(first, popular)) <= popular
  <2> DEFINE T == {tags[i] : i \in 1..popular}
             f == [i \in 1..popular |-> tags[i]]
  <2>1. popular \in Int /\ IsFiniteSet(1..popular) /\ Cardinality(1..popular) = popular
    <3>1. popular \in Int /\ popular >= 0
      BY <1>3
    <3> HIDE DEF popular
    <3> QED BY <3>1, FS_Interval
  <2>2. f \in Surjection(1..popular, T)
    BY DEF Surjection
  <2>3. IsFiniteSet(T) /\ Cardinality(T) <= popular
    BY <2>1, <2>2, FS_Surjection
  <2>4. Popular(first, popular) \in SUBSET T
    BY DEF Popular
  <2>5. Cardinality(Popular(first, popular)) <= Cardinality(T) /\ Cardinality(T) \in Nat
        /\ Cardinality(Popular(first, popular)) \in Nat
    <3> HIDE DEF T, popular, first
    <3> QED BY <2>3, <2>4, FS_Subset, FS_CardinalityType
  <2> QED BY <2>3, <2>5, <1>3
<1>7. DOMAIN cached_popular' = Popular(first, popular)
  BY <1>1
<1>8. first \in 0..opt.n_graph /\ first + popular = opt.n_graph
  BY <1>2, <1>3
<1>9. Cardinality(Popular(first, popular)) \in Nat
  BY <1>5, Constants, FS_Subset, FS_CardinalityType
<1>10. first + Cardinality(Popular(first, popular)) <= opt.n_graph
  <2> HIDE DEF popular, first
  <2> QED BY <1>2, <1>3, <1>6, <1>8, <1>9
<1>11. ASSUME opt.n_graph < num_points, NEW i \in 1..Min2(Len(tags), opt.n_graph)
       PROVE  tags[i] < first \/ tags[i] \in Popular(first, popular)
  <2>1. i \in 1..popular /\ tags[i] \in Nodes
    BY <1>4, <1>11
  <2>2. tags[i] \in Int /\ first \in Int
    BY <2>1, <1>8, Constants
  <2> QED BY <2>1, <2>2 DEF Popular
<1>12. Popular(first, popular) \subseteq Nodes \ 0..(first - 1)
  <2>1. Nodes \subseteq Int /\ first \in Int
    BY <1>8, Constants
  <2> QED BY <2>1, <1>5
<1> HIDE DEF first, popular
<1> QED BY <1>1, <1>7, <1>8, <1>10, <1>11, <1>12

LEMMA LoadGraphPart ==
  ASSUME LoadInv, load_mem_graph
  PROVE  LoadInv'
<1>1. BatchInv /\ phase = "loaded" /\ in_flight = {} /\ tmp_bufs = <<>> /\ max_cached_emb_id = 0
  BY DEF LoadInv, BatchInv, EmbInv, Reading, load_mem_graph
<1>0. CASE phase' = "exited"
  <2>1. UNCHANGED <<graph, emb, reading, opt, tags>>
    BY <1>0 DEF load_mem_graph, reading, completed
  <2> QED BY <1>0, <1>1, <2>1, QuietPart
<1>2. opt.n_graph \in 0..num_points /\ ToSet(tmp_bufs) = {}
  BY <1>1, Constants DEF BatchInv, ToSet
<1>3. /\ in_flight' = {} /\ tmp_bufs' = <<>> /\ max_cached_emb_id' = 0 /\ opt' = opt
      /\ ToSet(tmp_bufs)' = {} /\ InFlight' = {}
  BY <1>1, <1>2 DEF load_mem_graph, emb, completed, InFlight
<1>4. CASE opt.n_graph = 0
  <2>1. phase' = "graph_done"
    BY <1>4 DEF load_mem_graph
  <2>2. BatchInv'
    BY <1>1, <1>2, <1>3, <1>4, <2>1 DEF BatchInv, Reading, load_mem_graph, InFlight, completed
  <2> QED BY <1>3, <1>4, <2>1, <2>2
          DEF LoadInv, SharesInv, PlacesInv, GraphInv, EmbInv
<1>5. CASE opt.n_graph > 0 /\ phase' = "graph"
  <2>1. /\ phase' = "graph" /\ cur' = 0 /\ cur_popular_sid' = max_cached_id'
        /\ mem_graph_' = [i \in 0..(opt.n_graph - 1) |-> INF]
    BY <1>5 DEF load_mem_graph
  <2>2. BatchInv'
    BY <1>1, <1>2, <1>3, <1>5, <2>1, Constants
       DEF BatchInv, Reading, load_mem_graph, completed, Total
  <2>3. Entered' = {}
    BY <1>5, Divided DEF Entered
  <2>4. SharesInv'
    <3>1. tags' = tags
      BY DEF load_mem_graph
    <3>2. max_cached_id' \in Nat
      BY <1>2, <1>5, Divided
    <3> QED BY <1>3, <1>5, <2>1, <3>1, <3>2, Divided DEF SharesInv
  <2>5. PlacesInv'
    <3>1. Cardinality(Entered') = 0 /\ max_cached_id' \in Nat
      BY <2>3, <1>2, <1>5, Divided, FS_EmptySet
    <3> QED BY <2>1, <2>3, <3>1 DEF PlacesInv
  <2>6. \A n : ~Parsed(n)'
    BY <2>1 DEF Parsed
  <2>7. GraphInv'
    BY <1>3, <1>5, <2>1, <2>3, <2>6 DEF GraphInv, GraphLoaded
  <2>8. EmbInv'
    BY <1>3, <2>1 DEF EmbInv
  <2> QED BY <2>2, <2>4, <2>5, <2>7, <2>8 DEF LoadInv
<1>6. opt.n_graph = 0 \/ (opt.n_graph > 0 /\ phase' = "graph") \/ phase' = "exited"
  BY <1>2 DEF load_mem_graph
<1> QED BY <1>0, <1>4, <1>5, <1>6

LEMMA LoadEmbPart ==
  ASSUME LoadInv, load_mem_emb
  PROVE  LoadInv'
<1>1. BatchInv /\ phase = "graph_done" /\ in_flight = {} /\ tmp_bufs = <<>> /\ max_cached_emb_id = 0
  BY DEF LoadInv, BatchInv, EmbInv, Reading, load_mem_emb
<1>2. opt.n_emb \in 0..num_points /\ num_points \in Nat /\ ToSet(tmp_bufs) = {}
  BY <1>1, Constants DEF BatchInv, ToSet
<1>3. /\ in_flight' = {} /\ tmp_bufs' = <<>> /\ opt' = opt /\ tags' = tags
      /\ ToSet(tmp_bufs)' = {} /\ InFlight' = {} /\ phase' \in {"emb", "ready"}
      /\ UNCHANGED graph
  BY <1>1, <1>2 DEF load_mem_emb, completed, InFlight
<1>4. SharesInv' /\ PlacesInv' /\ GraphInv'
  BY <1>1, <1>3 DEF LoadInv, SharesInv, PlacesInv, GraphInv, GraphLoaded, graph, Entered
<1>5. CASE opt.n_emb = 0
  <2>1. phase' = "ready" /\ max_cached_emb_id' = 0 /\ cur' = cur
    BY <1>1, <1>5 DEF load_mem_emb, emb
  <2>2. BatchInv'
    BY <1>1, <1>2, <1>3, <2>1 DEF BatchInv, Reading, load_mem_emb, completed
  <2>3. EmbInv'
    BY <2>1 DEF EmbInv
  <2> QED BY <1>4, <2>2, <2>3 DEF LoadInv
<1>6. CASE opt.n_emb > 0
  <2>1. /\ phase' = "emb" /\ cur' = 0 /\ max_cached_emb_id' = opt.n_emb
        /\ coord_cache' = [i \in 0..(opt.n_emb - 1) |-> INF]
    BY <1>2, <1>6 DEF load_mem_emb
  <2>2. BatchInv'
    BY <1>1, <1>2, <1>3, <1>6, <2>1 DEF BatchInv, Reading, load_mem_emb, completed, Total
  <2>3. EmbInv'
    BY <1>2, <1>3, <2>1 DEF EmbInv
  <2> QED BY <1>4, <2>2, <2>3 DEF LoadInv
<1> QED BY <1>2, <1>5, <1>6

\* What is left to read.
LEMMA TotalType ==
  ASSUME LoadInv, Reading
  PROVE  Total \in Nat /\ (phase = "emb" => Total <= num_points) /\ (phase = "graph" => Total = n_pages)
<1>1. opt \in Options
  BY DEF LoadInv, BatchInv
<1> QED BY <1>1, Constants DEF Total, Reading

\* A batch in the parser's hands: which buffer is for which item.
LEMMA SubmitPart ==
  ASSUME LoadInv, SubmitBatch
  PROVE  LoadInv'
<1>1. /\ BatchInv /\ Reading /\ in_flight = {} /\ tmp_bufs = <<>> /\ cur < Total
      /\ cur \in Nat /\ sector_scratch_idx \in Bufs
  BY DEF LoadInv, BatchInv, Reading, SubmitBatch, BatchDone
<1>2. Total \in Nat /\ MaxReads \in Nat \ {0}
  BY <1>1, TotalType, Constants
<1>3. ToSet(tmp_bufs) = {} /\ InFlight = {} /\ Waiting = {}
  BY <1>1 DEF ToSet, InFlight, Waiting
<1>4. /\ UNCHANGED <<opt, tags, graph, emb>>
      /\ tmp_bufs' = tmp_bufs /\ slot' = slot /\ sector_scratch' = sector_scratch
  BY DEF SubmitBatch, completed
<1>5. ToSet(tmp_bufs)' = {}
  BY <1>1, <1>4 DEF ToSet
<1> DEFINE last == Min2(cur + MaxReads, Total)
           batch == cur..(last - 1)
           Buf(i) == (sector_scratch_idx + i - cur) % MaxReads
           ItemAt(b) == CHOOSE i \in batch : Buf(i) = b
           Yes == Accepted(IF phase = "graph" THEN graph_fid ELSE index_fid)
<1>6. CASE ~Yes
  <2>1. phase' = "exited" /\ in_flight' = {} /\ cur' = cur /\ sector_scratch_idx' = sector_scratch_idx
    BY <1>1, <1>6 DEF SubmitBatch
  <2>2. InFlight' = {}
    BY <2>1 DEF InFlight
  <2>3. BatchInv'
    BY <1>1, <1>4, <1>5, <2>1, <2>2 DEF BatchInv, Reading
  <2> QED BY <2>1, <2>3 DEF LoadInv, SharesInv, PlacesInv, GraphInv, EmbInv, GraphLoaded
<1>7. CASE Yes
  <2>1. /\ in_flight' = {[buf |-> Buf(i), page |-> PageFor(i)] : i \in batch}
        /\ sec_buf2id' = [b \in {Buf(i) : i \in batch} |-> ItemAt(b)]
        /\ cur' = cur + Cardinality(batch)
        /\ sector_scratch_idx' = (sector_scratch_idx + Cardinality(batch)) % MaxReads
        /\ phase' = phase
    BY <1>7 DEF SubmitBatch, NextCur
  <2>2. last \in Nat /\ cur < last /\ last <= Total /\ last - cur <= MaxReads
    BY <1>1, <1>2 DEF Min2
  <2>3. Cardinality(batch) = last - cur
    <3>1. cur \in Int /\ last - 1 \in Int /\ cur <= last - 1
      BY <1>1, <2>2
    <3> DEFINE top == last - 1
    <3>2. Cardinality(cur..top) = top - cur + 1
      <4> HIDE DEF top, last
      <4>1. cur \in Int /\ top \in Int /\ cur <= top
        BY <3>1 DEF top
      <4> QED BY <4>1, FS_Interval
    <3> QED BY <3>2, <2>2, <1>1
  <2>4. cur' = last
    <3> HIDE DEF last, Buf, ItemAt
    <3> QED BY <2>1, <2>2, <2>3, <1>1
  <2>5. \A i, j \in batch : Buf(i) = Buf(j) => i = j
    <3>1. ASSUME NEW i \in batch, NEW j \in batch, i < j PROVE Buf(i) # Buf(j)
      <4> DEFINE s == sector_scratch_idx + i - cur
                 t == sector_scratch_idx + j - cur
      <4>1. s \in Nat /\ t \in Nat /\ s < t /\ t - s < MaxReads
        BY <1>1, <1>2, <2>2, <3>1 DEF Bufs
      <4> HIDE DEF s, t
      <4>2. s % MaxReads # t % MaxReads
        BY <4>1, <1>2, WithinATurn
      <4> QED BY <4>2 DEF s, t
    <3>2. ASSUME NEW i \in batch, NEW j \in batch PROVE i < j \/ j < i \/ i = j
      BY <1>1, <2>2
    <3> QED BY <3>1, <3>2
  <2>6. \A i \in batch : Buf(i) \in Bufs
    <3>1. ASSUME NEW i \in batch PROVE Buf(i) \in Bufs
      <4> DEFINE s == sector_scratch_idx + i - cur
      <4>1. s \in Nat
        BY <1>1, <2>2 DEF Bufs
      <4> HIDE DEF s
      <4>2. s % MaxReads \in 0..(MaxReads - 1)
        BY <4>1, <1>2, DivisionFacts
      <4> QED BY <4>2 DEF s, Bufs
    <3> QED BY <3>1
  <2>7. sector_scratch_idx' \in Bufs
    <3> DEFINE s == sector_scratch_idx + Cardinality(batch)
    <3>1. s \in Nat
      <4> HIDE DEF last
      <4> QED BY <1>1, <2>2, <2>3 DEF Bufs
    <3> HIDE DEF s
    <3>2. s % MaxReads \in 0..(MaxReads - 1)
      BY <3>1, <1>2, DivisionFacts
    <3> QED BY <3>2, <2>1 DEF s, Bufs
  <2> HIDE DEF Buf, last
  <2>8. \A i \in batch : ItemAt(Buf(i)) = i
    BY <2>5
  <2>9. \A i \in batch : sec_buf2id'[Buf(i)] = i /\ Buf(i) \in DOMAIN sec_buf2id'
    <3> HIDE DEF batch, ItemAt
    <3> QED BY <2>1, <2>8
  <2> HIDE DEF ItemAt, batch
  <2>10. InFlight' = {Buf(i) : i \in batch}
    <3>1. ASSUME NEW b \in InFlight' PROVE \E i \in batch : b = Buf(i)
      <4>1. PICK r \in in_flight' : b = r.buf
        BY <3>1 DEF InFlight
      <4>2. PICK i \in batch : r = [buf |-> Buf(i), page |-> PageFor(i)]
        BY <2>1, <4>1
      <4> QED BY <4>1, <4>2
    <3>2. ASSUME NEW i \in batch PROVE Buf(i) \in InFlight'
      <4>1. [buf |-> Buf(i), page |-> PageFor(i)] \in in_flight'
        BY <2>1
      <4> QED BY <4>1 DEF InFlight
    <3> QED BY <3>1, <3>2
  <2>11. Waiting' = batch
    <3>1. Waiting' = {sec_buf2id'[b] : b \in InFlight'}
      BY <1>5 DEF Waiting
    <3> QED BY <3>1, <2>9, <2>10
  <2>12. \A i : PageFor(i)' = PageFor(i)
    BY <1>4, <2>1 DEF PageFor
  <2>13. Total' = Total
    BY <1>4, <2>1 DEF Total
  <2>14. batch = cur..(last - 1)
    BY DEF batch
  <2>15. BatchInv'
    <3>1. \A r, q \in in_flight' : r.buf = q.buf => r = q
      <4>1. ASSUME NEW r \in in_flight', NEW q \in in_flight', r.buf = q.buf PROVE r = q
        <5>1. PICK i \in batch : r = [buf |-> Buf(i), page |-> PageFor(i)]
          BY <2>1
        <5>2. PICK j \in batch : q = [buf |-> Buf(j), page |-> PageFor(j)]
          BY <2>1
        <5>3. Buf(i) = Buf(j)
          BY <4>1, <5>1, <5>2
        <5>4. i = j
          BY <5>3, <2>5 DEF batch
        <5> QED BY <5>1, <5>2, <5>4
      <4> QED BY <4>1
    <3>2. \A r \in in_flight' : r.page = PageFor(sec_buf2id[r.buf])'
      <4>1. ASSUME NEW r \in in_flight' PROVE r.page = PageFor(sec_buf2id[r.buf])'
        <5>1. PICK i \in batch : r = [buf |-> Buf(i), page |-> PageFor(i)]
          BY <2>1
        <5>2. sec_buf2id'[r.buf] = i /\ r.page = PageFor(i)
          BY <5>1, <2>9
        <5> QED BY <5>2, <1>4, <2>1 DEF PageFor
      <4> QED BY <4>1
    <3>3. \A b \in InFlight' : b \in DOMAIN sec_buf2id' /\ sec_buf2id'[b] \in 0..(cur' - 1)
      <4>1. batch \subseteq 0..(cur' - 1)
        BY <1>1, <2>2, <2>4, <2>14
      <4> QED BY <4>1, <2>9, <2>10
    <3>4. \A b, c \in InFlight' : sec_buf2id'[b] = sec_buf2id'[c] => b = c
      BY <2>9, <2>10
    <3>5. InFlight' \subseteq Bufs
      BY <2>6, <2>10
    <3>6. cur' \in Nat /\ cur' <= Total'
      BY <2>2, <2>4, <2>13
    <3>7. /\ opt' \in Options /\ tags' \in TagLists /\ slot' \in Nat \ {0} /\ DOMAIN sector_scratch' = Bufs
          /\ tmp_bufs' \in Seq(Bufs) /\ IsInjective(tmp_bufs')
      BY <1>1, <1>4 DEF BatchInv
    <3>8. Reading'
      BY <1>1, <2>1 DEF Reading
    <3> QED BY <1>5, <2>7, <3>1, <3>2, <3>3, <3>4, <3>5, <3>6, <3>7, <3>8 DEF BatchInv
  <2>16. SharesInv' /\ PlacesInv'
    BY <1>4, <2>1, SharesKept DEF LoadInv
  <2>17. \A i : i \in 0..(cur' - 1) /\ i \notin Waiting' <=> i \in 0..(cur - 1)
    BY <1>1, <2>2, <2>4, <2>11, <2>14
  <2>18. \A n : Parsed(n)' <=> Parsed(n)
    BY <1>1, <1>3, <1>4, <2>17 DEF Parsed
  <2>19. GraphInv'
    BY <1>4, <2>1, <2>18 DEF LoadInv, GraphInv, Entered, GraphLoaded, graph
  <2>20. EmbInv'
    BY <1>3, <1>4, <2>1, <2>17 DEF LoadInv, EmbInv, emb
  <2> QED BY <2>15, <2>16, <2>19, <2>20 DEF LoadInv
<1> QED BY <1>6, <1>7


\* The orders in which the elements of a set can come.
LEMMA Orders ==
  ASSUME NEW S, IsFiniteSet(S), NEW s \in SetToSeqs(S)
  PROVE  s \in Seq(S) /\ IsInjective(s) /\ ToSet(s) = S
<1> DEFINE n == Cardinality(S)
<1>1. n \in Nat
  BY FS_CardinalityType
<1>2. s \in [1..n -> S] /\ \A i, j \in 1..n : i # j => s[i] # s[j]
  BY DEF SetToSeqs
<1> HIDE DEF n
<1>3. IsFiniteSet(1..n) /\ Cardinality(1..n) = n
  BY <1>1, FS_Interval
<1>4. s \in Injection(1..n, S)
  BY <1>2 DEF Injection, IsInjective
<1>5. s \in Surjection(1..n, S)
  BY <1>3, <1>4, FS_Injection DEF n
<1>6. ToSet(s) = S
  BY <1>2, <1>5 DEF Surjection, ToSet
<1>7. s \in Seq(S)
  BY <1>1, <1>2
<1> QED BY <1>2, <1>6, <1>7 DEF IsInjective

\* Reads that complete go from the flight to the parser, with what they read.
LEMMA GetEventsPart ==
  ASSUME LoadInv, GetEvents
  PROVE  LoadInv'
<1>1. BatchInv /\ Reading /\ tmp_bufs = <<>> /\ phase' = phase
  BY DEF LoadInv, Reading, GetEvents
<1>2. PICK done \in SUBSET in_flight :
        /\ in_flight' = in_flight \ done
        /\ tmp_bufs' \in SetToSeqs({r.buf : r \in done})
        /\ sector_scratch' = [b \in DOMAIN sector_scratch |->
             IF \E r \in done : r.buf = b THEN (CHOOSE r \in done : r.buf = b).page
             ELSE sector_scratch[b]]
  BY DEF GetEvents
<1> DEFINE Done == {r.buf : r \in done}
<1>3. /\ UNCHANGED <<opt, tags, graph, emb>> /\ slot' = 1
      /\ sector_scratch_idx' = sector_scratch_idx /\ sec_buf2id' = sec_buf2id /\ cur' = cur
  BY DEF GetEvents
<1>4. InFlight \subseteq Bufs /\ Done \subseteq InFlight
  BY <1>1 DEF InFlight, BatchInv
<1>5. IsFiniteSet(Done)
  <2> DEFINE top == MaxReads - 1
  <2>1. top \in Int
    BY Constants
  <2> HIDE DEF top
  <2>2. IsFiniteSet(0..top)
    BY <2>1, FS_Interval
  <2>3. Done \in SUBSET (0..top)
    BY <1>4 DEF Bufs, top
  <2> HIDE DEF Done
  <2> QED BY <2>2, <2>3, FS_Subset
<1>6. ToSet(tmp_bufs') = Done /\ IsInjective(tmp_bufs') /\ tmp_bufs' \in Seq(Done)
  <2>1. tmp_bufs' \in SetToSeqs(Done)
    BY <1>2
  <2> HIDE DEF Done
  <2> QED BY <1>5, <2>1, Orders
<1>7. tmp_bufs' \in Seq(Bufs)
  <2>1. Done \subseteq Bufs
    BY <1>4
  <2> HIDE DEF Done
  <2> QED BY <1>6, <2>1
<1>8. \A r, q \in in_flight : r.buf = q.buf => r = q
  BY <1>1 DEF BatchInv
<1>9. InFlight' = InFlight \ Done
  BY <1>2, <1>8 DEF InFlight
<1>10. ToSet(tmp_bufs) = {}
  BY <1>1 DEF ToSet
<1>11. ToSet(tmp_bufs)' = Done
  BY <1>6 DEF ToSet
<1>12. InFlight' \cup ToSet(tmp_bufs)' = InFlight \cup ToSet(tmp_bufs)
  BY <1>4, <1>9, <1>10, <1>11
<1>13. Waiting' = Waiting
  BY <1>3, <1>12 DEF Waiting
<1>14. (\A i : PageFor(i)' = PageFor(i)) /\ Total' = Total
  BY <1>1, <1>3 DEF PageFor, Total
<1>15. ASSUME NEW b \in Done PROVE sector_scratch'[b] = PageFor(sec_buf2id[b])
  <2>1. PICK r \in done : r.buf = b
    OBVIOUS
  <2>2. (CHOOSE q \in done : q.buf = b) = r
    BY <1>8, <2>1
  <2>3. b \in DOMAIN sector_scratch
    BY <1>1, <1>4 DEF BatchInv
  <2>4. sector_scratch'[b] = r.page
    BY <1>2, <2>1, <2>2, <2>3
  <2> QED BY <1>1, <2>1, <2>4 DEF BatchInv
<1> HIDE DEF Done
<1>16. BatchInv'
  <2>1. /\ opt' \in Options /\ tags' \in TagLists
        /\ cur' \in Nat /\ slot' \in Nat \ {0} /\ sector_scratch_idx' \in Bufs
    BY <1>1, <1>3 DEF BatchInv
  <2>2. DOMAIN sector_scratch' = Bufs
    BY <1>1, <1>2 DEF BatchInv
  <2>3. InFlight' \subseteq Bufs /\ ToSet(tmp_bufs)' \cap InFlight' = {}
    BY <1>4, <1>9, <1>11
  <2>4. \A r, q \in in_flight' : r.buf = q.buf => r = q
    BY <1>2, <1>8
  <2>5. Reading' /\ cur' <= Total'
    BY <1>1, <1>3, <1>14 DEF Reading, BatchInv
  <2>6. /\ \A b \in InFlight' \cup ToSet(tmp_bufs)' :
             b \in DOMAIN sec_buf2id' /\ sec_buf2id'[b] \in 0..(cur' - 1)
        /\ \A b, c \in InFlight' \cup ToSet(tmp_bufs)' : sec_buf2id'[b] = sec_buf2id'[c] => b = c
    BY <1>1, <1>3, <1>12 DEF BatchInv
  <2>7. \A r \in in_flight' : r.page = PageFor(sec_buf2id[r.buf])
    BY <1>1, <1>2 DEF BatchInv
  <2>8. /\ \A r \in in_flight' : r.page = PageFor(sec_buf2id[r.buf])'
        /\ \A b \in ToSet(tmp_bufs)' : sector_scratch'[b] = PageFor(sec_buf2id[b])'
    BY <1>1, <1>3, <1>11, <1>15, <2>7 DEF PageFor
  <2> QED BY <1>6, <1>7, <2>1, <2>2, <2>3, <2>4, <2>5, <2>6, <2>8 DEF BatchInv
<1>17. SharesInv' /\ PlacesInv'
  BY <1>1, <1>3, SharesKept DEF LoadInv
<1>18. ASSUME phase = "graph", NEW n PROVE Parsed(n)' <=> Parsed(n)
  <2>1. \A p \in 0..(cur - 1) : GraphPages[p] \in Seq(Nodes)
    BY <1>1, <1>18, Constants, GraphPage DEF BatchInv, Total
  <2>2. \A p \in 0..(cur - 1) : \A j \in DOMAIN GraphPages[p] : ~(j < slot')
    BY <1>3, <2>1
  <2> QED BY <1>1, <1>3, <1>13, <2>2 DEF Parsed
<1>19. GraphInv'
  BY <1>1, <1>3, <1>18 DEF LoadInv, GraphInv, Entered, GraphLoaded, graph
<1>20. EmbInv'
  BY <1>1, <1>3, <1>13 DEF LoadInv, EmbInv, emb
<1> QED BY <1>16, <1>17, <1>19, <1>20 DEF LoadInv

\* The parser is done with the first buffer.
LEMMA HeadGone ==
  ASSUME BatchInv, Reading, tmp_bufs # <<>>, tmp_bufs' = Tail(tmp_bufs), slot' \in Nat \ {0},
         UNCHANGED <<opt, tags, phase, in_flight, sector_scratch, sector_scratch_idx, sec_buf2id, cur>>
  PROVE  /\ BatchInv'
         /\ sec_buf2id[Head(tmp_bufs)] \in Waiting
         /\ sec_buf2id[Head(tmp_bufs)] \in 0..(cur - 1)
         /\ sector_scratch[Head(tmp_bufs)] = PageFor(sec_buf2id[Head(tmp_bufs)])
         /\ Waiting' = Waiting \ {sec_buf2id[Head(tmp_bufs)]}
<1> DEFINE H == Head(tmp_bufs)
<1>1. /\ H \in ToSet(tmp_bufs) /\ Tail(tmp_bufs) \in Seq(Bufs) /\ IsInjective(Tail(tmp_bufs))
      /\ ToSet(Tail(tmp_bufs)) = ToSet(tmp_bufs) \ {H}
  BY TailSet DEF BatchInv
<1>2. /\ ToSet(tmp_bufs)' = ToSet(tmp_bufs) \ {H}
      /\ InFlight' = InFlight /\ (Reading' <=> Reading) /\ Total' = Total
  BY <1>1 DEF InFlight, Reading, Total, ToSet
<1> HIDE DEF H
<1>3. /\ H \notin InFlight
      /\ \A b, c \in InFlight \cup ToSet(tmp_bufs) : sec_buf2id[b] = sec_buf2id[c] => b = c
      /\ sec_buf2id[H] \in 0..(cur - 1)
      /\ sector_scratch[H] = PageFor(sec_buf2id[H])
  BY <1>1 DEF BatchInv
<1>4. sec_buf2id[H] \in Waiting
  BY <1>1 DEF Waiting
<1>5. Waiting' = Waiting \ {sec_buf2id[H]}
  BY <1>1, <1>2, <1>3 DEF Waiting
<1>6. BatchInv'
  <2>1. /\ opt' \in Options /\ tags' \in TagLists
        /\ cur' \in Nat /\ slot' \in Nat \ {0} /\ sector_scratch_idx' \in Bufs
        /\ DOMAIN sector_scratch' = Bufs /\ InFlight' \subseteq Bufs
        /\ \A r, q \in in_flight' : r.buf = q.buf => r = q
        /\ cur' <= Total'
    BY <1>2 DEF BatchInv
  <2>2. /\ tmp_bufs' \in Seq(Bufs) /\ IsInjective(tmp_bufs') /\ ToSet(tmp_bufs)' \cap InFlight' = {}
    BY <1>1, <1>2 DEF BatchInv
  <2>3. /\ \A b \in InFlight' \cup ToSet(tmp_bufs)' :
             b \in DOMAIN sec_buf2id' /\ sec_buf2id'[b] \in 0..(cur' - 1)
        /\ \A b, c \in InFlight' \cup ToSet(tmp_bufs)' : sec_buf2id'[b] = sec_buf2id'[c] => b = c
    BY <1>2 DEF BatchInv
  <2>4. /\ \A r \in in_flight' : r.page = PageFor(sec_buf2id[r.buf])'
        /\ \A b \in ToSet(tmp_bufs)' : sector_scratch'[b] = PageFor(sec_buf2id[b])'
    BY <1>2 DEF BatchInv, PageFor
  <2> QED BY <1>2, <2>1, <2>2, <2>3, <2>4 DEF BatchInv
<1> QED BY <1>3, <1>4, <1>5, <1>6 DEF H

\* The vector in the first buffer goes to the place of the node that it is of.
LEMMA ParseVectorPart ==
  ASSUME LoadInv, ParseVector
  PROVE  LoadInv'
<1> DEFINE id == sec_buf2id[Head(tmp_bufs)]
<1>1. /\ phase = "emb" /\ tmp_bufs # <<>> /\ tmp_bufs' = Tail(tmp_bufs) /\ slot' = slot
      /\ UNCHANGED <<opt, tags, phase, in_flight, sector_scratch, sector_scratch_idx, sec_buf2id,
                     cur, graph, max_cached_emb_id>>
      /\ coord_cache' = [coord_cache EXCEPT ![id] = VectorFor(id, sector_scratch[Head(tmp_bufs)])]
  BY DEF ParseVector
<1>2. BatchInv /\ Reading /\ slot' \in Nat \ {0}
  BY <1>1 DEF LoadInv, BatchInv, Reading
<1>3. /\ BatchInv' /\ id \in Waiting /\ id \in 0..(cur - 1)
      /\ sector_scratch[Head(tmp_bufs)] = PageFor(id) /\ Waiting' = Waiting \ {id}
  BY <1>1, <1>2, HeadGone
<1>4. opt.n_emb \in 0..num_points /\ cur \in Nat /\ cur <= opt.n_emb
  BY <1>1, <1>2, Constants DEF BatchInv, Total
<1>5. id \in Nodes
  BY <1>3, <1>4, Constants
<1> HIDE DEF id
<1>6. VectorFor(id, PageFor(id)) = id
  BY <1>1, <1>5, VectorIsThere
<1>7. coord_cache' = [coord_cache EXCEPT ![id] = id]
  BY <1>1, <1>3, <1>6
<1>8. SharesInv' /\ PlacesInv'
  BY <1>1, SharesKept DEF LoadInv
<1>9. GraphInv'
  BY <1>1 DEF LoadInv, GraphInv, GraphLoaded, Entered, graph
<1>10. EmbInv'
  <2>1. /\ max_cached_emb_id' = opt'.n_emb /\ max_cached_emb_id' \in Nat
        /\ DOMAIN coord_cache = 0..(opt.n_emb - 1) /\ DOMAIN coord_cache' = 0..(opt'.n_emb - 1)
    BY <1>1, <1>7 DEF LoadInv, EmbInv
  <2>2. ASSUME NEW i \in 0..(cur' - 1), i \notin Waiting' PROVE coord_cache'[i] = i
    <3>1. i \in DOMAIN coord_cache
      BY <1>1, <1>4, <2>1, <2>2
    <3>2. CASE i = id
      BY <1>7, <3>1, <3>2
    <3>3. CASE i # id
      BY <1>1, <1>3, <1>7, <2>2, <3>1, <3>3 DEF LoadInv, EmbInv
    <3> QED BY <3>2, <3>3
  <2> QED BY <1>1, <2>1, <2>2 DEF EmbInv
<1> QED BY <1>3, <1>8, <1>9, <1>10 DEF LoadInv

\* What ParseNode finds: the page in the first buffer is the one it was read
\* for, and the node in the slot is on it and on no other.
LEMMA PageInHand ==
  ASSUME LoadInv, phase = "graph", tmp_bufs # <<>>
  PROVE  /\ GraphPages[sector_scratch[Head(tmp_bufs)]] = GraphPages[sec_buf2id[Head(tmp_bufs)]]
         /\ sec_buf2id[Head(tmp_bufs)] \in Waiting
         /\ sec_buf2id[Head(tmp_bufs)] \in 0..(cur - 1)
         /\ \A p \in 0..(cur - 1) :
              /\ GraphPages[p] \in Seq(Nodes) /\ IsInjective(GraphPages[p])
              /\ Len(GraphPages[p]) \in Nat /\ DOMAIN GraphPages[p] = 1..Len(GraphPages[p])
         /\ \A p, q \in 0..(cur - 1) : \A n \in Nodes :
              n \in ToSet(GraphPages[p]) /\ n \in ToSet(GraphPages[q]) => p = q
         /\ slot \in Nat \ {0} /\ cur \in Nat
<1> DEFINE H == Head(tmp_bufs)
<1>1. BatchInv /\ Reading
  BY DEF LoadInv, Reading
<1>2. H \in ToSet(tmp_bufs)
  BY <1>1, TailSet DEF BatchInv
<1> HIDE DEF H
<1>3. sec_buf2id[H] \in Waiting /\ sec_buf2id[H] \in 0..(cur - 1)
  BY <1>1, <1>2 DEF BatchInv, Waiting
<1>4. sector_scratch[H] = sec_buf2id[H]
  BY <1>1, <1>2 DEF BatchInv, PageFor
<1>5. cur \in Nat /\ cur <= n_pages
  BY <1>1 DEF BatchInv, Total
<1>6. 0..(cur - 1) \subseteq 0..(n_pages - 1)
  BY <1>5, Constants
<1>7. ASSUME NEW p \in 0..(cur - 1)
      PROVE  /\ GraphPages[p] \in Seq(Nodes) /\ IsInjective(GraphPages[p])
             /\ Len(GraphPages[p]) \in Nat /\ DOMAIN GraphPages[p] = 1..Len(GraphPages[p])
  <2>1. GraphPages[p] \in Seq(Nodes) /\ IsInjective(GraphPages[p])
    BY <1>6, GraphPage
  <2> QED BY <2>1, LenProperties
<1>8. ASSUME NEW p \in 0..(cur - 1), NEW q \in 0..(cur - 1), NEW n \in Nodes,
             n \in ToSet(GraphPages[p]), n \in ToSet(GraphPages[q])
      PROVE  p = q
  BY <1>6, <1>8, GraphPage
<1> QED BY <1>1, <1>3, <1>4, <1>5, <1>7, <1>8 DEF H, BatchInv

\* Behind the last node of the page: all its nodes are parsed, still.
LEMMA PageEndPart ==
  ASSUME LoadInv, ParseNode,
         slot > Len(GraphPages[sector_scratch[Head(tmp_bufs)]])
  PROVE  LoadInv'
<1> DEFINE p0 == sec_buf2id[Head(tmp_bufs)]
<1>1. /\ phase = "graph" /\ tmp_bufs # <<>> /\ tmp_bufs' = Tail(tmp_bufs) /\ slot' = 1
      /\ UNCHANGED <<opt, tags, phase, in_flight, sector_scratch, sector_scratch_idx, sec_buf2id,
                     cur, graph, emb>>
  BY DEF ParseNode, graph
<1>2. BatchInv /\ Reading /\ slot' \in Nat \ {0}
  BY <1>1 DEF LoadInv, Reading
<1>3. BatchInv' /\ Waiting' = Waiting \ {p0}
  BY <1>1, <1>2, HeadGone
<1>4. /\ p0 \in Waiting /\ p0 \in 0..(cur - 1) /\ slot > Len(GraphPages[p0])
      /\ \A p \in 0..(cur - 1) : /\ Len(GraphPages[p]) \in Nat
                                 /\ DOMAIN GraphPages[p] = 1..Len(GraphPages[p])
      /\ slot \in Nat \ {0}
  BY <1>1, PageInHand
<1> HIDE DEF p0
<1>5. ASSUME NEW n PROVE Parsed(n)' <=> Parsed(n)
  <2>1. ASSUME Parsed(n) PROVE Parsed(n)'
    <3>1. PICK p \in 0..(cur - 1) : n \in ToSet(GraphPages[p]) /\ (p \notin Waiting \/ p = p0)
      BY <2>1 DEF Parsed, p0
    <3> QED BY <1>1, <1>3, <3>1 DEF Parsed
  <2>2. ASSUME Parsed(n)' PROVE Parsed(n)
    <3>1. PICK p \in 0..(cur - 1) :
            /\ n \in ToSet(GraphPages[p])
            /\ \/ p \notin Waiting'
               \/ \E j \in DOMAIN GraphPages[p] : j < slot'
      BY <1>1, <2>2 DEF Parsed
    <3>2. p \notin Waiting'
      BY <1>1, <1>4, <3>1
    <3>3. CASE p # p0
      BY <1>3, <3>1, <3>2, <3>3 DEF Parsed
    <3>4. CASE p = p0
      <4>1. PICK j \in DOMAIN GraphPages[p0] : GraphPages[p0][j] = n
        BY <3>1, <3>4 DEF ToSet
      <4>2. j < slot
        BY <1>4, <4>1
      <4> QED BY <1>1, <1>4, <3>1, <3>4, <4>1, <4>2 DEF Parsed, p0
    <3> QED BY <3>3, <3>4
  <2> QED BY <2>1, <2>2
<1>6. SharesInv' /\ PlacesInv'
  BY <1>1, SharesKept DEF LoadInv
<1>7. GraphInv'
  BY <1>1, <1>5 DEF LoadInv, GraphInv, GraphLoaded, Entered, graph
<1>8. EmbInv'
  BY <1>1 DEF LoadInv, EmbInv, emb
<1> QED BY <1>3, <1>6, <1>7, <1>8 DEF LoadInv

\* The node in the slot was not parsed before, and is now.
LEMMA NodeParsed ==
  ASSUME LoadInv, ParseNode, NEW n0,
         slot <= Len(GraphPages[sector_scratch[Head(tmp_bufs)]]),
         n0 = GraphPages[sector_scratch[Head(tmp_bufs)]][slot]
  PROVE  /\ n0 \in Nodes /\ ~Parsed(n0)
         /\ \A n \in Nodes : Parsed(n)' <=> Parsed(n) \/ n = n0
<1> DEFINE p0 == sec_buf2id[Head(tmp_bufs)]
<1>1. /\ phase = "graph" /\ tmp_bufs # <<>> /\ tmp_bufs' = tmp_bufs /\ slot' = slot + 1
      /\ UNCHANGED <<in_flight, sec_buf2id, cur>>
  <2>1. LET layout == GraphPages[sector_scratch[Head(tmp_bufs)]] IN ~(slot > Len(layout))
    BY PageInHand DEF ParseNode
  <2> QED BY <2>1 DEF ParseNode
<1>2. /\ p0 \in Waiting /\ p0 \in 0..(cur - 1) /\ slot \in DOMAIN GraphPages[p0]
      /\ n0 = GraphPages[p0][slot]
      /\ \A p \in 0..(cur - 1) :
           /\ GraphPages[p] \in Seq(Nodes) /\ IsInjective(GraphPages[p])
           /\ Len(GraphPages[p]) \in Nat /\ DOMAIN GraphPages[p] = 1..Len(GraphPages[p])
      /\ \A p, q \in 0..(cur - 1) : \A n \in Nodes :
           n \in ToSet(GraphPages[p]) /\ n \in ToSet(GraphPages[q]) => p = q
      /\ slot \in Nat \ {0}
  BY <1>1, PageInHand
<1>3. Waiting' = Waiting
  <2>1. ToSet(tmp_bufs)' = ToSet(tmp_bufs) /\ InFlight' = InFlight
    BY <1>1 DEF ToSet, InFlight
  <2> QED BY <1>1, <2>1 DEF Waiting
<1>4. \A n : /\ Parsed(n) <=> \E p \in 0..(cur - 1) :
                  /\ n \in ToSet(GraphPages[p])
                  /\ \/ p \notin Waiting
                     \/ p = p0 /\ \E j \in DOMAIN GraphPages[p] : j < slot /\ GraphPages[p][j] = n
             /\ Parsed(n)' <=> \E p \in 0..(cur - 1) :
                  /\ n \in ToSet(GraphPages[p])
                  /\ \/ p \notin Waiting
                     \/ p = p0 /\ \E j \in DOMAIN GraphPages[p] : j < slot + 1 /\ GraphPages[p][j] = n
  BY <1>1, <1>3 DEF Parsed
<1> HIDE DEF p0
<1>5. n0 \in Nodes /\ n0 \in ToSet(GraphPages[p0])
  <2>1. GraphPages[p0] \in Seq(Nodes)
    BY <1>2
  <2>2. n0 \in Nodes
    BY <1>2, <2>1, ElementOfSeq
  <2> QED BY <1>2, <2>2 DEF ToSet
<1>6. ~Parsed(n0)
  <2> SUFFICES ASSUME Parsed(n0) PROVE FALSE
    OBVIOUS
  <2>1. PICK p \in 0..(cur - 1) :
          /\ n0 \in ToSet(GraphPages[p])
          /\ \/ p \notin Waiting
             \/ p = p0 /\ \E j \in DOMAIN GraphPages[p] : j < slot /\ GraphPages[p][j] = n0
    BY <1>4
  <2>2. p = p0
    BY <1>2, <1>5, <2>1
  <2>3. PICK j \in DOMAIN GraphPages[p0] : j < slot /\ GraphPages[p0][j] = n0
    BY <1>2, <2>1, <2>2
  <2> QED BY <1>2, <2>3 DEF IsInjective
<1>7. ASSUME NEW n \in Nodes, Parsed(n) PROVE Parsed(n)'
  <2>1. PICK p \in 0..(cur - 1) :
          /\ n \in ToSet(GraphPages[p])
          /\ \/ p \notin Waiting
             \/ p = p0 /\ \E j \in DOMAIN GraphPages[p] : j < slot /\ GraphPages[p][j] = n
    BY <1>4, <1>7
  <2>2. \A j \in DOMAIN GraphPages[p] : j < slot => j < slot + 1
    BY <1>2
  <2> QED BY <1>4, <2>1, <2>2
<1>8. Parsed(n0)'
  BY <1>2, <1>4, <1>5
<1>9. ASSUME NEW n \in Nodes, Parsed(n)', n # n0 PROVE Parsed(n)
  <2>1. PICK p \in 0..(cur - 1) :
          /\ n \in ToSet(GraphPages[p])
          /\ \/ p \notin Waiting
             \/ p = p0 /\ \E j \in DOMAIN GraphPages[p] : j < slot + 1 /\ GraphPages[p][j] = n
    BY <1>4, <1>9
  <2>2. CASE p \notin Waiting
    BY <1>4, <2>1, <2>2
  <2>3. CASE p \in Waiting
    <3>1. p = p0
      BY <2>1, <2>3
    <3>2. PICK j \in DOMAIN GraphPages[p0] : j < slot + 1 /\ GraphPages[p0][j] = n
      BY <2>1, <2>3
    <3>3. j # slot
      BY <1>2, <1>9, <3>2
    <3>4. j < slot
      BY <1>2, <3>2, <3>3
    <3> QED BY <1>4, <2>1, <3>1, <3>2, <3>4
  <2> QED BY <2>2, <2>3
<1> QED BY <1>5, <1>6, <1>7, <1>8, <1>9

\* There is a place for a popular node that has none yet.
LEMMA PlaceLeft ==
  ASSUME LoadInv, phase = "graph", NEW n \in DOMAIN cached_popular, n \notin Entered
  PROVE  /\ cur_popular_sid \in max_cached_id..(opt.n_graph - 1)
         /\ max_cached_id \in Nat /\ opt.n_graph \in 0..num_points
         /\ cur_popular_sid = max_cached_id + Cardinality(Entered)
         /\ IsFiniteSet(Entered)
<1>1. /\ max_cached_id \in Nat /\ DOMAIN cached_popular \subseteq Nodes
      /\ max_cached_id + Cardinality(DOMAIN cached_popular) <= opt.n_graph
      /\ cur_popular_sid = max_cached_id + Cardinality(Entered)
      /\ opt \in Options
  BY DEF LoadInv, BatchInv, SharesInv, PlacesInv, GraphInv
<1>2. opt.n_graph \in 0..num_points /\ IsFiniteSet(Nodes) /\ num_points \in Nat
  BY <1>1, Constants
<1>3. IsFiniteSet(DOMAIN cached_popular)
  BY <1>1, <1>2, FS_Subset
<1>4. Entered \in SUBSET DOMAIN cached_popular /\ Entered # DOMAIN cached_popular
  BY DEF Entered
<1>5. /\ IsFiniteSet(Entered) /\ Cardinality(Entered) \in Nat
      /\ Cardinality(DOMAIN cached_popular) \in Nat
      /\ Cardinality(Entered) < Cardinality(DOMAIN cached_popular)
  <2>1. IsFiniteSet(Entered) /\ Cardinality(Entered) <= Cardinality(DOMAIN cached_popular)
    BY <1>3, <1>4, FS_Subset
  <2>2. Cardinality(Entered) # Cardinality(DOMAIN cached_popular)
    BY <1>3, <1>4, FS_Subset
  <2> QED BY <1>3, <2>1, <2>2, FS_CardinalityType
<1>6. cur_popular_sid \in max_cached_id..(opt.n_graph - 1)
  BY <1>1, <1>2, <1>5
<1> QED BY <1>1, <1>2, <1>5, <1>6

\* The neighbours of the node in the slot go to its place, and to no other's.
LEMMA NodePart ==
  ASSUME LoadInv, ParseNode,
         slot <= Len(GraphPages[sector_scratch[Head(tmp_bufs)]])
  PROVE  LoadInv'
<1> DEFINE n0 == GraphPages[sector_scratch[Head(tmp_bufs)]][slot]
<1>1. /\ phase = "graph" /\ tmp_bufs' = tmp_bufs /\ slot' = slot + 1
      /\ CacheNeighbors(n0)
      /\ UNCHANGED <<opt, tags, phase, in_flight, sector_scratch, sector_scratch_idx, sec_buf2id,
                     cur, max_cached_id, emb>>
  <2>1. phase = "graph" /\ tmp_bufs # <<>>
    BY DEF ParseNode
  <2>2. LET layout == GraphPages[sector_scratch[Head(tmp_bufs)]] IN ~(slot > Len(layout))
    BY <2>1, PageInHand
  <2> QED BY <2>2 DEF ParseNode
<1>2. /\ n0 \in Nodes /\ ~Parsed(n0)
      /\ \A n \in Nodes : Parsed(n)' <=> Parsed(n) \/ n = n0
  <2>1. \A n : n = n0 => /\ n \in Nodes /\ ~Parsed(n)
                         /\ \A m \in Nodes : Parsed(m)' <=> Parsed(m) \/ m = n
    BY NodeParsed
  <2> QED BY <2>1
<1> HIDE DEF n0
<1>3. BatchInv'
  <2>1. /\ InFlight' = InFlight /\ (Reading' <=> Reading) /\ Total' = Total
        /\ ToSet(tmp_bufs)' = ToSet(tmp_bufs)
    BY <1>1 DEF InFlight, Reading, Total, ToSet
  <2>2. BatchInv /\ \A i : PageFor(i)' = PageFor(i)
    BY <1>1 DEF LoadInv, PageFor
  <2>3. slot' \in Nat \ {0} /\ Reading
    BY <1>1, <2>2 DEF BatchInv, Reading
  <2>4. /\ opt' \in Options /\ tags' \in TagLists
        /\ cur' \in Nat /\ sector_scratch_idx' \in Bufs
        /\ DOMAIN sector_scratch' = Bufs /\ InFlight' \subseteq Bufs
        /\ \A r, q \in in_flight' : r.buf = q.buf => r = q
        /\ cur' <= Total'
        /\ tmp_bufs' \in Seq(Bufs) /\ IsInjective(tmp_bufs') /\ ToSet(tmp_bufs)' \cap InFlight' = {}
    BY <1>1, <2>1, <2>2, <2>3 DEF BatchInv
  <2>5. /\ \A b \in InFlight' \cup ToSet(tmp_bufs)' :
             b \in DOMAIN sec_buf2id' /\ sec_buf2id'[b] \in 0..(cur' - 1)
        /\ \A b, c \in InFlight' \cup ToSet(tmp_bufs)' : sec_buf2id'[b] = sec_buf2id'[c] => b = c
    BY <1>1, <2>1, <2>2, <2>3 DEF BatchInv
  <2>6. /\ \A r \in in_flight' : r.page = PageFor(sec_buf2id[r.buf])'
        /\ \A b \in ToSet(tmp_bufs)' : sector_scratch'[b] = PageFor(sec_buf2id[b])'
    BY <1>1, <2>1, <2>2, <2>3 DEF BatchInv, PageFor
  <2> QED BY <2>1, <2>3, <2>4, <2>5, <2>6 DEF BatchInv
<1>4. EmbInv'
  BY <1>1 DEF LoadInv, EmbInv, emb
<1>5. /\ opt.n_graph > 0 /\ opt.n_graph \in 0..num_points /\ num_points \in Nat
      /\ max_cached_id \in Nat /\ DOMAIN mem_graph_ = 0..(opt.n_graph - 1)
      /\ max_cached_id + Cardinality(DOMAIN cached_popular) <= opt.n_graph
      /\ DOMAIN cached_popular \subseteq Nodes \ 0..(max_cached_id - 1)
      /\ cur_popular_sid = max_cached_id + Cardinality(Entered)
      /\ \A n \in Entered : /\ cached_popular[n] \in max_cached_id..(cur_popular_sid - 1)
                            /\ mem_graph_[cached_popular[n]] = n
      /\ \A n \in Nodes : Parsed(n) => /\ n < max_cached_id => mem_graph_[n] = n
                                       /\ n \in DOMAIN cached_popular => n \in Entered
      /\ \A n \in Entered : Parsed(n)
      /\ opt.n_graph < num_points =>
           \A i \in 1..Min2(Len(tags), opt.n_graph) :
             tags[i] < max_cached_id \/ tags[i] \in DOMAIN cached_popular
  BY <1>1, Constants DEF LoadInv, BatchInv, SharesInv, PlacesInv, GraphInv
<1>6. n0 \in Nat /\ Nodes \subseteq Nat /\ Entered \subseteq DOMAIN cached_popular
  BY <1>2, Constants DEF Entered
<1>7. IsFiniteSet(DOMAIN cached_popular) /\ Cardinality(DOMAIN cached_popular) \in Nat
  BY <1>5, Constants, FS_Subset, FS_CardinalityType
<1>8. max_cached_id <= opt.n_graph
  BY <1>5, <1>7
\* A change of the places that leaves who has a share alone.
<1>9. ASSUME DOMAIN cached_popular' = DOMAIN cached_popular,
             DOMAIN mem_graph_' = DOMAIN mem_graph_
      PROVE  SharesInv'
  BY <1>1, <1>5, <1>9 DEF SharesInv
<1>10. CASE n0 < max_cached_id
  <2>1. /\ mem_graph_' = [mem_graph_ EXCEPT ![n0] = n0]
        /\ cached_popular' = cached_popular /\ cur_popular_sid' = cur_popular_sid
    BY <1>1, <1>10 DEF CacheNeighbors
  <2>2. n0 \in DOMAIN mem_graph_ /\ mem_graph_'[n0] = n0
    BY <1>5, <1>6, <1>8, <1>10, <2>1
  <2>3. Entered' = Entered
    BY <2>1 DEF Entered
  <2>4. SharesInv'
    BY <1>9, <2>1
  <2>5. PlacesInv'
    <3>1. \A n \in Entered : cached_popular[n] # n0
      BY <1>5, <1>6, <1>10
    <3>2. \A n \in Entered : mem_graph_'[cached_popular[n]] = n
      BY <1>5, <2>1, <3>1
    <3> QED BY <1>1, <1>5, <2>1, <2>3, <3>2 DEF PlacesInv
  <2>6. GraphInv'
    <3>1. n0 \notin DOMAIN cached_popular
      BY <1>5, <1>6, <1>10
    <3>2. \A n \in Nodes : Parsed(n)' => /\ n < max_cached_id => mem_graph_'[n] = n
                                         /\ n \in DOMAIN cached_popular => n \in Entered
      BY <1>2, <1>5, <2>1, <2>2, <3>1
    <3>3. \A n \in Entered : Parsed(n)'
      BY <1>2, <1>5, <1>6
    <3> QED BY <1>1, <1>5, <2>1, <2>3, <3>2, <3>3 DEF GraphInv, GraphLoaded
  <2> QED BY <1>3, <1>4, <2>4, <2>5, <2>6 DEF LoadInv
<1>11. CASE n0 >= max_cached_id /\ n0 \in DOMAIN cached_popular
  <2> DEFINE sid == cur_popular_sid
  <2>1. /\ mem_graph_' = [mem_graph_ EXCEPT ![sid] = n0]
        /\ cached_popular' = [cached_popular EXCEPT ![n0] = sid]
        /\ cur_popular_sid' = sid + 1
    BY <1>1, <1>5, <1>6, <1>11 DEF CacheNeighbors
  <2>2. n0 \notin Entered
    BY <1>2, <1>5
  <2>3. sid \in max_cached_id..(opt.n_graph - 1) /\ IsFiniteSet(Entered)
    BY <1>1, <1>11, <2>2, PlaceLeft
  <2>4. sid # INF /\ sid \in DOMAIN mem_graph_ /\ sid \in Nat /\ sid >= max_cached_id
    BY <1>5, <2>3, Constants
  <2>5. Entered' = Entered \cup {n0}
    BY <1>11, <2>1, <2>4 DEF Entered
  <2>6. Cardinality(Entered') = Cardinality(Entered) + 1
    BY <2>2, <2>3, <2>5, FS_AddElement
  <2>7. Cardinality(Entered) \in Nat
    BY <2>3, FS_CardinalityType
  <2>8. DOMAIN cached_popular' = DOMAIN cached_popular /\ DOMAIN mem_graph_' = DOMAIN mem_graph_
    BY <2>1
  <2>9. SharesInv'
    BY <1>9, <2>8
  <2>10. PlacesInv'
    <3>1. cur_popular_sid' = max_cached_id' + Cardinality(Entered')
      BY <1>1, <1>5, <2>1, <2>6, <2>7
    <3>2. ASSUME NEW n \in Entered'
          PROVE  /\ cached_popular'[n] \in max_cached_id'..(cur_popular_sid' - 1)
                 /\ mem_graph_'[cached_popular'[n]] = n
      <4>1. CASE n = n0
        BY <1>1, <1>5, <1>11, <2>1, <2>4, <4>1
      <4>2. CASE n # n0
        <5>1. n \in Entered /\ cached_popular'[n] = cached_popular[n] /\ cached_popular[n] # sid
          BY <1>5, <1>6, <2>1, <2>4, <2>5, <4>2
        <5> QED BY <1>1, <1>5, <2>1, <2>4, <5>1
      <4> QED BY <4>1, <4>2
    <3> QED BY <3>1, <3>2 DEF PlacesInv
  <2>11. GraphInv'
    <3>1. ASSUME NEW n \in Nodes, Parsed(n)'
          PROVE  /\ n < max_cached_id' => mem_graph_'[n] = n
                 /\ n \in DOMAIN cached_popular' => n \in Entered'
      <4>1. CASE n = n0
        BY <1>1, <1>6, <1>11, <2>5, <4>1, <1>5
      <4>2. CASE n # n0
        <5>1. Parsed(n)
          BY <1>2, <3>1, <4>2
        <5>2. n < max_cached_id => n # sid /\ n \in DOMAIN mem_graph_
          BY <1>5, <1>6, <1>8, <2>4
        <5> QED BY <1>1, <1>5, <2>1, <2>5, <2>8, <5>1, <5>2
      <4> QED BY <4>1, <4>2
    <3>2. \A n \in Entered' : Parsed(n)'
      BY <1>2, <1>5, <1>6, <2>5
    <3> QED BY <1>1, <1>5, <3>1, <3>2 DEF GraphInv, GraphLoaded
  <2> QED BY <1>3, <1>4, <2>9, <2>10, <2>11 DEF LoadInv
<1>12. CASE ~(n0 < max_cached_id) /\ n0 \notin DOMAIN cached_popular
  <2>1. UNCHANGED graph
    BY <1>1, <1>12 DEF CacheNeighbors, graph
  <2>2. SharesInv' /\ PlacesInv'
    BY <1>1, <2>1, SharesKept DEF LoadInv
  <2>3. GraphInv'
    <3>1. Entered' = Entered /\ max_cached_id' = max_cached_id /\ mem_graph_' = mem_graph_
          /\ cached_popular' = cached_popular
      BY <2>1 DEF graph, Entered
    <3>2. \A n \in Entered : Parsed(n)'
      BY <1>2, <1>5, <1>6
    <3>3. \A n \in Nodes : Parsed(n)' => /\ n < max_cached_id => mem_graph_[n] = n
                                         /\ n \in DOMAIN cached_popular => n \in Entered
      BY <1>2, <1>5, <1>12
    <3> QED BY <1>1, <1>5, <3>1, <3>2, <3>3 DEF GraphInv, GraphLoaded
  <2> QED BY <1>3, <1>4, <2>2, <2>3 DEF LoadInv
<1> QED BY <1>5, <1>6, <1>10, <1>11, <1>12

\* When the last batch is parsed, every node is.
LEMMA EndLoadPart ==
  ASSUME LoadInv, EndLoad
  PROVE  LoadInv'
<1>1. /\ in_flight = {} /\ tmp_bufs = <<>> /\ cur = Total /\ Reading
      /\ UNCHANGED <<opt, tags, reading, graph, emb>>
      /\ phase' = IF phase = "graph" THEN "graph_done" ELSE "ready"
  BY DEF EndLoad, BatchDone, Reading
<1>2. /\ in_flight' = {} /\ tmp_bufs' = <<>> /\ slot' = slot /\ cur' = cur
      /\ sector_scratch' = sector_scratch /\ sector_scratch_idx' = sector_scratch_idx
  BY <1>1 DEF reading, completed
<1>3. InFlight' = {} /\ InFlight = {} /\ ToSet(tmp_bufs) = {} /\ ToSet(tmp_bufs)' = {} /\ Waiting = {}
  BY <1>1, <1>2 DEF InFlight, ToSet, Waiting
<1>4. BatchInv'
  BY <1>1, <1>2, <1>3 DEF LoadInv, BatchInv, Reading
<1>5. CASE phase = "graph"
  <2>1. cur = n_pages /\ phase' = "graph_done"
    BY <1>1, <1>5 DEF Total
  <2>2. ASSUME NEW n \in Nodes PROVE Parsed(n)
    <3>1. PICK p \in 0..(n_pages - 1) : n \in ToSet(GraphPages[p])
      BY GraphPage
    <3> QED BY <1>3, <2>1, <3>1 DEF Parsed
  <2>3. GraphInv'
    BY <1>1, <1>5, <2>1, <2>2 DEF LoadInv, GraphInv, GraphLoaded, Entered, graph
  <2>4. SharesInv' /\ PlacesInv'
    BY <1>1, <1>5, <2>1 DEF LoadInv, SharesInv, PlacesInv, GraphLoaded, Entered, graph
  <2>5. EmbInv'
    BY <1>1, <1>5, <2>1 DEF LoadInv, EmbInv, emb
  <2> QED BY <1>4, <2>3, <2>4, <2>5 DEF LoadInv
<1>6. CASE phase = "emb"
  <2>1. cur = opt.n_emb /\ phase' = "ready"
    BY <1>1, <1>6 DEF Total
  <2>2. SharesInv' /\ PlacesInv' /\ GraphInv'
    BY <1>1, <1>6, <2>1 DEF LoadInv, SharesInv, PlacesInv, GraphInv, GraphLoaded, Entered, graph
  <2>3. opt.n_emb \in Nat
    BY Constants DEF LoadInv, BatchInv
  <2>4. EmbInv'
    BY <1>1, <1>3, <1>6, <2>1, <2>3 DEF LoadInv, EmbInv, emb
  <2> QED BY <1>4, <2>2, <2>4 DEF LoadInv
<1> QED BY <1>1, <1>5, <1>6 DEF Reading

LEMMA NextPart ==
  ASSUME LoadInv, [Next]_vars
  PROVE  LoadInv'
<1>1. CASE load \/ Destroy \/ \E t \in Threads : register_thread(t) \/ get_ctx(t) \/ CopyCtx(t)
  BY <1>1, RegisterPart
<1>2. CASE load_mem_graph \/ load_mem_emb
  BY <1>2, LoadGraphPart, LoadEmbPart
<1>3. CASE SubmitBatch \/ GetEvents
  BY <1>3, SubmitPart, GetEventsPart
<1>4. CASE ParseNode
  <2>1. phase = "graph" /\ tmp_bufs # <<>>
    BY <1>4 DEF ParseNode
  <2> DEFINE len == Len(GraphPages[sector_scratch[Head(tmp_bufs)]])
  <2>2. len \in Nat /\ slot \in Nat
    BY <2>1, PageInHand
  <2>3. slot > len \/ slot <= len
    <3> HIDE DEF len
    <3> QED BY <2>2
  <2> QED BY <1>4, <2>3, PageEndPart, NodePart
<1>5. CASE ParseVector \/ EndLoad
  BY <1>5, ParseVectorPart, EndLoadPart
<1>6. CASE UNCHANGED vars
  BY <1>6, UnchangedPart DEF vars, graph, emb, reading, completed
<1> QED BY <1>1, <1>2, <1>3, <1>4, <1>5, <1>6 DEF Next, Stopped

-----------------------------------------------------------------------------
\* The invariant of loading: from load through every order of completions of
\* load_mem_graph and load_mem_emb to the destructor, whichever contexts the
\* threads were given.
THEOREM Invariance == Spec => []LoadInv
<1>1. Init => LoadInv
  BY InitPart
<1>2. LoadInv /\ [Next]_vars => LoadInv'
  BY NextPart
<1> QED BY <1>1, <1>2, PTL DEF Spec

\* A node that node_in_mem_pos or get_mem_emb_addr finds in a cache of the
\* loaded index finds its own neighbours, or its own vector, there.
THEOREM CachesStayOwn == Spec => []CachesAreOwn
<1>1. ASSUME LoadInv PROVE CachesAreOwn
  <2> SUFFICES ASSUME phase = "ready", NEW n \in Nodes
               PROVE  /\ node_in_mem_pos(n) # INF => mem_graph_[node_in_mem_pos(n)] = n
                      /\ get_mem_emb_addr(n) # INF => coord_cache[get_mem_emb_addr(n)] = n
    BY DEF CachesAreOwn
  <2>1. n \in Nat /\ opt.n_graph \in Nat
    BY <1>1, Constants DEF LoadInv, BatchInv
  <2>2. ASSUME node_in_mem_pos(n) # INF PROVE mem_graph_[node_in_mem_pos(n)] = n
    <3>1. opt.n_graph > 0
      BY <2>1, <2>2 DEF node_in_mem_pos
    <3>2. /\ n < max_cached_id => mem_graph_[n] = n
          /\ n \in DOMAIN cached_popular => n \in Entered
          /\ \A m \in Entered : mem_graph_[cached_popular[m]] = m
      BY <1>1, <3>1 DEF LoadInv, GraphInv, PlacesInv, GraphLoaded
    <3> QED BY <2>2, <3>1, <3>2 DEF node_in_mem_pos
  <2>3. ASSUME get_mem_emb_addr(n) # INF PROVE coord_cache[get_mem_emb_addr(n)] = n
    <3>1. n < max_cached_emb_id /\ get_mem_emb_addr(n) = n
      BY <2>3 DEF get_mem_emb_addr
    <3>2. n \in 0..(max_cached_emb_id - 1)
      BY <1>1, <2>1, <3>1 DEF LoadInv, EmbInv
    <3> QED BY <1>1, <3>1, <3>2 DEF LoadInv, EmbInv
  <2> QED BY <2>2, <2>3
<1> QED BY <1>1, Invariance, PTL

\* The nodes of which load_mem_graph holds the neighbours are the first tags
\* and the first ids, no more than it was given places for, and each has a
\* place inside of mem_graph_.
THEOREM CachesStayFilled == Spec => []CachesAreFilled
<1>1. ASSUME LoadInv PROVE CachesAreFilled
  <2> DEFINE cached == {n \in Nodes : node_in_mem_pos(n) # INF}
             popular == DOMAIN cached_popular
             first == 0..(max_cached_id - 1)
  <2> SUFFICES ASSUME phase = "ready", opt.n_graph > 0
               PROVE  /\ opt.n_graph < num_points =>
                           {tags[i] : i \in 1..Min2(Len(tags), opt.n_graph)} \subseteq cached
                      /\ first \subseteq cached
                      /\ Cardinality(cached) <= opt.n_graph
                      /\ \A n \in cached : node_in_mem_pos(n) \in DOMAIN mem_graph_
    BY DEF CachesAreFilled
  <2>1. /\ opt \in Options /\ tags \in TagLists
        /\ max_cached_id \in Nat /\ popular \subseteq Nodes \ first
        /\ max_cached_id + Cardinality(popular) <= opt.n_graph
        /\ DOMAIN mem_graph_ = 0..(opt.n_graph - 1)
        /\ opt.n_graph < num_points =>
             \A i \in 1..Min2(Len(tags), opt.n_graph) : tags[i] < max_cached_id \/ tags[i] \in popular
        /\ cur_popular_sid = max_cached_id + Cardinality(Entered)
        /\ \A n \in Entered : cached_popular[n] \in max_cached_id..(cur_popular_sid - 1)
        /\ popular \subseteq Nodes /\ \A n \in Nodes : n \in popular => n \in Entered
    BY <1>1 DEF LoadInv, BatchInv, SharesInv, PlacesInv, GraphInv, GraphLoaded
  <2>2. /\ num_points \in Nat /\ opt.n_graph \in 0..num_points /\ Nodes = 0..(num_points - 1)
        /\ INF = num_points + 1 /\ IsFiniteSet(Nodes)
    BY <2>1, Constants
  <2>3. Entered = popular
    BY <2>1 DEF Entered
  <2>4. IsFiniteSet(popular) /\ Cardinality(popular) \in Nat
    BY <2>1, <2>2, FS_Subset, FS_CardinalityType
  <2>5. max_cached_id <= opt.n_graph /\ cur_popular_sid <= opt.n_graph
    BY <2>1, <2>2, <2>3, <2>4
  <2>6. ASSUME NEW n \in Nodes
        PROVE  /\ n < max_cached_id => node_in_mem_pos(n) = n
               /\ ~(n < max_cached_id) /\ n \in popular => node_in_mem_pos(n) = cached_popular[n]
               /\ ~(n < max_cached_id) /\ n \notin popular => node_in_mem_pos(n) = INF
    BY <2>2 DEF node_in_mem_pos
  <2> HIDE DEF popular
  <2>7. ASSUME NEW n \in popular
        PROVE  cached_popular[n] \in 0..(opt.n_graph - 1) /\ cached_popular[n] # INF
    <3>1. cached_popular[n] \in max_cached_id..(cur_popular_sid - 1)
      BY <2>1, <2>3
    <3>2. cur_popular_sid \in Nat
      BY <2>1, <2>3, <2>4
    <3> QED BY <2>1, <2>2, <2>5, <3>1, <3>2
  <2>8. \A n \in Nodes : n \in cached <=> n < max_cached_id \/ n \in popular
    BY <2>1, <2>2, <2>6, <2>7
  <2>9. \A n \in cached : node_in_mem_pos(n) \in DOMAIN mem_graph_
    BY <2>1, <2>2, <2>5, <2>6, <2>7, <2>8
  <2>10. first \subseteq cached
    BY <2>1, <2>2, <2>5, <2>8
  <2>11. cached = first \cup popular
    <3>1. \A n \in Nodes : n \in first <=> n < max_cached_id
      BY <2>1, <2>2
    <3>2. cached \subseteq Nodes /\ popular \subseteq Nodes /\ first \subseteq Nodes
      BY <2>1, <2>10
    <3> HIDE DEF cached, first
    <3> QED BY <2>8, <3>1, <3>2
  <2>12. Cardinality(cached) <= opt.n_graph
    <3> DEFINE top == max_cached_id - 1
    <3>1. top \in Int /\ top + 1 = max_cached_id /\ top >= -1
      BY <2>1
    <3>2. IsFiniteSet(first) /\ Cardinality(first) = max_cached_id
      <4>1. IsFiniteSet(0..top) /\ Cardinality(0..top) = IF 0 > top THEN 0 ELSE top - 0 + 1
        <5> HIDE DEF top
        <5> QED BY <3>1, FS_Interval
      <4> QED BY <3>1, <4>1
    <3> HIDE DEF cached, first, top
    <3>3. Cardinality(first \cup popular) = Cardinality(first) + Cardinality(popular)
                                             - Cardinality(first \cap popular)
      BY <2>4, <3>2, FS_Union
    <3>4. first \cap popular = {}
      BY <2>1
    <3>5. Cardinality(first \cap popular) = 0
      BY <3>4, FS_EmptySet
    <3> QED BY <2>1, <2>2, <2>4, <2>11, <3>2, <3>3, <3>5
  <2>13. ASSUME opt.n_graph < num_points
         PROVE  {tags[i] : i \in 1..Min2(Len(tags), opt.n_graph)} \subseteq cached
    <3>1. tags \in Seq(Nodes) /\ Len(tags) \in Nat
      <4>1. tags \in Seq(Nodes)
        BY <2>1, GorgeousLoadAssumption
      <4> QED BY <4>1, LenProperties
    <3>2. ASSUME NEW i \in 1..Min2(Len(tags), opt.n_graph) PROVE tags[i] \in cached
      <4>1. i \in 1..Len(tags)
        BY <2>2, <3>1 DEF Min2
      <4>2. tags[i] \in Nodes
        BY <3>1, <4>1, ElementOfSeq
      <4>3. tags[i] < max_cached_id \/ tags[i] \in popular
        BY <2>1, <2>13
      <4> HIDE DEF cached
      <4> QED BY <2>8, <4>2, <4>3
    <3> QED BY <3>2
  <2> QED BY <2>9, <2>10, <2>12, <2>13
<1> QED BY <1>1, Invariance, PTL
=============================================================================
