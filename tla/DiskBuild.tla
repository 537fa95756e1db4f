----------------------------- MODULE DiskBuild -----------------------------
(***************************************************************************)
(* Building a disk index (build_disk_index, src/aux_utils.cpp): the PQ     *)
(* pivots and codes, the graph in one shot or in shards that are merged,   *)
(* and the sectors.  A build may be killed at any step, and another one    *)
(* started on the files it left.  A file holds a record, or a sequence of  *)
(* words where the order of reads and writes matters: every number is one  *)
(* word, whatever its width.  A vector is a place on a line, and its       *)
(* dimension only a number.                                                *)
(***************************************************************************)
EXTENDS VamanaBuild, TLC

CONSTANTS Programs,      \* the calls of build_disk_index
          Data,          \* base files: name |-> the points in them
          Seeds,         \* orders in which k-means++ may pick its pivots
          Shuffles,      \* orders in which a shuffle may leave a list
          MaxBuilds,     \* builds on the same files
          MaxParts,      \* shards tried
          MaxTrain,      \* MAX_PQ_TRAINING_SET_SIZE
          Kept,          \* what samples are taken to keep (bound: any points)
          SectorWords,   \* SECTOR_LEN
          CacheWords     \* window of the buffered files

VARIABLES opt,      \* the program of this build
          builds,   \* builds started
          phase,    \* where build_disk_index is
          files,    \* name |-> contents, of the files there are
          chunks,   \* num_pq_chunks
          pivots,   \* pivot_data of the partition
          shard,    \* p, the shard being built
          merge,    \* locals of merge_shards
          sector,   \* next sector of create_disk_layout
          graphs    \* the graph of every shard, in the ids of the base file

vars == <<opt, builds, phase, files, chunks, pivots, shard, merge, sector, graphs>>
work == <<pivots, shard, merge, sector, graphs>>

\* data_file_to_use: for inner products a copy with one dimension more.
Points == Data[opt.data]
npts == Len(Points)
prepped == opt.metric = "ip"
dim == opt.dim + (IF prepped THEN 1 ELSE 0)

Goto(p) == phase' = p
Exists(f) == f \in DOMAIN files
Write(fs, f, content) == (f :> content) @@ fs
Deleted(fs, names) == [f \in DOMAIN fs \ names |-> fs[f]]
Min2(a, b) == IF a < b THEN a ELSE b
-----------------------------------------------------------------------------
(* Buffered files (cached_io.h).                                           *)

open(words) ==
  LET window == Min2(CacheWords, Len(words))
  IN  [words |-> words, pos |-> window, window |-> window,
       cache |-> SubSeq(words, 1, window), cur_off |-> 0, out |-> <<>>, eof |-> FALSE]

\* A read beyond the window takes the rest of it, then the file; the window is
\* filled again only when a whole one is left.
ReadPast(r, n) ==
  LET head == SubSeq(r.cache, r.cur_off + 1, r.window)
      pos == r.pos + n - Len(head)
      out == head \o SubSeq(r.words, r.pos + 1, pos)
  IN  IF pos > Len(r.words) THEN [r EXCEPT !.eof = TRUE]
      ELSE IF Len(r.words) - pos >= r.window
      THEN [r EXCEPT !.out = out, !.pos = pos + r.window, !.cur_off = 0,
                     !.cache = SubSeq(r.words, pos + 1, pos + r.window)]
      ELSE [r EXCEPT !.out = out, !.pos = pos, !.cur_off = r.window]

read(r, n) ==
  IF n <= r.window - r.cur_off
  THEN [r EXCEPT !.out = SubSeq(r.cache, r.cur_off + 1, r.cur_off + n), !.cur_off = @ + n]
  ELSE ReadPast(r, n)

NewFile == [disk |-> <<>>, pos |-> 0, cache |-> <<>>]

\* Words written at a place, over what is there.
Put(disk, pos, words) ==
  SubSeq(disk, 1, pos) \o words \o SubSeq(disk, pos + Len(words) + 1, Len(disk))

flush_cache(w) ==
  [disk |-> Put(w.disk, w.pos, w.cache), pos |-> w.pos + Len(w.cache), cache |-> <<>>]

write(w, words) ==
  IF Len(words) <= CacheWords - Len(w.cache) THEN [w EXCEPT !.cache = @ \o words]
  ELSE flush_cache([w EXCEPT !.cache = @ \o words])

reset(w) == [flush_cache(w) EXCEPT !.pos = 0]

\* What the file holds once it is closed.
close(w) == flush_cache(w).disk

\* A graph in a file: size, width, entry point, frozen points, then the lists.
save_graph(g) ==
  LET lists == FoldLeft(LAMBDA ws, n : ws \o <<Len(g.lists[n])>> \o g.lists[n],
                        <<>>, [i \in 1..Cardinality(DOMAIN g.lists) |-> i - 1])
      width == CHOOSE w \in {Len(g.lists[n]) : n \in DOMAIN g.lists} :
                 \A n \in DOMAIN g.lists : Len(g.lists[n]) <= w
  IN  <<4 + Len(lists), width, g.start, 0>> \o lists
-----------------------------------------------------------------------------
(* Starting a build.                                                       *)

Init ==
  /\ opt = << >> /\ builds = 0 /\ phase = "new" /\ files = << >> /\ chunks = 0
  /\ pivots = <<>> /\ shard = 0 /\ merge = << >> /\ sector = 0 /\ graphs = <<>>

\* Ways in which a build ends.
Ended == {"new", "done", "refused", "failed", "crashed", "exited", "killed"}

build_disk_index ==
  /\ phase \in Ended /\ builds < MaxBuilds
  /\ opt' \in Programs /\ builds' = builds + 1
  /\ phase' = IF opt'.metric = "ip" THEN "prepare" ELSE "parameters"
  /\ chunks' = 0 /\ pivots' = <<>> /\ shard' = 0 /\ merge' = << >> /\ sector' = 0
  /\ graphs' = <<>>
  /\ UNCHANGED files

prepare_base_for_inner_products ==
  /\ phase = "prepare"
  /\ files' = Write(Write(files, "prepped_base", [data |-> opt.data, dim |-> dim]),
                    "max_base_norm", opt.data)
  /\ Goto("parameters")
  /\ UNCHANGED <<opt, builds, chunks, work>>

\* Without n_PQ_code the number of chunks is whatever was in the variable.
Parameters ==
  /\ phase = "parameters"
  /\ chunks' \in IF opt.pq_code = 0 THEN 0..(dim + 1) ELSE {DivRoundUp(dim, opt.pq_code)}
  /\ phase' = IF opt.ram = 0 THEN "refused"
              ELSE IF opt.disk_pq > 0 THEN "disk_pivots" ELSE "pivots"
  /\ UNCHANGED <<opt, builds, files, work>>

\* gen_random_slice: every point when there are no more than MaxTrain, else any,
\* in their order.
Samples == IF npts <= MaxTrain THEN {NodeSeq(Points)}
           ELSE {SelectSeq(NodeSeq(Points), LAMBDA n : n \in kept) : kept \in Kept}
-----------------------------------------------------------------------------
(* PQ pivots and codes, once with the chunks of the disk PQ (which is then *)
(* not supported) and once with those of the search.                       *)

Prefix == IF phase \in {"disk_pivots", "disk_offsets", "disk_codes"} THEN "disk_" ELSE ""
PqChunks == IF Prefix = "disk_" THEN Min2(opt.disk_pq, dim) ELSE chunks
PivotFile == Prefix \o "pq_pivots"
CodeFile == Prefix \o "pq_compressed"

\* Dimensions go to the first bin with room: until enough bins have the higher
\* size they may all get it, then only the lower one.
bin_to_dims(d, c) ==
  LET low == d \div c
      high == DivRoundUp(d, c)
      Push(s, i) ==
        LET b == CHOOSE x \in 1..c : /\ Len(s.bins[x]) < s.threshold
                                     /\ \A y \in 1..(x - 1) : Len(s.bins[y]) >= s.threshold
            full == Len(s.bins[b]) + 1 = high
            highs == s.highs + (IF full THEN 1 ELSE 0)
        IN  [bins |-> [s.bins EXCEPT ![b] = Append(@, i)], highs |-> highs,
             threshold |-> IF full /\ highs = d - low * c THEN low ELSE s.threshold]
  IN  FoldLeft(Push, [bins |-> [b \in 1..c |-> <<>>], highs |-> 0, threshold |-> high],
               [i \in 1..d |-> i - 1]).bins

\* chunk_offsets: where each bin starts in the rearranged order, and the end.
chunk_offsets(d, c) ==
  LET bins == bin_to_dims(d, c)
  IN  FoldLeft(LAMBDA offs, b : Append(offs, Last(offs) + Len(bins[b])),
               <<0>>, [i \in 1..c |-> i])

\* Pivots of the wanted dimension are kept, whatever they were made from: the
\* -1 returned here is not looked at, nor that for too many chunks.
KeepsPivots ==
  \/ PqChunks > dim
  \/ Exists(PivotFile) /\ files[PivotFile].dim = dim

\* With no chunk at all the first dimension is pushed into a bin that is not there.
generate_pq_pivots ==
  /\ phase \in {"disk_pivots", "pivots"}
  /\ \/ /\ KeepsPivots /\ Goto(Prefix \o "codes")
        /\ UNCHANGED files
     \/ /\ ~KeepsPivots /\ PqChunks = 0 /\ Goto("crashed")
        /\ UNCHANGED files
     \/ /\ ~KeepsPivots /\ PqChunks > 0 /\ Goto(Prefix \o "offsets")
        /\ \E train \in Samples :
             files' = Write(files, PivotFile,
                            [dim |-> dim, data |-> opt.data, train |-> train,
                             offsets |-> chunk_offsets(dim, PqChunks), whole |-> FALSE])
  /\ UNCHANGED <<opt, builds, chunks, work>>

\* The table of contents at the start of the file comes last.
WriteOffsets ==
  /\ phase \in {"disk_offsets", "offsets"}
  /\ files' = [files EXCEPT ![PivotFile].whole = TRUE]
  /\ Goto(Prefix \o "codes")
  /\ UNCHANGED <<opt, builds, chunks, work>>

\* Faulty: the number of chunks in the file is not compared.
PivotsFit_AnyChunks ==
  Exists(PivotFile) /\ files[PivotFile].whole /\ files[PivotFile].dim = dim

\* The checks on the file, each of which throws.
PivotsFit ==
  /\ Exists(PivotFile) /\ files[PivotFile].whole /\ files[PivotFile].dim = dim
  /\ Len(files[PivotFile].offsets) = PqChunks + 1

generate_pq_data_from_pivots ==
  /\ phase \in {"disk_codes", "codes"}
  /\ files' = IF ~PivotsFit THEN files
              ELSE Write(files, CodeFile, [pivots |-> files[PivotFile], data |-> opt.data,
                                           points |-> npts, chunks |-> PqChunks])
  /\ phase' = IF ~PivotsFit THEN "failed" ELSE IF Prefix = "disk_" THEN "pivots"
              ELSE IF opt.pq_only THEN "sample" ELSE "graph"
  /\ UNCHANGED <<opt, builds, chunks, work>>
-----------------------------------------------------------------------------
(* Partitioning: k-means on the points, and two shards for every point.    *)

\* estimate_ram_usage: so much for every point, for its vector and its list.
estimate_ram_usage(n, degree) == n * (dim + degree)

\* k-means++ on the places of a sample: those not picked yet, as long as there
\* are some, then the last.
SelectPivots(seed, places, parts) ==
  LET picks == SelectSeq(seed, LAMBDA i : i <= Len(places))
  IN  [c \in 1..parts |-> places[IF c <= Len(places) THEN picks[c] ELSE Len(places)]]

\* The k nearest centers of a place, of equally near ones the first.
compute_closest_centers(x, centers, k) ==
  LET before(a, b) == \/ Square(centers[a] - x) < Square(centers[b] - x)
                      \/ Square(centers[a] - x) = Square(centers[b] - x) /\ a < b
  IN  {c \in DOMAIN centers : Cardinality({b \in DOMAIN centers : before(b, c)}) < k}

SumOver(set, f(_)) == FoldSet(LAMBDA i, s : s + f(i), 0, set)

\* The mean of the places of each center; without any it falls to the origin.
lloyds_iter(s, places) ==
  LET near == [i \in DOMAIN places |->
                 CHOOSE c \in compute_closest_centers(places[i], s.centers, 1) : TRUE]
      docs(c) == {i \in DOMAIN places : near[i] = c}
      centers == [c \in DOMAIN s.centers |->
                    IF docs(c) = {} THEN 0
                    ELSE SumOver(docs(c), LAMBDA i : places[i]) \div Cardinality(docs(c))]
  IN  [centers |-> centers,
       residual |-> SumOver(DOMAIN places, LAMBDA i : Square(places[i] - centers[near[i]])),
       previous |-> s.residual, reps |-> s.reps + 1]

\* At most ten iterations, until nothing is gained.
run_lloyds(start, places) ==
  FoldLeft(LAMBDA s, i :
             IF s.reps > 0 /\ (s.residual = 0 \/ (s.reps > 1 /\ s.previous <= s.residual))
             THEN s ELSE lloyds_iter(s, places),
           [centers |-> start, residual |-> 0, previous |-> 0, reps |-> 0],
           [i \in 1..10 |-> i]).centers

\* The ids of the given points in every shard, in their order.
Clusters(ids, centers) ==
  [c \in DOMAIN centers |->
     SelectSeq(ids, LAMBDA n : c \in compute_closest_centers(Points[n + 1], centers, 2))]

\* The sizes a second sample gives are scaled by the sampling rate, which is
\* above one for few points.
FitsInRam(ids, centers) ==
  LET clusters == Clusters(ids, centers)
  IN  \A c \in DOMAIN centers :
        estimate_ram_usage((Len(clusters[c]) * npts) \div MaxTrain, (2 * opt.R) \div 3)
          <= opt.ram

\* The numbers of shards tried.
Tries == {k \in 3..MaxParts : k % 2 = 1}

build_merged_vamana_index ==
  /\ phase = "graph"
  /\ phase' = IF estimate_ram_usage(npts, opt.R) < opt.ram THEN "one_shot" ELSE "partition"
  /\ UNCHANGED <<opt, builds, files, chunks, work>>

BuildOneShot ==
  /\ phase = "one_shot"
  /\ LET g == link(Points, opt.R, TRUE)
     IN  /\ graphs' = <<[start |-> g.start, lists |-> [n \in DOMAIN g.lists |-> ToSet(g.lists[n])]]>>
         /\ files' = Write(Write(files, "mem_index", save_graph(g)), "mem_index.data", opt.data)
  /\ Goto("one_medoid")
  /\ UNCHANGED <<opt, builds, chunks, pivots, shard, merge, sector>>

RemoveMedoids ==
  /\ phase = "one_medoid"
  /\ files' = Deleted(files, {"medoids", "centroids"})
  /\ Goto("layout")
  /\ UNCHANGED <<opt, builds, chunks, work>>

\* Centers of one sample of the points, judged by another; three of them, or
\* two more until the largest shard fits.  save_bin does not truncate: more
\* centroids that a killed build left stay behind the new ones.
partition_with_ram_budget ==
  /\ phase = "partition"
  /\ \E train \in Samples, test \in Samples, seed \in [Tries -> Seeds], parts \in Tries :
       LET places == [i \in DOMAIN train |-> Points[train[i] + 1]]
           centers(k) == run_lloyds(SelectPivots(seed[k], places, k), places)
           size == IF Exists("temp_centroids") /\ files["temp_centroids"].size > parts
                   THEN files["temp_centroids"].size ELSE parts
       IN  /\ FitsInRam(test, centers(parts))
           /\ \A k \in Tries : k < parts => ~FitsInRam(test, centers(k))
           /\ pivots' = centers(parts)
           /\ files' = Write(files, "temp_centroids", [parts |-> parts, size |-> size])
  /\ Goto("shard_ids")
  /\ UNCHANGED <<opt, builds, chunks, shard, merge, sector, graphs>>

num_parts == Len(pivots)
IdsFile(s) == "ids" \o ToString(s)
DataFile(s) == "data" \o ToString(s)
IndexFile(s) == "index" \o ToString(s)
TempFiles(s) == {IdsFile(s), DataFile(s), IndexFile(s), IndexFile(s) \o ".data"}

shard_data_into_clusters_only_ids ==
  /\ phase = "shard_ids"
  /\ files' = [f \in {IdsFile(c) : c \in 1..num_parts} |->
                 Clusters(NodeSeq(Points), pivots)[CHOOSE c \in 1..num_parts : IdsFile(c) = f]] @@ files
  /\ Goto("rename")
  /\ UNCHANGED <<opt, builds, chunks, work>>

RenameCentroids ==
  /\ phase = "rename"
  /\ files' = Deleted(Write(files, "centroids", files["temp_centroids"]), {"temp_centroids"})
  /\ shard' = 1
  /\ Goto("shard_data")
  /\ UNCHANGED <<opt, builds, chunks, pivots, merge, sector, graphs>>

\* The points of the shard, as long as its ids follow their order.
retrieve_shard_data_from_ids ==
  /\ phase = "shard_data"
  /\ LET ids == files[IdsFile(shard)]
         taken == FoldLeft(LAMBDA s, n : IF s.pos < Len(ids) /\ ids[s.pos + 1] = n
                                         THEN [pos |-> s.pos + 1, vecs |-> Append(s.vecs, Points[n + 1])]
                                         ELSE s,
                           [pos |-> 0, vecs |-> <<>>], NodeSeq(Points))
     IN  files' = Write(files, DataFile(shard), taken.vecs)
  /\ Goto("shard_build")
  /\ UNCHANGED <<opt, builds, chunks, work>>

\* Index::build throws when there is no point in the shard.
BuildShard ==
  /\ phase = "shard_build" /\ files[DataFile(shard)] # <<>>
  /\ LET g == link(files[DataFile(shard)], 2 * (opt.R \div 3), FALSE)
         ids == files[IdsFile(shard)]
     IN  /\ graphs' = Append(graphs,
                [start |-> ids[g.start + 1],
                 lists |-> [n \in ToSet(ids) |->
                    {ids[m + 1] : m \in UNION {ToSet(g.lists[k]) : k \in {x \in DOMAIN g.lists :
                                                                            ids[x + 1] = n}}}]])
         /\ files' = Deleted(Write(Write(files, IndexFile(shard), save_graph(g)),
                                  IndexFile(shard) \o ".data", opt.data),
                            {DataFile(shard)})
  /\ shard' = shard + 1
  /\ phase' = IF shard = num_parts THEN "open_merge" ELSE "shard_data"
  /\ UNCHANGED <<opt, builds, chunks, pivots, merge, sector>>

EmptyShard ==
  /\ phase = "shard_build" /\ files[DataFile(shard)] = <<>>
  /\ Goto("failed")
  /\ UNCHANGED <<opt, builds, files, chunks, work>>
-----------------------------------------------------------------------------
(* Merging the shards.                                                     *)

Shards == 1..num_parts
idmap(s) == files[IdsFile(s)]

\* Every node with its shards, in the order of nodes, then of shards.
NodeShard ==
  FoldLeft(LAMBDA l, n : l \o SelectSeq([s \in Shards |-> <<n, s>>],
                                        LAMBDA x : n \in ToSet(idmap(x[2]))),
           <<>>, NodeSeq(Points))

\* Faulty: the neighbours keep the ids they have in the shard.
Renamed_Not(s, list) == list

Renamed(s, list) == [i \in 1..Len(list) |-> idmap(s)[list[i] + 1]]

\* Size and width, then entry point and frozen points, are read of every shard.
OpenShards ==
  /\ phase = "open_merge"
  /\ \E order \in Shuffles :
       LET readers == [s \in Shards |-> read(read(open(files[IndexFile(s)]), 1), 1)]
           heads == [s \in Shards |-> read(read(readers[s], 1), 1)]
           medoids == [s \in Shards |-> Renamed(s, read(readers[s], 1).out)[1]]
       IN  /\ merge' = [readers |-> heads, todo |-> NodeShard, cur_id |-> 0, nhood |-> <<>>,
                        size |-> 4, order |-> order,
                        writer |-> write(write(write(write(NewFile, <<4>>), <<opt.R>>),
                                               <<medoids[num_parts]>>), <<0>>)]
           /\ files' = Write(Write(files, "medoids", medoids), "mem_index", <<>>)
  /\ Goto("merging")
  /\ UNCHANGED <<opt, builds, chunks, pivots, shard, sector, graphs>>

\* The list of cur_id, cut to the maximal degree after a shuffle.
WriteList(m) ==
  LET shuffled == SortSeq(m.nhood, LAMBDA a, b : m.order[a] < m.order[b])
      kept == SubSeq(shuffled, 1, Min2(Len(shuffled), opt.R))
  IN  [m EXCEPT !.writer = write(write(@, <<Len(kept)>>), kept), !.nhood = <<>>,
                !.size = @ + 1 + Len(kept)]

\* The next list of a shard joins those of the node.
MergeShard ==
  /\ phase = "merging" /\ merge.todo # <<>>
  /\ LET node == Head(merge.todo)[1]
         s == Head(merge.todo)[2]
         m == IF merge.cur_id < node THEN [WriteList(merge) EXCEPT !.cur_id = node] ELSE merge
         count == read(m.readers[s], 1)
         list == read(count, count.out[1])
         failed == count.eof \/ list.eof
     IN  /\ merge' = [m EXCEPT !.readers[s] = list, !.todo = Tail(@),
                               !.nhood = @ \o SelectSeq(Renamed(s, list.out),
                                                        LAMBDA x : x \notin ToSet(m.nhood))]
         /\ phase' = IF failed THEN "failed" ELSE phase
  /\ UNCHANGED <<opt, builds, files, chunks, pivots, shard, sector, graphs>>

EndMerge ==
  /\ phase = "merging" /\ merge.todo = <<>>
  /\ LET m == WriteList(merge)
     IN  files' = Write(files, "mem_index", close(write(reset(m.writer), <<m.size>>)))
  /\ merge' = << >>
  /\ Goto("remove_temp")
  /\ UNCHANGED <<opt, builds, chunks, pivots, shard, sector, graphs>>

RemoveTemp ==
  /\ phase = "remove_temp"
  /\ files' = Deleted(files, UNION {TempFiles(s) : s \in Shards})
  /\ Goto("layout")
  /\ UNCHANGED <<opt, builds, chunks, work>>
-----------------------------------------------------------------------------
(* The sectors of the disk index.                                          *)

NodeLen == files["mem_index"][2] + 1 + dim
NodesPerSector == SectorWords \div NodeLen
NumSectors == DivRoundUp(npts, NodesPerSector)

\* A node longer than a sector: a division by zero.
create_disk_layout ==
  /\ phase = "layout"
  /\ phase' = IF opt.disk_pq > 0 THEN "exited"
              ELSE IF files["mem_index"][1] # Len(files["mem_index"]) THEN "failed"
              ELSE IF NodesPerSector = 0 THEN "crashed" ELSE "sectors"
  /\ files' = IF phase' \in {"failed", "exited"} THEN files
              ELSE Write(files, "disk_index", [header |-> << >>, sectors |-> <<>>])
  /\ sector' = 0
  /\ UNCHANGED <<opt, builds, chunks, pivots, shard, merge, graphs>>

\* Where the list of a node starts in mem_index.
ListAt(n) == FoldLeft(LAMBDA pos, i : pos + 1 + files["mem_index"][pos], 5,
                      [i \in 1..n |-> i])

\* Vector, number of neighbours and neighbours of a node.
NodeRecord(n) ==
  LET at == ListAt(n)
      nnbrs == files["mem_index"][at]
  IN  [coords |-> Points[n + 1], prepped |-> prepped,
       nbrs |-> SubSeq(files["mem_index"], at + 1, at + nnbrs)]

WriteSector ==
  /\ phase = "sectors" /\ sector < NumSectors
  /\ LET first == sector * NodesPerSector
         nodes == Min2(NodesPerSector, npts - first)
     IN  files' = [files EXCEPT !["disk_index"].sectors =
                     Append(@, [i \in 1..nodes |-> NodeRecord(first + i - 1)])]
  /\ sector' = sector + 1
  /\ UNCHANGED <<opt, builds, phase, chunks, pivots, shard, merge, graphs>>

\* The first sector comes last: until then the file has no header.
WriteHeader ==
  /\ phase = "sectors" /\ sector = NumSectors
  /\ files' = [files EXCEPT !["disk_index"].header =
                 [npts |-> npts, dim |-> dim, medoid |-> files["mem_index"][3],
                  len |-> NodeLen, per |-> NodesPerSector, size |-> NumSectors + 1]]
  /\ Goto("sample")
  /\ UNCHANGED <<opt, builds, chunks, work>>

\* A sample of the base for warming up, and the index in memory is removed.
gen_random_slice ==
  /\ phase = "sample"
  /\ files' = Write(files, "sample", [data |-> opt.data, dim |-> dim])
  /\ Goto("remove_mem_index")
  /\ UNCHANGED <<opt, builds, chunks, work>>

RemoveMemIndex ==
  /\ phase = "remove_mem_index"
  /\ files' = Deleted(files, {"mem_index"})
  /\ Goto("done")
  /\ UNCHANGED <<opt, builds, chunks, work>>

\* The process may be killed anywhere, and the tool started again.
Kill ==
  /\ phase \notin Ended
  /\ Goto("killed")
  /\ chunks' = 0 /\ pivots' = <<>> /\ shard' = 0 /\ merge' = << >> /\ sector' = 0 /\ graphs' = <<>>
  /\ UNCHANGED <<opt, builds, files>>

Stopped ==
  /\ phase \in Ended /\ builds = MaxBuilds
  /\ UNCHANGED vars

Next ==
  \/ build_disk_index \/ prepare_base_for_inner_products \/ Parameters
  \/ generate_pq_pivots \/ WriteOffsets \/ generate_pq_data_from_pivots
  \/ build_merged_vamana_index \/ BuildOneShot \/ RemoveMedoids
  \/ partition_with_ram_budget \/ shard_data_into_clusters_only_ids \/ RenameCentroids
  \/ retrieve_shard_data_from_ids \/ BuildShard \/ EmptyShard
  \/ OpenShards \/ MergeShard \/ EndMerge \/ RemoveTemp
  \/ create_disk_layout \/ WriteSector \/ WriteHeader
  \/ gen_random_slice \/ RemoveMemIndex \/ Kill \/ Stopped

Spec == Init /\ [][Next]_vars
-----------------------------------------------------------------------------
\* The neighbours that the graphs built in memory have for a node.
Neighbors(n) == UNION {graphs[s].lists[n] : s \in {x \in DOMAIN graphs : n \in DOMAIN graphs[x].lists}}

Disk == files["disk_index"]
RecordOf(n) == Disk.sectors[(n \div Disk.header.per) + 1][(n % Disk.header.per) + 1]

\* When a build has ended, whatever an earlier one left and wherever that was
\* killed, the disk index holds every node where a search looks for it: with
\* its own vector and, as many as the degree admits, the neighbours that the
\* shards gave it, none of them twice, and at least one.  The entry points are those
\* of the shards, the files with them are there for a sharded index only, and
\* nothing temporary is left of this build.  Once the PQ files are made a build
\* fails for a shard without points only: no shard is read beyond its end, and the
\* size that is written last is that of the file.
DiskIndexRight ==
  /\ phase = "failed" => \/ pivots = <<>> /\ graphs = <<>>
                         \/ Exists(DataFile(shard)) /\ files[DataFile(shard)] = <<>>
  /\ phase = "done" /\ ~opt.pq_only =>
      /\ \A n \in NodesOf(Points) :
           LET r == RecordOf(n)
           IN  /\ r.coords = Points[n + 1] /\ r.prepped = prepped
               /\ ToSet(r.nbrs) \subseteq Neighbors(n) \ {n} /\ IsInjective(r.nbrs)
               /\ Len(r.nbrs) = Min2(opt.R, Cardinality(Neighbors(n)))
               /\ opt.R >= 3 => Len(r.nbrs) > 0
      /\ Disk.header.npts = npts /\ Disk.header.size = Len(Disk.sectors) + 1
      /\ Disk.header.medoid = Last(graphs).start
      /\ IF Len(graphs) = 1 THEN {"medoids", "centroids"} \cap DOMAIN files = {}
         ELSE /\ files["medoids"] = [s \in DOMAIN graphs |-> graphs[s].start]
              /\ files["centroids"].parts = Len(graphs)
      /\ DOMAIN files \cap (UNION {TempFiles(s) : s \in Shards} \cup {"mem_index"}) = {}

\* The compressed vectors of a finished build were made from the pivots that
\* are in the file, for all points and in the chunks asked for, and the chunks
\* divide the dimensions evenly.  The pivots may be those of another base file.
PqMatches ==
  phase = "done" =>
    LET codes == files["pq_compressed"]
        offs == codes.pivots.offsets
    IN  /\ codes.pivots = files["pq_pivots"] /\ codes.pivots.whole
        /\ codes.data = opt.data /\ codes.points = npts /\ codes.chunks = chunks
        /\ Len(offs) = chunks + 1 /\ offs[1] = 0 /\ Last(offs) = dim
        /\ \A c \in 1..chunks : offs[c + 1] - offs[c] \in {dim \div chunks, DivRoundUp(dim, chunks)}
=============================================================================
