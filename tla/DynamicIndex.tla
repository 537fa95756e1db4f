---------------------------- MODULE DynamicIndex ----------------------------
(***************************************************************************)
(* The in-memory index while points come and go (src/index.cpp):           *)
(* insert_point, lazy_delete and consolidate_deletes, called by several    *)
(* threads, one action per stretch of code between two lock operations;    *)
(* save, with the compaction before it, and load by a process started after *)
(* this one was stopped at any point.  save compacts before it takes any   *)
(* lock but one, so it is only called, and left to compact, alone.         *)
(*                                                                         *)
(* A point is known by its tag and lives in a slot.  data[s] is the tag    *)
(* whose vector was last copied to slot s.  Distances are left out: where  *)
(* the code prunes candidates by distance, any choice that respects the    *)
(* degree bound may come out.  Locks that are taken and released within    *)
(* one action (_tag_lock, _delete_lock, _locks[i]) need no variable.       *)
(* EXPAND_IF_FULL is 0, so the index never grows.                          *)
(***************************************************************************)
EXTENDS Integers, FiniteSets, SequencesExt

CONSTANTS
  Threads, Tags,
  MaxPoints,     \* _max_points
  IndexingRange, \* _indexingRange
  SlackRange,    \* GRAPH_SLACK_FACTOR * _indexingRange
  StartPoints,   \* how many points the index may have been built with
  StartGraph(_), \* the graph built over so many points
  ConcModes,     \* values of the constructor's concurrent_consolidate
  SavesWithHoles, \* save is called although the slots in use have gaps that
                  \* _data_compacted knows nothing of
  SparseTogether, \* insertions run together while there are fewer than
                  \* IndexingRange points, and link points not yet linked
  MaxRestarts,   \* bound on the loads
  MaxCalls,      \* bound on the calls of all threads together
  MaxCallsMisused \* the same, for an index whose callers are out of order

Frozen == MaxPoints         \* the frozen point, _start
Slots == 0..(MaxPoints - 1)
Nodes == Slots \cup {Frozen}
NoTag == 0                  \* a slot nothing was copied to
FrozenVector == -1          \* what data holds for the frozen point
NoSlot == -1
Nobody == "nobody"

ASSUME IndexAssumption ==
  /\ Tags \subseteq Nat \ {NoTag} /\ MaxPoints \in Nat \ {0}
  /\ IndexingRange \in Nat \ {0, 1} /\ SlackRange \in Nat
  /\ IndexingRange <= SlackRange
  /\ StartPoints \subseteq 0..MaxPoints
  /\ \A n \in StartPoints : 1..n \subseteq Tags
  /\ \A n \in StartPoints :
       StartGraph(n) \in [Nodes -> SUBSET ((0..(n - 1)) \cup {Frozen})]
  /\ ConcModes \subseteq BOOLEAN
  /\ SavesWithHoles \in BOOLEAN /\ SparseTogether \in BOOLEAN
  /\ MaxRestarts \in Nat /\ MaxCalls \in Nat /\ MaxCallsMisused \in Nat /\ Nobody \notin Threads

VARIABLES
  conc_consolidate,
  nd, empty_slots, delete_set, tag_to_location, location_to_tag,
  data_compacted,  \* no deletion since the slots were last in order
  final_graph, data,
  start,           \* _start, where the frozen point is
  files,           \* what save has written: "graph", "start", "data", "tags"
  restarts,        \* loads so far
  usage,           \* history of the calls: "built", "enabled" or "misused"
  calls,           \* calls made so far
  failure,         \* the exception or undefined access met, if any
  update_readers, update_writer,  \* who holds _update_lock
  consolidator,                   \* who holds _consolidate_lock
  pc,
  tag, location,   \* of the insertion a thread is in
  pruned_list,     \* neighbours chosen, then those still to be linked back
  des, copy_of_neighbors, \* a full list read under its lock, to be written back pruned
  old_delete_set,  \* the deleted slots a consolidation took over
  unscanned        \* the nodes it has not processed

slots == <<nd, empty_slots, delete_set, tag_to_location, location_to_tag, data_compacted>>
graph == <<final_graph, data, start>>
stored == <<files, restarts>>
locks == <<update_readers, update_writer, consolidator>>
insertion == <<tag, location, pruned_list, des, copy_of_neighbors>>
consolidation == <<old_delete_set, unscanned>>
vars == <<conc_consolidate, slots, graph, stored, usage, calls, failure, locks, pc,
          insertion, consolidation>>

-----------------------------------------------------------------------------
(***************************************************************************)
(* natural_number_set: a stack of numbers and a bitset that grows to the   *)
(* largest number it has held.                                             *)
(***************************************************************************)
NoNumbers == [values |-> <<>>, bits |-> {}, size |-> 0]

Insert(s, id) == [values |-> Append(s.values, id), bits |-> s.bits \cup {id},
                  size |-> IF id < s.size THEN s.size ELSE id + 1]

\* So many insertions, one after another.
InsertAll(s, ids) ==
  [values |-> s.values \o ids, bits |-> s.bits \cup ToSet(ids),
   size |-> Max({s.size} \cup {id + 1 : id \in ToSet(ids)})]

Pop(s) == [s EXCEPT !.values = Front(@), !.bits = @ \ {Last(s.values)}]

\* is_in_set looks at a bit; beyond the bitset this is undefined.
Testable(s, id) == id < s.size

\* The slots behind the first n, in order.
SlotsFrom(n) == [i \in 1..(MaxPoints - n) |-> n + i - 1]

With(f, k, v) == [x \in DOMAIN f \cup {k} |-> IF x = k THEN v ELSE f[x]]

\* The slots in use, and how many of them are before a slot: where it goes when
\* the slots are put in order.
Live == DOMAIN location_to_tag
new_location(old) ==
  IF old = Frozen THEN Frozen ELSE Cardinality({s \in Live : s < old})

-----------------------------------------------------------------------------
\* An index built over so many points.
Init ==
  /\ conc_consolidate \in ConcModes
  /\ nd \in StartPoints
  /\ empty_slots = NoNumbers
  /\ delete_set = {}
  /\ tag_to_location = [t \in 1..nd |-> t - 1]
  /\ location_to_tag = [s \in 0..(nd - 1) |-> s + 1]
  /\ data_compacted = TRUE
  /\ final_graph = StartGraph(nd)
  /\ data = [n \in Nodes |-> IF n < nd THEN n + 1
                              ELSE IF n = Frozen THEN FrozenVector ELSE NoTag]
  /\ start = Frozen /\ files = << >> /\ restarts = 0
  /\ usage = "built" /\ calls = 0 /\ failure = "none"
  /\ update_readers = {} /\ update_writer = Nobody /\ consolidator = Nobody
  /\ pc = [c \in Threads |-> "idle"]
  /\ tag = [c \in Threads |-> NoTag] /\ location = [c \in Threads |-> NoSlot]
  /\ pruned_list = [c \in Threads |-> {}]
  /\ des = [c \in Threads |-> NoSlot] /\ copy_of_neighbors = [c \in Threads |-> {}]
  /\ old_delete_set = [c \in Threads |-> {}]
  /\ unscanned = [c \in Threads |-> {}]

(***************************************************************************)
(* The code keeps no record of whether enable_delete was called, and no    *)
(* call asks: a variable of the model does.  The bookkeeping of the slots  *)
(* is only sound if enable_delete is called once, on an index with room,   *)
(* and not after a load, and if before it points with new tags are         *)
(* inserted at most.  Any other call is made all the same, and what comes  *)
(* of it is modelled; the history then says "misused" for good.            *)
(***************************************************************************)
UsedAsMeant == usage # "misused"

\* A thread with nothing to do makes a call, unless one is in save and has not
\* got its locks.  The model ends with a failure.
Calls(c) == /\ pc[c] = "idle" /\ failure = "none"
            /\ calls < IF UsedAsMeant THEN MaxCalls ELSE MaxCallsMisused
            /\ \A d \in Threads : pc[d] \notin {"compact", "freeze", "save"}
            /\ calls' = calls + 1

At(c, place) == pc[c] = place /\ failure = "none"
Goto(c, place) == pc' = [pc EXCEPT ![c] = place]

\* The call of c is over: its locks are released and its locals are gone.
Return(c) ==
  /\ Goto(c, "idle")
  /\ update_readers' = update_readers \ {c}
  /\ update_writer' = IF update_writer = c THEN Nobody ELSE update_writer
  /\ consolidator' = IF consolidator = c THEN Nobody ELSE consolidator
  /\ tag' = [tag EXCEPT ![c] = NoTag]
  /\ location' = [location EXCEPT ![c] = NoSlot]
  /\ pruned_list' = [pruned_list EXCEPT ![c] = {}]
  /\ des' = [des EXCEPT ![c] = NoSlot]
  /\ copy_of_neighbors' = [copy_of_neighbors EXCEPT ![c] = {}]
  /\ old_delete_set' = [old_delete_set EXCEPT ![c] = {}]
  /\ unscanned' = [unscanned EXCEPT ![c] = {}]

Fail(c, what) == failure' = what /\ Return(c)

\* A call that needs the free slots to be entered.
NeedsFreeSlots == usage' = IF usage = "enabled" THEN "enabled" ELSE "misused"

NewTag(t) == t \notin DOMAIN tag_to_location /\ \A c \in Threads : tag[c] # t

enable_delete(c) ==
  /\ Calls(c)
  /\ update_readers = {} /\ update_writer = Nobody
  /\ usage' = IF usage = "built" /\ nd < MaxPoints THEN "enabled" ELSE "misused"
  /\ empty_slots' = IF data_compacted
                      THEN InsertAll(empty_slots, SlotsFrom(nd))
                      ELSE empty_slots
  /\ UNCHANGED <<conc_consolidate, nd, delete_set, tag_to_location,
                 location_to_tag, data_compacted, graph, stored, failure,
                 locks, pc, insertion, consolidation>>

-----------------------------------------------------------------------------
(***************************************************************************)
(* insert_point                                                            *)
(***************************************************************************)
insert_point(c, t) ==
  /\ Calls(c)
  /\ usage' = IF usage = "built" /\ ~NewTag(t) THEN "misused" ELSE usage
  /\ update_writer = Nobody
  /\ SparseTogether \/ nd >= IndexingRange \/ update_readers = {}
  /\ update_readers' = update_readers \cup {c}
  /\ tag' = [tag EXCEPT ![c] = t]
  /\ Goto(c, "reserve")
  /\ UNCHANGED <<conc_consolidate, slots, graph, stored, failure,
                 update_writer, consolidator, location, pruned_list, des,
                 copy_of_neighbors, consolidation>>

\* The slot reserve_location hands out: the next in order until a slot has
\* been freed, then one of the free ones.
InOrder == data_compacted /\ empty_slots.values = <<>>
Unreservable ==
  ~InOrder /\ (empty_slots.values = <<>> \/ Len(empty_slots.values) + nd # MaxPoints)
Reserved == IF InOrder THEN nd ELSE Last(empty_slots.values)
StillFree == IF InOrder THEN empty_slots ELSE Pop(empty_slots)

\* reserve_location and the entry of the tag, under _tag_lock.  An assertion
\* wants the free slots to be there and to be the right number; without it
\* pop_any throws when there is none, or a slot is handed out twice.
Reserve(c) ==
  /\ At(c, "reserve")
  /\ nd < MaxPoints
  /\ Unreservable \/ tag[c] \notin DOMAIN tag_to_location
  /\ IF Unreservable THEN Fail(c, "not_accounted") /\ UNCHANGED slots
     ELSE /\ empty_slots' = StillFree
          /\ delete_set' = IF InOrder THEN delete_set ELSE delete_set \ {Reserved}
          /\ tag_to_location' = With(tag_to_location, tag[c], Reserved)
          /\ location_to_tag' = With(location_to_tag, Reserved, tag[c])
          /\ location' = [location EXCEPT ![c] = Reserved]
          /\ nd' = nd + 1
          /\ Goto(c, "write")
          /\ UNCHANGED <<data_compacted, failure, locks, tag, pruned_list, des,
                         copy_of_neighbors, consolidation>>
  /\ UNCHANGED <<conc_consolidate, graph, stored, usage, calls>>

\* No room: the call returns -1.
ReserveFull(c) ==
  /\ At(c, "reserve")
  /\ nd >= MaxPoints
  /\ Return(c)
  /\ UNCHANGED <<conc_consolidate, slots, graph, stored, usage, calls,
                 failure>>

\* Faulty: the slot reserved for a tag that exists is not released.
ReserveDuplicate_KeepsSlot(c) ==
  /\ At(c, "reserve")
  /\ nd < MaxPoints /\ ~Unreservable /\ tag[c] \in DOMAIN tag_to_location
  /\ empty_slots' = StillFree
  /\ nd' = nd + 1
  /\ Return(c)
  /\ UNCHANGED <<conc_consolidate, delete_set, tag_to_location,
                 location_to_tag, data_compacted, graph, stored, usage,
                 calls, failure>>

\* The tag exists: the slot just reserved is released again.
ReserveDuplicate(c) ==
  /\ At(c, "reserve")
  /\ nd < MaxPoints /\ ~Unreservable /\ tag[c] \in DOMAIN tag_to_location
  /\ IF ~Testable(StillFree, Reserved) THEN Fail(c, "bad_bit") /\ UNCHANGED slots
     ELSE IF Reserved \in StillFree.bits THEN Fail(c, "double_release") /\ UNCHANGED slots
     ELSE /\ empty_slots' = Insert(StillFree, Reserved)
          /\ delete_set' = IF InOrder THEN delete_set ELSE delete_set \ {Reserved}
          /\ Return(c)
          /\ UNCHANGED <<nd, tag_to_location, location_to_tag, data_compacted,
                         failure>>
  /\ UNCHANGED <<conc_consolidate, graph, stored, usage, calls>>

\* Copy the vector.
WriteVector(c) ==
  /\ At(c, "write")
  /\ data' = [data EXCEPT ![location[c]] = tag[c]]
  /\ Goto(c, "search")
  /\ UNCHANGED <<conc_consolidate, slots, final_graph, start, stored, usage,
                 calls, failure, locks, insertion, consolidation>>

\* What a traversal from _start can visit.
Closed(r) == \A n \in r : final_graph[n] \subseteq r
Reach == {n \in Nodes : \A r \in SUBSET Nodes : start \in r /\ Closed(r) => n \in r}

\* What pruning may leave of a set of candidates.
Pruned(candidates) ==
  {p \in SUBSET candidates : /\ Cardinality(p) <= IndexingRange
                             /\ candidates # {} => p # {}}

\* The frozen point and the first points, while there are few.
FirstPoints == {Frozen} \cup {s \in Live : new_location(s) < IndexingRange - 1}

\* Choose neighbours for the point.  delete_set is read without a lock.
FindNeighbors(c) ==
  /\ At(c, "search")
  /\ pruned_list' \in
       IF nd >= IndexingRange
         THEN {[pruned_list EXCEPT ![c] = p] :
                 p \in Pruned(Reach \ ({location[c]} \cup delete_set))}
         ELSE {[pruned_list EXCEPT ![c] = FirstPoints]}
  /\ Goto(c, "link")
  /\ UNCHANGED <<conc_consolidate, slots, graph, stored, usage, calls,
                 failure, locks, tag, location, des, copy_of_neighbors,
                 consolidation>>

\* Write the point's own list; with concurrent consolidation only neighbours
\* that have a tag (under _tag_lock).
LinkPoint(c) ==
  /\ At(c, "link")
  /\ final_graph' = [final_graph EXCEPT ![location[c]] =
       {n \in pruned_list[c] : conc_consolidate => n \in DOMAIN location_to_tag}]
  /\ Goto(c, "back")
  /\ UNCHANGED <<conc_consolidate, slots, data, start, stored, usage, calls,
                 failure, locks, insertion, consolidation>>

\* Faulty: the test for room is off by one.
LinkBack_OneMore(c, n) ==
  /\ At(c, "back")
  /\ n \in pruned_list[c]
  /\ Cardinality(final_graph[n]) <= SlackRange
  /\ final_graph' = [final_graph EXCEPT ![n] = @ \cup {location[c]}]
  /\ pruned_list' = [pruned_list EXCEPT ![c] = @ \ {n}]
  /\ UNCHANGED <<conc_consolidate, slots, data, start, stored, usage, calls,
                 failure, locks, pc, tag, location, des,
                 copy_of_neighbors, consolidation>>

\* inter_insert: link a neighbour back, under its lock; a full list is copied
\* to be pruned outside.
LinkBack(c, n) ==
  /\ At(c, "back")
  /\ n \in pruned_list[c]
  /\ LET present == location[c] \in final_graph[n]
         room == Cardinality(final_graph[n]) < SlackRange
     IN  /\ final_graph' = IF present \/ ~room THEN final_graph
                           ELSE [final_graph EXCEPT ![n] = @ \cup {location[c]}]
         /\ IF present \/ room
              THEN /\ pruned_list' = [pruned_list EXCEPT ![c] = @ \ {n}]
                   /\ UNCHANGED <<pc, des, copy_of_neighbors>>
              ELSE /\ Goto(c, "prune")
                   /\ des' = [des EXCEPT ![c] = n]
                   /\ copy_of_neighbors' =
                        [copy_of_neighbors EXCEPT ![c] = final_graph[n] \cup {location[c]}]
                   /\ UNCHANGED pruned_list
  /\ UNCHANGED <<conc_consolidate, slots, data, start, stored, usage, calls,
                 failure, locks, tag, location, consolidation>>

\* inter_insert, under the neighbour's lock again: its list becomes the pruned
\* copy, whatever it has become meanwhile.
PruneBack(c) ==
  /\ At(c, "prune")
  /\ \E p \in Pruned(copy_of_neighbors[c] \ {des[c]}) :
       final_graph' = [final_graph EXCEPT ![des[c]] = p]
  /\ pruned_list' = [pruned_list EXCEPT ![c] = @ \ {des[c]}]
  /\ des' = [des EXCEPT ![c] = NoSlot]
  /\ copy_of_neighbors' = [copy_of_neighbors EXCEPT ![c] = {}]
  /\ Goto(c, "back")
  /\ UNCHANGED <<conc_consolidate, slots, data, start, stored, usage, calls,
                 failure, locks, tag, location, consolidation>>

ReturnInsert(c) ==
  /\ At(c, "back")
  /\ pruned_list[c] = {}
  /\ Return(c)
  /\ UNCHANGED <<conc_consolidate, slots, graph, stored, usage, calls,
                 failure>>

-----------------------------------------------------------------------------
\* lazy_delete, of one tag or of a batch: tags that are not found fail, the
\* others give up their slots, under _tag_lock and _delete_lock.
lazy_delete(c, tags) ==
  /\ Calls(c) /\ NeedsFreeSlots
  /\ update_writer = Nobody
  /\ data_compacted' = FALSE
  /\ LET found == tags \cap DOMAIN tag_to_location
         freed == {tag_to_location[t] : t \in found}
     IN  /\ delete_set' = delete_set \cup freed
         /\ tag_to_location' = Restrict(tag_to_location, DOMAIN tag_to_location \ found)
         /\ location_to_tag' = Restrict(location_to_tag, DOMAIN location_to_tag \ freed)
  /\ UNCHANGED <<conc_consolidate, nd, empty_slots, graph, stored,
                 failure, locks, pc, insertion, consolidation>>

-----------------------------------------------------------------------------
(***************************************************************************)
(* consolidate_deletes                                                     *)
(***************************************************************************)
SizeOf(f) == Cardinality(DOMAIN f)

\* The checks on the counts, under shared locks that are released again.
consolidate_deletes(c) ==
  /\ Calls(c) /\ NeedsFreeSlots
  /\ update_writer = Nobody
  /\ IF Len(empty_slots.values) + nd # MaxPoints THEN Fail(c, "not_accounted")
     ELSE IF SizeOf(location_to_tag) + Cardinality(delete_set) # nd
       THEN Return(c) /\ UNCHANGED failure     \* INCONSISTENT_COUNT_ERROR
     ELSE IF SizeOf(location_to_tag) # SizeOf(tag_to_location) THEN Fail(c, "tags_differ")
     ELSE /\ Goto(c, IF conc_consolidate THEN "try" ELSE "exclude")
          /\ UNCHANGED <<failure, locks, insertion, consolidation>>
  /\ UNCHANGED <<conc_consolidate, slots, graph, stored>>

\* Faulty: insertions in progress are not waited for.
ExcludeUpdates_IgnoresReaders(c) ==
  /\ At(c, "exclude")
  /\ update_writer = Nobody
  /\ update_writer' = c
  /\ Goto(c, "try")
  /\ UNCHANGED <<conc_consolidate, slots, graph, stored, usage, calls,
                 failure, update_readers, consolidator, insertion,
                 consolidation>>

\* Without concurrent consolidation nothing else runs from here on.
ExcludeUpdates(c) ==
  /\ At(c, "exclude")
  /\ update_readers = {} /\ update_writer = Nobody
  /\ update_writer' = c
  /\ Goto(c, "try")
  /\ UNCHANGED <<conc_consolidate, slots, graph, stored, usage, calls,
                 failure, update_readers, consolidator, insertion,
                 consolidation>>

TryConsolidate(c) ==
  /\ At(c, "try")
  /\ IF consolidator = Nobody
       THEN /\ consolidator' = c /\ Goto(c, "swap")
            /\ UNCHANGED <<update_readers, update_writer, insertion,
                           consolidation>>
       ELSE Return(c)                          \* LOCK_FAIL
  /\ UNCHANGED <<conc_consolidate, slots, graph, stored, usage, calls,
                 failure>>

\* Faulty: the deleted slots are copied, not taken over.
TakeDeleted_Copies(c) ==
  /\ At(c, "swap")
  /\ old_delete_set' = [old_delete_set EXCEPT ![c] = delete_set]
  /\ unscanned' = [unscanned EXCEPT ![c] = Nodes]
  /\ Goto(c, "scan")
  /\ UNCHANGED <<conc_consolidate, slots, graph, stored, usage, calls,
                 failure, locks, insertion>>

\* Take over the deleted slots, under _delete_lock.
TakeDeleted(c) ==
  /\ At(c, "swap")
  /\ old_delete_set' = [old_delete_set EXCEPT ![c] = delete_set]
  /\ delete_set' = {}
  /\ unscanned' = [unscanned EXCEPT ![c] = Nodes]
  /\ Goto(c, "scan")
  /\ UNCHANGED <<conc_consolidate, nd, empty_slots, tag_to_location,
                 location_to_tag, data_compacted, graph, stored, usage,
                 calls, failure, locks, insertion>>

\* Faulty: the neighbours taken over may be deleted themselves.
Repaired_TakesAll(n, old) ==
  LET gone == final_graph[n] \cap old
      heirs == ((final_graph[n] \ old) \cup UNION {final_graph[d] : d \in gone}) \ {n}
  IN  IF gone = {} THEN {final_graph[n]} ELSE Pruned(heirs)

\* The lists process_delete may leave for node n: a list with a deleted node in
\* it takes over that node's neighbours and is pruned.
Repaired(n, old) ==
  LET gone == final_graph[n] \cap old
      heirs == ((final_graph[n] \cup UNION {final_graph[d] : d \in gone}) \ old) \ {n}
  IN  IF gone = {} THEN {final_graph[n]} ELSE Pruned(heirs)

\* One turn of the parallel loop over the slots, or of the loop over the frozen
\* point behind it.  Deleted and free slots are skipped.
ProcessDelete(c, n) ==
  /\ At(c, "scan")
  /\ n \in unscanned[c]
  /\ n = Frozen => unscanned[c] = {Frozen}
  /\ unscanned' = [unscanned EXCEPT ![c] = @ \ {n}]
  /\ IF n \in Slots /\ (n \in old_delete_set[c] \/ n \in empty_slots.bits)
       THEN UNCHANGED final_graph
       ELSE \E g \in Repaired(n, old_delete_set[c]) : final_graph' = [final_graph EXCEPT ![n] = g]
  /\ failure' = IF n \in Slots \ old_delete_set[c] /\ ~Testable(empty_slots, n)
                  THEN "bad_bit" ELSE failure
  /\ UNCHANGED <<conc_consolidate, slots, data, start, stored, usage, calls,
                 locks, pc, insertion, old_delete_set>>

\* release_locations, under _tag_lock: the slots are free, and must not have
\* been before.
ReleaseDeleted(c) ==
  /\ At(c, "scan")
  /\ unscanned[c] = {}
  /\ LET old == old_delete_set[c]
         untestable == {s \in old : ~Testable(empty_slots, s)}
     IN  IF untestable # {} THEN Fail(c, "bad_bit") /\ UNCHANGED slots
         ELSE IF old \cap empty_slots.bits # {} THEN Fail(c, "double_release") /\ UNCHANGED slots
         ELSE IF Len(empty_slots.values) + nd # MaxPoints THEN Fail(c, "not_accounted") /\ UNCHANGED slots
         ELSE /\ \E s \in SetToSeqs(old) : empty_slots' = InsertAll(empty_slots, s)
              /\ nd' = nd - Cardinality(old)
              /\ Return(c)
              /\ UNCHANGED <<delete_set, tag_to_location, location_to_tag,
                             data_compacted, failure>>
  /\ UNCHANGED <<conc_consolidate, graph, stored, usage, calls>>

-----------------------------------------------------------------------------
(***************************************************************************)
(* save, and load by a new process                                         *)
(***************************************************************************)
\* Calls after which the code goes on rightly.  Without compaction the index is
\* compacted and full: otherwise the frozen point is not where save_tags and the
\* graph look.  Compacting a full index leaves a bitset without bits, which
\* is_in_set would then test.
Orderly(compact_before_save) ==
  IF data_compacted
    THEN (nd = MaxPoints \/ compact_before_save) /\ (SavesWithHoles \/ Live = 0..(nd - 1))
    ELSE compact_before_save => nd < MaxPoints \/ delete_set # {}

save(c, compact_before_save) ==
  /\ Calls(c) /\ files = << >> /\ \A d \in Threads : pc[d] = "idle"
  /\ Orderly(compact_before_save)
  /\ Goto(c, IF compact_before_save THEN "compact"
             ELSE IF data_compacted THEN "save" ELSE "idle")     \* ANNException
  /\ UNCHANGED <<conc_consolidate, slots, graph, stored, usage, failure,
                 locks, insertion, consolidation>>

\* Faulty: points move, the edges to them stay as they were.
compacted_OldEdges(lists) ==
  [n \in Nodes |->
     IF n \notin {new_location(s) : s \in Live \cup {Frozen}} THEN {}
     ELSE LET old == CHOOSE s \in Live \cup {Frozen} : new_location(s) = n
          IN  lists[old] \cap (Live \cup {Frozen})]

\* The lists where the points go; edges to a slot without a tag are erased.
compacted(lists) ==
  [n \in Nodes |->
     {new_location(m) : m \in
        (UNION {lists[s] : s \in {x \in Live \cup {Frozen} : new_location(x) = n}})
          \cap (Live \cup {Frozen})}]

\* Nothing is done when no deletion has been made; with deletions that were not
\* consolidated the call throws.
compact_data(c) ==
  /\ At(c, "compact")
  /\ IF data_compacted THEN Goto(c, "freeze") /\ UNCHANGED <<slots,
                                                             final_graph,
                                                             data>>
     ELSE IF delete_set # {} THEN Goto(c, "idle") /\ UNCHANGED <<slots,
                                                                 final_graph,
                                                                 data>>
     ELSE /\ final_graph' = compacted(final_graph)
          /\ data' = [n \in Nodes |->
               IF \E s \in Live : new_location(s) = n
               THEN data[CHOOSE s \in Live : new_location(s) = n] ELSE data[n]]
          /\ tag_to_location' = [t \in DOMAIN tag_to_location |->
                                   new_location(tag_to_location[t])]
          /\ location_to_tag' = [n \in {new_location(s) : s \in Live} |->
               location_to_tag[CHOOSE s \in Live : new_location(s) = n]]
          /\ empty_slots' = InsertAll(NoNumbers, SlotsFrom(nd))
          /\ data_compacted' = TRUE
          /\ Goto(c, "freeze")
          /\ UNCHANGED <<nd, delete_set>>
  /\ UNCHANGED <<conc_consolidate, start, stored, usage, calls, failure,
                 locks, insertion, consolidation>>

\* A point moves, with its list, its vector and the edges that points have to it.
Moved(lists, n, old, new) ==
  [m \in Nodes |-> IF m = new THEN lists[old] ELSE IF m = old THEN {}
                   ELSE IF m < n THEN {IF k = old THEN new ELSE k : k \in lists[m]}
                   ELSE lists[m]]
MovedVector(vectors, old, new) == [vectors EXCEPT ![new] = vectors[old], ![old] = NoTag]

\* The frozen point goes behind the others; without neighbours it is only said
\* to be there.
compact_frozen_point(c) ==
  /\ At(c, "freeze")
  /\ start' = IF nd < MaxPoints THEN nd ELSE start
  /\ IF nd < MaxPoints /\ final_graph[Frozen] # {}
       THEN /\ final_graph' = Moved(final_graph, nd, Frozen, nd)
            /\ data' = MovedVector(data, Frozen, nd)
       ELSE UNCHANGED <<final_graph, data>>
  /\ Goto(c, "save")
  /\ UNCHANGED <<conc_consolidate, slots, stored, usage, calls, failure,
                 locks, insertion, consolidation>>

\* From here on under all locks.  The files are written one after another.
save_graph(c) ==
  /\ At(c, "save") /\ update_readers = {} /\ update_writer = Nobody /\ consolidator = Nobody
  /\ update_writer' = c /\ consolidator' = c
  /\ files' = With(With(files, "start", start), "graph", [n \in 0..nd |-> final_graph[n]])
  /\ Goto(c, "save_data")
  /\ UNCHANGED <<conc_consolidate, slots, graph, restarts, usage, calls,
                 failure, update_readers, insertion, consolidation>>

save_data(c) ==
  /\ At(c, "save_data")
  /\ files' = With(files, "data", [n \in 0..nd |-> data[n]])
  /\ Goto(c, "save_tags")
  /\ UNCHANGED <<conc_consolidate, slots, graph, restarts, usage, calls,
                 failure, locks, insertion, consolidation>>

save_tags(c) ==
  /\ At(c, "save_tags")
  /\ files' = With(files, "tags", [n \in 0..nd |->
                                     IF n \in Live THEN location_to_tag[n] ELSE NoTag])
  /\ Goto(c, "saved")
  /\ UNCHANGED <<conc_consolidate, slots, graph, restarts, usage, calls,
                 failure, locks, insertion, consolidation>>

\* The frozen point goes back to the end, and save returns.
reposition_frozen_point_to_end(c) ==
  /\ At(c, "saved")
  /\ IF nd = MaxPoints THEN UNCHANGED graph
     ELSE /\ final_graph' = Moved(final_graph, nd, nd, Frozen)
          /\ data' = MovedVector(data, nd, Frozen)
          /\ start' = Frozen
  /\ Return(c)
  /\ UNCHANGED <<conc_consolidate, slots, stored, usage, calls, failure>>

\* What the files say, of the frozen point in the last place too.
load_data == [m \in Nodes |-> IF m \in DOMAIN files["data"] THEN files["data"][m] ELSE NoTag]
load_tags == [s \in {x \in DOMAIN files["tags"] : x + 1 \in DOMAIN files["tags"]} |->
                files["tags"][s]]
load_graph == [m \in Nodes |-> IF m \in DOMAIN files["graph"] THEN files["graph"][m] ELSE {}]

\* The process was stopped, anywhere, and a new one loads the files, into an
\* index that they do not fill; with a file missing load throws.
load ==
  /\ failure = "none" /\ files # << >> /\ restarts < MaxRestarts
  /\ restarts' = restarts + 1
  /\ IF DOMAIN files # {"graph", "start", "data", "tags"}
       THEN /\ failure' = "not_loaded"
            /\ UNCHANGED <<slots, graph, usage, locks, pc, insertion,
                           consolidation>>
       ELSE LET n == Cardinality(DOMAIN files["data"]) - 1
            IN  /\ n < MaxPoints
                /\ nd' = n
                /\ empty_slots' = InsertAll(NoNumbers, SlotsFrom(n))
                /\ delete_set' = {}
                /\ location_to_tag' = load_tags
                /\ tag_to_location' = AntiFunction(location_to_tag')
                /\ data_compacted' = TRUE
                /\ final_graph' = Moved(load_graph, n, n, Frozen)
                /\ data' = MovedVector(load_data, n, Frozen)
                /\ start' = Frozen
                /\ usage' = IF UsedAsMeant THEN "enabled" ELSE usage
                /\ update_readers' = {} /\ update_writer' = Nobody /\ consolidator' = Nobody
                /\ pc' = [c \in Threads |-> "idle"]
                /\ tag' = [c \in Threads |-> NoTag] /\ location' = [c \in Threads |-> NoSlot]
                /\ pruned_list' = [c \in Threads |-> {}]
                /\ des' = [c \in Threads |-> NoSlot]
                /\ copy_of_neighbors' = [c \in Threads |-> {}]
                /\ old_delete_set' = [c \in Threads |-> {}]
                /\ unscanned' = [c \in Threads |-> {}]
                /\ UNCHANGED failure
  /\ UNCHANGED <<conc_consolidate, files, calls>>

-----------------------------------------------------------------------------
Insertion(c) ==
  \/ \E t \in Tags : insert_point(c, t)
  \/ Reserve(c) \/ ReserveFull(c) \/ ReserveDuplicate(c)
  \/ WriteVector(c) \/ FindNeighbors(c) \/ LinkPoint(c)
  \/ (\E n \in Nodes : LinkBack(c, n)) \/ PruneBack(c) \/ ReturnInsert(c)

Consolidation(c) ==
  \/ consolidate_deletes(c) \/ ExcludeUpdates(c) \/ TryConsolidate(c) \/ TakeDeleted(c)
  \/ (\E n \in Nodes : ProcessDelete(c, n)) \/ ReleaseDeleted(c)

Saving(c) ==
  \/ \E compact_before_save \in BOOLEAN : save(c, compact_before_save)
  \/ compact_data(c) \/ compact_frozen_point(c)
  \/ save_graph(c) \/ save_data(c) \/ save_tags(c) \/ reposition_frozen_point_to_end(c)

\* Every call has returned, or the program has failed.
Done == (\A c \in Threads : pc[c] = "idle") \/ failure # "none"
Stopped == Done /\ UNCHANGED vars

Next == \/ \E c \in Threads :
             \/ enable_delete(c)
             \/ \E tags \in (SUBSET Tags) \ {{}} : lazy_delete(c, tags)
             \/ Insertion(c)
             \/ Consolidation(c)
             \/ Saving(c)
        \/ load \/ Stopped

Spec == Init /\ [][Next]_vars

-----------------------------------------------------------------------------
Free == ToSet(empty_slots.values)
Leaving == UNION {old_delete_set[c] : c \in Threads}

\* Once the free slots are entered, every slot is in one place: it is free
\* (and listed once), holds a point, waits for a consolidation or is being
\* released by one; and _nd counts those that are not free.  Before, the points
\* are in the first slots.  The tag maps are each other's inverse.
SlotsAccounted ==
  UsedAsMeant =>
    /\ \A t \in DOMAIN tag_to_location :
         tag_to_location[t] \in Live /\ location_to_tag[tag_to_location[t]] = t
    /\ \A s \in Live :
         location_to_tag[s] \in DOMAIN tag_to_location /\ tag_to_location[location_to_tag[s]] = s
    /\ usage = "built" => Live = 0..(nd - 1) /\ Free = {}
    /\ usage = "enabled" =>
         /\ Free \cup Live \cup delete_set \cup Leaving = Slots
         /\ Len(empty_slots.values) + SizeOf(location_to_tag) + Cardinality(delete_set)
              + Cardinality(Leaving) = MaxPoints
         /\ \A c, d \in Threads : c # d => old_delete_set[c] \cap old_delete_set[d] = {}
         /\ Len(empty_slots.values) + nd = MaxPoints
         /\ empty_slots.bits = Free

\* A call meets one of the exceptions of the slot book-keeping, or tests a bit
\* that is not there, only where enable_delete was not called as it is meant to
\* be: left out before a deletion, a consolidation or a second insertion of a
\* tag, called on a full index, or called again.
ChecksPass == UsedAsMeant => failure \in {"none", "not_loaded"}

\* No list outgrows the slack, however the calls interleave.
DegreeBounded == \A n \in Nodes : Cardinality(final_graph[n]) <= SlackRange

Inserting(s) == {c \in Threads : location[c] = s}

\* A point whose insertion has returned has its own vector in its slot, unless
\* consolidation runs beside insertions.
SlotKeepsVector == \A s \in Live : Inserting(s) = {} => data[s] = location_to_tag[s]
VectorIsItsOwn == ~conc_consolidate => SlotKeepsVector

\* compact_data reports an edge to a slot without a point as an error: no edge
\* leads from a point, or from the frozen point, to a free slot, so that no
\* traversal visits one.  The list of a slot that is being filled may be left
\* over from the point before.  While an index is saved the frozen point is in a
\* slot that counts as free.
NoEdgeToFree ==
  LET unused == Free \ {start}
  IN  \A n \in Nodes \ unused :
        (\A c \in Inserting(n) : pc[c] \in {"back", "prune"}) => final_graph[n] \cap unused = {}
EdgesStayValid == UsedAsMeant /\ ~conc_consolidate => NoEdgeToFree

\* An index by its tags: for every point, and for the frozen one, whose vector
\* it has and the tags that its edges lead to.  The vector of a frozen point
\* without neighbours does get lost.
ByTag(lists, vectors, tags, first) ==
  LET name(n) == IF n \in DOMAIN tags THEN tags[n] ELSE NoTag
      edges(n) == {name(m) : m \in lists[n] \cap (DOMAIN tags \cup {first, Frozen})}
      vector(n) == IF n = first /\ edges(n) = {} THEN NoTag ELSE vectors[n]
  IN  {<<name(n), vector(n), edges(n)>> : n \in DOMAIN tags \cup {first}}
Contents == ByTag(final_graph, data, location_to_tag, start)
FileContents ==
  ByTag(files["graph"], files["data"],
        [n \in DOMAIN files["tags"] \ {files["start"]} |-> files["tags"][n]], files["start"])

\* Renumbering the slots, for a compaction and for the frozen point, changes
\* nothing that a search could see; what save leaves in the files is what the
\* index holds; and a load, whenever the process was stopped, brings it back.
SavedIndexKept ==
  [][UsedAsMeant =>
       /\ (\E c \in Threads : pc[c] \in {"compact", "freeze", "saved"}) /\ restarts' = restarts
           => Contents' = Contents
       /\ (\E c \in Threads : pc[c] = "saved") /\ restarts' = restarts => FileContents = Contents
       /\ restarts' # restarts /\ failure' = "none" => Contents' = FileContents]_vars
=============================================================================
