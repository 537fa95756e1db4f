------------------------- MODULE DynamicIndexProofs -------------------------
(***************************************************************************)
(* Proofs about DynamicIndex for every number of threads, slots and tags,  *)
(* in both consolidation modes: every slot is accounted for, no check of   *)
(* the code fails and no list outgrows the slack; and without concurrent   *)
(* consolidation every point keeps its own vector, no edge leads to a free *)
(* slot, and a compaction, a save and a load keep the index as it is.  All *)
(* of it while the calls are made as they are meant to be (UsedAsMeant).   *)
(***************************************************************************)
EXTENDS DynamicIndex, FiniteSetTheorems, SequenceTheorems, TLAPS

Inserts == {"write", "search", "link", "back", "prune"}
Saves == {"compact", "freeze", "save", "save_data", "save_tags", "saved"}
Places == {"idle", "reserve", "exclude", "try", "swap", "scan"} \cup Inserts \cup Saves

TypeOK ==
  /\ nd \in 0..MaxPoints
  /\ empty_slots \in [values : Seq(Slots), bits : SUBSET Slots, size : Nat]
  /\ delete_set \subseteq Slots
  /\ Live \subseteq Slots /\ location_to_tag \in [Live -> Tags]
  /\ DOMAIN tag_to_location \subseteq Tags
  /\ tag_to_location \in [DOMAIN tag_to_location -> Slots]
  /\ final_graph \in [Nodes -> SUBSET Nodes]
  /\ data \in [Nodes -> Int] /\ start \in Nodes
  /\ update_readers \subseteq Threads
  /\ update_writer \in Threads \cup {Nobody} /\ consolidator \in Threads \cup {Nobody}
  /\ pc \in [Threads -> Places]
  /\ tag \in [Threads -> Tags \cup {NoTag}]
  /\ location \in [Threads -> Slots \cup {NoSlot}]
  /\ pruned_list \in [Threads -> SUBSET Nodes]
  /\ des \in [Threads -> Nodes \cup {NoSlot}]
  /\ copy_of_neighbors \in [Threads -> SUBSET Nodes]
  /\ old_delete_set \in [Threads -> SUBSET Slots]
  /\ unscanned \in [Threads -> SUBSET Nodes]

\* The locals a thread relies on where it is; an index whose free slots were
\* never entered is only inserted to and saved.
ThreadInv(c) ==
  /\ pc[c] \in Inserts => location[c] \in Slots
  /\ pc[c] \in Inserts \cup {"reserve"} => tag[c] \in Tags
  /\ pc[c] = "prune" => des[c] \in Nodes
  /\ old_delete_set[c] # {} => pc[c] = "scan"
  /\ usage = "built" => pc[c] \in Saves \cup {"idle", "reserve"} \cup Inserts

\* A thread in save is alone, and finds the slots in order once it has compacted.
SaveInv(c) ==
  pc[c] \in Saves =>
    /\ \A d \in Threads \ {c} : pc[d] = "idle"
    /\ pc[c] \in {"save_data", "save_tags", "saved"} => update_writer = c
    /\ pc[c] # "compact" => data_compacted
    /\ data_compacted => Live = 0..(nd - 1)
    /\ data_compacted \/ nd < MaxPoints \/ delete_set # {}

TagsInv ==
  /\ \A t \in DOMAIN tag_to_location :
       tag_to_location[t] \in Live /\ location_to_tag[tag_to_location[t]] = t
  /\ \A s \in Live :
       location_to_tag[s] \in DOMAIN tag_to_location /\ tag_to_location[location_to_tag[s]] = s

NoRepeat(q) == \A i, j \in 1..Len(q) : q[i] = q[j] => i = j

\* Every slot is in exactly one place.
PlacesInv ==
  /\ Slots = Free \cup Live \cup delete_set \cup Leaving
  /\ Free \cap Live = {} /\ Free \cap delete_set = {} /\ Live \cap delete_set = {}
  /\ \A c \in Threads :
       /\ old_delete_set[c] \cap Free = {} /\ old_delete_set[c] \cap Live = {}
       /\ old_delete_set[c] \cap delete_set = {}
       /\ \A d \in Threads : c # d => old_delete_set[c] \cap old_delete_set[d] = {}

SlotsInv ==
  /\ TagsInv
  /\ usage = "built" =>
       /\ data_compacted /\ empty_slots = NoNumbers /\ delete_set = {}
       /\ Live = 0..(nd - 1)
  /\ usage = "enabled" =>
       /\ PlacesInv /\ NoRepeat(empty_slots.values)
       /\ empty_slots.bits = Free /\ empty_slots.size = MaxPoints
       /\ Len(empty_slots.values) + nd = MaxPoints

\* The calls were made as they are meant to be; before enable_delete every tag
\* that waits for a slot is new.
UsageInv ==
  /\ usage \in {"built", "enabled"}
  /\ usage = "built" => \A c \in Threads : pc[c] = "reserve" =>
       /\ tag[c] \notin DOMAIN tag_to_location
       /\ \A d \in Threads \ {c} : pc[d] = "reserve" => tag[d] # tag[c]

\* No check has failed.
NoFailure == failure \in {"none", "not_loaded"}

\* The files agree on the number of points, and each has a tag of its own.
FilesInv ==
  /\ \A c \in Threads :
       /\ pc[c] \in {"compact", "freeze", "save"} => files = << >>
       /\ pc[c] = "save_data" => DOMAIN files = {"start", "graph"}
       /\ pc[c] = "save_tags" => /\ DOMAIN files = {"start", "graph", "data"}
                                 /\ DOMAIN files["data"] = 0..nd
  /\ "graph" \in DOMAIN files =>
       \A n \in DOMAIN files["graph"] : files["graph"][n] \subseteq Nodes
  /\ "data" \in DOMAIN files => \A n \in DOMAIN files["data"] : files["data"][n] \in Int
  /\ "tags" \in DOMAIN files =>
       \E m \in 0..MaxPoints :
         /\ DOMAIN files["tags"] = 0..m /\ DOMAIN files["data"] = 0..m
         /\ \A i \in 0..(m - 1) : files["tags"][i] \in Tags
         /\ \A i, j \in 0..(m - 1) : files["tags"][i] = files["tags"][j] => i = j

IInv ==
  /\ TypeOK
  /\ \A c \in Threads : ThreadInv(c) /\ SaveInv(c)
  /\ SlotsInv
  /\ FilesInv
  /\ UsageInv
  /\ NoFailure

-----------------------------------------------------------------------------
(***************************************************************************)
(* Sets and sequences of slots.                                            *)
(***************************************************************************)
\* The greatest member of a set of integers is its Max.
LEMMA MaxIs ==
  ASSUME NEW S \in SUBSET Int, NEW m \in S, \A x \in S : x <= m
  PROVE  Max(S) = m
<1>1. PICK x \in S : x = Max(S) /\ \A y \in S : x >= y
  BY DEF Max
<1> QED BY <1>1

\* The numbers that bound an index.
LEMMA Sizes ==
  /\ MaxPoints \in Nat \ {0} /\ IndexingRange \in Nat \ {0, 1}
  /\ SlackRange \in Nat /\ IndexingRange <= SlackRange
  /\ Nobody \notin Threads /\ Tags \subseteq Nat \ {NoTag}
BY IndexAssumption DEF IndexAssumption

\* There are n numbers below n.
LEMMA FirstNumbers ==
  ASSUME NEW n \in Nat
  PROVE  IsFiniteSet(0..(n - 1)) /\ Cardinality(0..(n - 1)) = n
BY FS_Interval

\* Slots and nodes are finitely many.
LEMMA SlotsFinite ==
  /\ IsFiniteSet(Slots) /\ Cardinality(Slots) = MaxPoints
  /\ IsFiniteSet(Nodes)
  /\ Slots \subseteq Nodes /\ Frozen \in Nodes /\ Frozen \notin Slots
  /\ Nodes = 0..MaxPoints
<1> USE Sizes
<1>1. IsFiniteSet(Slots) /\ Cardinality(Slots) = MaxPoints
  BY FS_Interval DEF Slots
<1>2. \A x : x \in Nodes <=> x \in 0..MaxPoints
  BY DEF Slots, Nodes, Frozen
<1>3. IsFiniteSet(0..MaxPoints)
  BY FS_Interval
<1>4. Nodes = 0..MaxPoints
  BY <1>2
<1>5. Slots \subseteq Nodes /\ Frozen \in Nodes /\ Frozen \notin Slots
  BY DEF Slots, Nodes, Frozen
<1> QED BY <1>1, <1>3, <1>4, <1>5

\* The slots behind the first n, and what a new free list holds of them.
LEMMA SlotsFromFacts ==
  ASSUME NEW n \in Slots
  PROVE  /\ SlotsFrom(n) \in Seq(Slots) /\ Len(SlotsFrom(n)) = MaxPoints - n
         /\ ToSet(SlotsFrom(n)) = n..(MaxPoints - 1) /\ NoRepeat(SlotsFrom(n))
         /\ InsertAll(NoNumbers, SlotsFrom(n)) =
              [values |-> SlotsFrom(n), bits |-> n..(MaxPoints - 1), size |-> MaxPoints]
<1> DEFINE q == SlotsFrom(n)
<1> USE Sizes DEF Slots
<1>1. q \in Seq(Slots) /\ Len(q) = MaxPoints - n /\ DOMAIN q = 1..(MaxPoints - n)
  BY DEF SlotsFrom
<1>2. \A i \in 1..(MaxPoints - n) : q[i] = n + i - 1
  BY DEF SlotsFrom
<1>3. ToSet(q) = n..(MaxPoints - 1)
  <2>1. ASSUME NEW x \in n..(MaxPoints - 1) PROVE x \in ToSet(q)
    <3>1. x - n + 1 \in 1..(MaxPoints - n) /\ q[x - n + 1] = x
      BY <1>2
    <3> QED BY <1>1, <3>1 DEF ToSet
  <2> QED BY <1>1, <1>2, <2>1 DEF ToSet
<1>4. NoRepeat(q)
  BY <1>1, <1>2 DEF NoRepeat
<1>5. <<>> \o q = q
  BY <1>1, ConcatEmptySeq
<1>6. Max({0} \cup {id + 1 : id \in n..(MaxPoints - 1)}) = MaxPoints
  <2> DEFINE S == {0} \cup {id + 1 : id \in n..(MaxPoints - 1)}
  <2>1. MaxPoints - 1 \in n..(MaxPoints - 1) /\ MaxPoints = (MaxPoints - 1) + 1
    OBVIOUS
  <2>2. S \in SUBSET Int /\ MaxPoints \in S /\ \A x \in S : x <= MaxPoints
    BY <2>1
  <2> QED BY <2>2, MaxIs
<1> QED BY <1>1, <1>3, <1>4, <1>5, <1>6 DEF InsertAll, NoNumbers

\* A list without repetitions holds as many numbers as it is long.
LEMMA NoRepeatCount ==
  ASSUME NEW S, NEW q \in Seq(S), NoRepeat(q)
  PROVE  IsFiniteSet(ToSet(q)) /\ Cardinality(ToSet(q)) = Len(q)
<1>1. Len(q) \in Nat /\ q \in [1..Len(q) -> S] /\ DOMAIN q = 1..Len(q)
  BY LenProperties
<1>2. q \in Bijection(1..Len(q), ToSet(q))
  <2>1. q \in [1..Len(q) -> ToSet(q)]
    BY <1>1 DEF ToSet
  <2>2. q \in Injection(1..Len(q), ToSet(q))
    BY <1>1, <2>1 DEF NoRepeat, Injection, IsInjective
  <2>3. q \in Surjection(1..Len(q), ToSet(q))
    BY <1>1, <2>1 DEF ToSet, Surjection
  <2> QED BY <2>2, <2>3 DEF Bijection
<1>3. ExistsBijection(1..Len(q), ToSet(q))
  BY <1>2 DEF ExistsBijection
<1> QED BY <1>1, <1>3, FS_NatBijection, FS_CountingElements

\* Releasing slots that are not listed: the lists join, without repetition.
LEMMA InsertAllFacts ==
  ASSUME NEW s \in [values : Seq(Slots), bits : SUBSET Slots, size : {MaxPoints}],
         NEW ids \in Seq(Slots), NoRepeat(s.values), NoRepeat(ids),
         ToSet(s.values) \cap ToSet(ids) = {}
  PROVE  /\ InsertAll(s, ids) \in [values : Seq(Slots), bits : SUBSET Slots, size : {MaxPoints}]
         /\ ToSet(InsertAll(s, ids).values) = ToSet(s.values) \cup ToSet(ids)
         /\ InsertAll(s, ids).bits = s.bits \cup ToSet(ids)
         /\ Len(InsertAll(s, ids).values) = Len(s.values) + Len(ids)
         /\ NoRepeat(InsertAll(s, ids).values)
<1> USE Sizes
<1> DEFINE v == s.values  w == s.values \o ids
<1>1. /\ v \in Seq(Slots) /\ Len(v) \in Nat /\ DOMAIN v = 1..Len(v)
      /\ Len(ids) \in Nat /\ DOMAIN ids = 1..Len(ids)
      /\ \A i \in 1..Len(ids) : ids[i] \in Slots
  BY LenProperties
<1>2. /\ w \in Seq(Slots) /\ Len(w) = Len(v) + Len(ids) /\ DOMAIN w = 1..(Len(v) + Len(ids))
      /\ \A i \in 1..(Len(v) + Len(ids)) :
           w[i] = IF i <= Len(v) THEN v[i] ELSE ids[i - Len(v)]
  BY <1>1, ConcatProperties, LenProperties
<1>3. ToSet(w) = ToSet(v) \cup ToSet(ids)
  <2>1. ASSUME NEW x \in ToSet(v) PROVE x \in ToSet(w)
    BY <1>1, <1>2 DEF ToSet
  <2>2. ASSUME NEW x \in ToSet(ids) PROVE x \in ToSet(w)
    <3>1. PICK i \in 1..Len(ids) : ids[i] = x
      BY <1>1 DEF ToSet
    <3>2. Len(v) + i \in 1..(Len(v) + Len(ids)) /\ w[Len(v) + i] = x
      BY <1>1, <1>2, <3>1
    <3> QED BY <1>2, <3>2 DEF ToSet
  <2>3. ASSUME NEW x \in ToSet(w) PROVE x \in ToSet(v) \cup ToSet(ids)
    <3>1. PICK i \in 1..(Len(v) + Len(ids)) : w[i] = x
      BY <1>2 DEF ToSet
    <3>2. CASE i <= Len(v)
      BY <1>1, <1>2, <3>1, <3>2 DEF ToSet
    <3>3. CASE ~(i <= Len(v))
      <4>1. i - Len(v) \in 1..Len(ids) /\ ids[i - Len(v)] = x
        BY <1>1, <1>2, <3>1, <3>3
      <4> QED BY <1>1, <4>1 DEF ToSet
    <3> QED BY <3>2, <3>3
  <2> QED BY <2>1, <2>2, <2>3
<1>4. NoRepeat(w)
  <2> SUFFICES ASSUME NEW i \in 1..Len(w), NEW j \in 1..Len(w), w[i] = w[j] PROVE i = j
    BY DEF NoRepeat
  <2>1. CASE i <= Len(v) /\ j <= Len(v)
    BY <1>1, <1>2, <2>1 DEF NoRepeat
  <2>2. CASE i > Len(v) /\ j > Len(v)
    <3>1. /\ i - Len(v) \in 1..Len(ids) /\ j - Len(v) \in 1..Len(ids)
          /\ ids[i - Len(v)] = ids[j - Len(v)]
      BY <1>1, <1>2, <2>2
    <3>2. i - Len(v) = j - Len(v)
      BY <3>1 DEF NoRepeat
    <3> QED BY <1>1, <1>2, <3>2
  <2>3. ASSUME NEW a \in 1..Len(w), NEW b \in 1..Len(w), a <= Len(v), b > Len(v)
        PROVE  w[a] # w[b]
    <3>1. w[a] \in ToSet(v)
      BY <1>1, <1>2, <2>3 DEF ToSet
    <3>2. b - Len(v) \in 1..Len(ids) /\ w[b] = ids[b - Len(v)]
      BY <1>1, <1>2, <2>3
    <3>3. w[b] \in ToSet(ids)
      BY <1>1, <3>2 DEF ToSet
    <3> QED BY <3>1, <3>3
  <2> QED BY <1>1, <1>2, <2>1, <2>2, <2>3
<1>5. ToSet(ids) \subseteq Slots
  BY <1>1 DEF ToSet
<1>6. Max({s.size} \cup {id + 1 : id \in ToSet(ids)}) = MaxPoints
  <2> DEFINE S == {s.size} \cup {id + 1 : id \in ToSet(ids)}
  <2>1. S \in SUBSET Int /\ MaxPoints \in S /\ \A x \in S : x <= MaxPoints
    BY <1>5 DEF Slots
  <2> QED BY <2>1, MaxIs
<1> QED BY <1>2, <1>3, <1>4, <1>5, <1>6 DEF InsertAll

\* Slots in use go to the first places, each to one of its own.
LEMMA NewLocations ==
  ASSUME Live \in SUBSET Slots
  PROVE  /\ IsFiniteSet(Live) /\ Cardinality(Live) \in Nat
         /\ \A s \in Live : new_location(s) \in 0..(Cardinality(Live) - 1)
         /\ \A s, t \in Live : new_location(s) = new_location(t) => s = t
         /\ {new_location(s) : s \in Live} = 0..(Cardinality(Live) - 1)
<1> USE Sizes, SlotsFinite
<1> DEFINE before(s) == {x \in Live : x < s}
           N == Cardinality(Live)
<1>1. IsFiniteSet(Live) /\ N \in Nat
  BY FS_Subset, FS_CardinalityType
<1>2. ASSUME NEW s \in Live
      PROVE  /\ new_location(s) = Cardinality(before(s))
             /\ IsFiniteSet(before(s)) /\ Cardinality(before(s)) \in Nat
             /\ s \in Int
  <2>1. s # Frozen /\ s \in Int
    BY DEF Slots
  <2>2. IsFiniteSet(before(s))
    BY <1>1, FS_Subset
  <2> QED BY <2>1, <2>2, FS_CardinalityType DEF new_location
<1>3. ASSUME NEW s \in Live PROVE new_location(s) \in 0..(N - 1)
  <2>1. before(s) \cup {s} \in SUBSET Live /\ s \notin before(s)
    BY <1>2
  <2>2. Cardinality(before(s) \cup {s}) = Cardinality(before(s)) + 1
    BY <1>2, <2>1, FS_AddElement
  <2>3. Cardinality(before(s) \cup {s}) <= N
    BY <1>1, <2>1, FS_Subset
  <2> QED BY <1>1, <1>2, <2>2, <2>3
<1>4. ASSUME NEW s \in Live, NEW t \in Live, s < t
      PROVE  new_location(s) < new_location(t)
  <2> s \in Int /\ t \in Int
    BY <1>2
  <2>1. before(s) \cup {s} \in SUBSET before(t) /\ s \notin before(s)
    <3>1. \A x \in Live : x \in Int
      BY DEF Slots
    <3>2. ASSUME NEW x \in before(s) PROVE x \in before(t)
      BY <1>4, <3>1, <3>2
    <3>3. s \in before(t) /\ s \notin before(s)
      BY <1>4
    <3> QED BY <3>2, <3>3
  <2>2. Cardinality(before(s) \cup {s}) = Cardinality(before(s)) + 1
    BY <1>2, <2>1, FS_AddElement
  <2>3. Cardinality(before(s) \cup {s}) <= Cardinality(before(t))
    BY <1>2, <2>1, FS_Subset
  <2> QED BY <1>2, <2>2, <2>3
<1>5. ASSUME NEW s \in Live, NEW t \in Live, new_location(s) = new_location(t)
      PROVE  s = t
  <2>1. new_location(s) \in Int
    BY <1>3
  <2> QED BY <1>2, <1>4, <1>5, <2>1
<1>6. {new_location(s) : s \in Live} = 0..(N - 1)
  <2> DEFINE image == {new_location(s) : s \in Live}
             f == [s \in Live |-> new_location(s)]
  <2>1. image \in SUBSET (0..(N - 1))
    BY <1>3
  <2>2. IsFiniteSet(0..(N - 1)) /\ Cardinality(0..(N - 1)) = N
    BY <1>1, FirstNumbers
  <2>3. f \in Surjection(Live, image) /\ f \in Injection(Live, image)
    BY <1>5 DEF Surjection, Injection, IsInjective
  <2>4. Cardinality(image) = N
    BY <1>1, <2>3, FS_Surjection
  <2> QED BY <2>1, <2>2, <2>4, FS_Subset
<1> QED BY <1>1, <1>3, <1>5, <1>6

-----------------------------------------------------------------------------
\* A new index satisfies the inductive invariant.
LEMMA InitIInv == Init => IInv
<1> SUFFICES ASSUME Init PROVE IInv
  OBVIOUS
<1> USE Sizes, SlotsFinite
<1>1. /\ nd \in 0..MaxPoints /\ 1..nd \subseteq Tags
      /\ StartGraph(nd) \in [Nodes -> SUBSET ((0..(nd - 1)) \cup {Frozen})]
  BY IndexAssumption DEF IndexAssumption, Init
<1>2. /\ \A s \in 0..(nd - 1) : s \in Slots /\ s + 1 \in 1..nd
      /\ \A t \in 1..nd : t - 1 \in 0..(nd - 1)
  BY <1>1 DEF Slots
<1>3. /\ tag_to_location = [t \in 1..nd |-> t - 1]
      /\ location_to_tag = [s \in 0..(nd - 1) |-> s + 1]
      /\ Live = 0..(nd - 1) /\ DOMAIN tag_to_location = 1..nd
  BY DEF Init, Live
<1>4. TypeOK
  <2>1. Live \subseteq Slots /\ location_to_tag \in [Live -> Tags]
    BY <1>1, <1>2, <1>3
  <2>2. /\ DOMAIN tag_to_location \subseteq Tags
        /\ tag_to_location \in [DOMAIN tag_to_location -> Slots]
    BY <1>1, <1>2, <1>3
  <2>3. empty_slots \in [values : Seq(Slots), bits : SUBSET Slots, size : Nat]
    BY EmptySeq DEF Init, NoNumbers
  <2>4. final_graph \in [Nodes -> SUBSET Nodes]
    <3>1. (0..(nd - 1)) \cup {Frozen} \subseteq Nodes
      BY <1>2
    <3> QED BY <1>1, <3>1 DEF Init
  <2>5. data \in [Nodes -> Int] /\ start \in Nodes /\ delete_set \subseteq Slots
    BY <1>1 DEF Init, FrozenVector, NoTag
  <2>6. /\ update_readers \subseteq Threads
        /\ update_writer \in Threads \cup {Nobody} /\ consolidator \in Threads \cup {Nobody}
        /\ pc \in [Threads -> Places]
        /\ tag \in [Threads -> Tags \cup {NoTag}]
        /\ location \in [Threads -> Slots \cup {NoSlot}]
        /\ pruned_list \in [Threads -> SUBSET Nodes]
        /\ des \in [Threads -> Nodes \cup {NoSlot}]
        /\ copy_of_neighbors \in [Threads -> SUBSET Nodes]
        /\ old_delete_set \in [Threads -> SUBSET Slots]
        /\ unscanned \in [Threads -> SUBSET Nodes]
    BY DEF Init, Places
  <2> QED BY <1>1, <2>1, <2>2, <2>3, <2>4, <2>5, <2>6 DEF TypeOK
<1>5. ASSUME NEW c \in Threads PROVE ThreadInv(c) /\ SaveInv(c)
  BY DEF Init, ThreadInv, SaveInv, Inserts, Saves
<1>6. TagsInv
  BY <1>1, <1>2, <1>3 DEF TagsInv
<1>7. SlotsInv
  BY <1>1, <1>3, <1>6 DEF SlotsInv, Init
<1>8. FilesInv
  BY DEF Init, FilesInv
<1>9. NoFailure /\ UsageInv
  BY DEF Init, NoFailure, UsageInv
<1> QED BY <1>4, <1>5, <1>7, <1>8, <1>9 DEF IInv

\* While a thread is in a call other than save, or may make a call that takes
\* the update lock, nobody saves.
LEMMA NobodySaves ==
  ASSUME IInv, NEW c \in Threads, pc[c] \notin Saves,
         pc[c] = "idle" => /\ update_writer = Nobody
                           /\ \A d \in Threads : pc[d] \notin {"compact", "freeze", "save"}
  PROVE  \A d \in Threads : pc[d] \notin Saves
<1> SUFFICES ASSUME NEW d \in Threads, pc[d] \in Saves PROVE FALSE
  OBVIOUS
<1>1. SaveInv(d) /\ c # d
  BY DEF IInv
<1>2. pc[c] = "idle"
  BY <1>1 DEF SaveInv
<1>3. pc[d] \in {"save_data", "save_tags", "saved"}
  BY <1>2 DEF Saves
<1>4. update_writer = d
  BY <1>1, <1>3 DEF SaveInv
<1> QED BY <1>2, <1>4, Sizes

\* A step that leaves the slots and the files alone, while nobody saves.
LEMMA LocalStep ==
  ASSUME IInv, TypeOK', NoFailure', UsageInv', \A d \in Threads : ThreadInv(d)',
         \A d \in Threads : pc'[d] \notin Saves,
         UNCHANGED <<slots, usage, files>>, old_delete_set' = old_delete_set
  PROVE  IInv'
<1> USE DEF IInv, slots
<1>1. \A d \in Threads : SaveInv(d)'
  BY DEF SaveInv
<1>2. TagsInv' /\ PlacesInv' = PlacesInv
  BY DEF SlotsInv, TagsInv, PlacesInv, Live, Free, Leaving
<1>3. SlotsInv'
  BY <1>2 DEF SlotsInv, Live, Free
<1>4. FilesInv'
  BY DEF FilesInv, Saves
<1> QED BY <1>1, <1>3, <1>4

\* The use of the index stays as it is when no thread begins an insertion.
LEMMA UsageKept ==
  ASSUME UsageInv, usage' = usage,
         usage = "built" => /\ DOMAIN tag_to_location' = DOMAIN tag_to_location
                            /\ \A d \in Threads : pc'[d] = "reserve"
                                 => pc[d] = "reserve" /\ tag'[d] = tag[d]
  PROVE  UsageInv'
BY DEF UsageInv

\* A thread at work in an insertion or a consolidation has its own place, so
\* that nobody saves meanwhile, and unless it inserts the free slots have been
\* entered.
LEMMA AtWork ==
  ASSUME IInv, NEW c \in Threads, pc[c] \notin Saves \cup {"idle"}
  PROVE  /\ \A d \in Threads : pc[d] \notin Saves
         /\ usage = "enabled" \/ (usage = "built" /\ pc[c] \in Inserts \cup {"reserve"})
<1>1. \A d \in Threads : pc[d] \notin Saves
  BY NobodySaves
<1>2. ThreadInv(c) /\ UsageInv
  BY DEF IInv
<1> QED BY <1>1, <1>2 DEF ThreadInv, UsageInv

\* The end of a call that left the slots as they were.
LEMMA ReturnIInv ==
  ASSUME IInv, NEW c \in Threads, Return(c), pc[c] # "scan",
         \A d \in Threads : pc[d] \notin Saves,
         UNCHANGED <<conc_consolidate, slots, graph, stored, usage>>, NoFailure'
  PROVE  IInv'
<1> USE DEF IInv, Return, Goto, slots, graph, stored
<1>1. TypeOK'
  BY Sizes DEF TypeOK, Places, Live
<1>2. old_delete_set' = old_delete_set
  BY DEF ThreadInv, TypeOK
<1>3. \A d \in Threads : ThreadInv(d)' /\ pc'[d] \notin Saves
  BY DEF TypeOK, ThreadInv, Saves, Inserts
<1>4. UsageInv'
  <2>1. \A d \in Threads : pc'[d] = "reserve" => pc[d] = "reserve" /\ tag'[d] = tag[d]
    BY DEF TypeOK
  <2> QED BY <2>1, UsageKept
<1> QED BY <1>1, <1>2, <1>3, <1>4, LocalStep

\* Calls that may be made while the update lock is free.
LEMMA InsertPointIInv ==
  ASSUME IInv, NEW c \in Threads, NEW t \in Tags, insert_point(c, t), UsedAsMeant'
  PROVE  IInv'
<1> USE DEF IInv, insert_point, Calls, Goto, stored
<1>1. \A d \in Threads : pc[d] \notin Saves
  BY NobodySaves DEF Saves
<1>2. TypeOK'
  BY DEF TypeOK, Places, Live, slots, graph, consolidation
<1>3. \A d \in Threads : ThreadInv(d)' /\ pc'[d] \notin Saves
  BY <1>1 DEF TypeOK, ThreadInv, Saves, Inserts, consolidation
<1>4. NoFailure'
  BY DEF NoFailure
<1>5. usage' = usage /\ (usage = "built" => NewTag(t))
  BY DEF UsedAsMeant, UsageInv
<1>6. UsageInv'
  <2>1. /\ tag' = [tag EXCEPT ![c] = t] /\ pc' = [pc EXCEPT ![c] = "reserve"]
        /\ tag_to_location' = tag_to_location
    BY DEF slots
  <2>2. /\ \A d \in Threads : tag'[d] = IF d = c THEN t ELSE tag[d]
        /\ \A d \in Threads : pc'[d] = IF d = c THEN "reserve" ELSE pc[d]
    BY <2>1 DEF TypeOK
  <2> QED BY <1>5, <2>1, <2>2 DEF UsageInv, NewTag
<1> QED BY <1>2, <1>3, <1>4, <1>5, <1>6, LocalStep DEF consolidation

\* The steps of an insertion once its slot is reserved.
LEMMA FillIInv ==
  ASSUME IInv, NEW c \in Threads,
         \/ WriteVector(c) \/ FindNeighbors(c) \/ LinkPoint(c)
         \/ (\E n \in Nodes : LinkBack(c, n)) \/ PruneBack(c)
  PROVE  IInv'
<1> USE SlotsFinite DEF IInv, At, Goto, stored, consolidation
<1>1. pc[c] \in Inserts /\ ThreadInv(c)
  BY DEF WriteVector, FindNeighbors, LinkPoint, LinkBack, PruneBack, Inserts
<1>2. \A d \in Threads : pc[d] \notin Saves
  BY <1>1, AtWork DEF Inserts, Saves
<1>3. /\ UNCHANGED <<slots, usage, files>> /\ old_delete_set' = old_delete_set
      /\ failure' = failure /\ tag' = tag /\ location' = location
  BY DEF WriteVector, FindNeighbors, LinkPoint, LinkBack, PruneBack, insertion
<1>4. TypeOK'
  <2> USE DEF TypeOK, Live, slots, graph, locks, insertion
  <2>1. CASE WriteVector(c)
    <3>1. tag[c] \in Int
      BY <1>1, Sizes DEF ThreadInv
    <3>2. data' \in [Nodes -> Int]
      BY <2>1, <3>1 DEF WriteVector
    <3> QED BY <2>1, <3>2 DEF WriteVector, Places, Inserts
  <2>2. CASE FindNeighbors(c)
    <3>1. Reach \subseteq Nodes /\ FirstPoints \subseteq Nodes
      BY DEF Reach, FirstPoints
    <3>2. \A p \in Pruned(Reach \ ({location[c]} \cup delete_set)) : p \in SUBSET Nodes
      BY <3>1 DEF Pruned
    <3>3. \E p \in SUBSET Nodes : pruned_list' = [pruned_list EXCEPT ![c] = p]
      BY <2>2, <3>1, <3>2 DEF FindNeighbors
    <3>4. pruned_list' \in [Threads -> SUBSET Nodes]
      BY <3>3
    <3> QED BY <2>2, <3>4 DEF FindNeighbors, Places, Inserts
  <2>3. CASE LinkPoint(c)
    <3>1. final_graph' \in [Nodes -> SUBSET Nodes]
      <4>1. final_graph' = [final_graph EXCEPT ![location[c]] =
               {n \in pruned_list[c] : conc_consolidate => n \in DOMAIN location_to_tag}]
        BY <2>3 DEF LinkPoint
      <4>2. final_graph \in [Nodes -> SUBSET Nodes] /\ pruned_list[c] \in SUBSET Nodes
        OBVIOUS
      <4> QED BY ONLY <4>1, <4>2
    <3> QED BY <2>3, <3>1 DEF LinkPoint, Places, Inserts
  <2>4. ASSUME NEW n \in Nodes, LinkBack(c, n) PROVE TypeOK'
    <3>1. location[c] \in Nodes
      BY <1>1 DEF ThreadInv
    <3>2. final_graph' \in [Nodes -> SUBSET Nodes]
      BY <2>4, <3>1 DEF LinkBack
    <3>3. pruned_list' \in [Threads -> SUBSET Nodes]
      BY <2>4 DEF LinkBack
    <3>4. des' \in [Threads -> Nodes \cup {NoSlot}] /\ pc' \in [Threads -> Places]
      <4>1. \/ UNCHANGED <<pc, des>>
            \/ pc' = [pc EXCEPT ![c] = "prune"] /\ des' = [des EXCEPT ![c] = n]
        BY <2>4 DEF LinkBack
      <4>2. des' \in [Threads -> Nodes \cup {NoSlot}]
        <5>1. des \in [Threads -> Nodes \cup {NoSlot}]
          OBVIOUS
        <5> QED BY ONLY <4>1, <5>1
      <4>3. "prune" \in Places
        BY DEF Places, Inserts
      <4>4. pc \in [Threads -> Places]
        OBVIOUS
      <4>5. pc' \in [Threads -> Places]
        BY ONLY <4>1, <4>3, <4>4
      <4> QED BY <4>2, <4>5
    <3>5. copy_of_neighbors' \in [Threads -> SUBSET Nodes]
      <4>1. final_graph[n] \cup {location[c]} \in SUBSET Nodes
        BY <3>1
      <4>2. \/ copy_of_neighbors' = copy_of_neighbors
            \/ copy_of_neighbors' =
                 [copy_of_neighbors EXCEPT ![c] = final_graph[n] \cup {location[c]}]
        BY <2>4 DEF LinkBack
      <4>3. copy_of_neighbors \in [Threads -> SUBSET Nodes]
        OBVIOUS
      <4> QED BY ONLY <4>1, <4>2, <4>3
    <3> QED BY <2>4, <3>2, <3>3, <3>4, <3>5 DEF LinkBack
  <2>5. CASE PruneBack(c)
    <3>1. final_graph' \in [Nodes -> SUBSET Nodes]
      BY <1>1, <2>5 DEF PruneBack, Pruned, ThreadInv
    <3> QED BY <2>5, <3>1 DEF PruneBack, Places, Inserts
  <2> QED BY <2>1, <2>2, <2>3, <2>4, <2>5
<1>5. pc' = [pc EXCEPT ![c] = pc'[c]] /\ pc'[c] \in Inserts
  <2>1. CASE pc' = pc
    BY <1>1, <2>1 DEF TypeOK
  <2>2. CASE \E place \in Inserts : pc' = [pc EXCEPT ![c] = place]
    BY <2>2 DEF TypeOK
  <2>3. ASSUME NEW n \in Nodes, LinkBack(c, n)
        PROVE  pc' = pc \/ \E place \in Inserts : pc' = [pc EXCEPT ![c] = place]
    BY <2>3 DEF LinkBack, Inserts
  <2>4. \/ \E n \in Nodes : LinkBack(c, n)
        \/ pc' = [pc EXCEPT ![c] = "search"] \/ pc' = [pc EXCEPT ![c] = "link"]
        \/ pc' = [pc EXCEPT ![c] = "back"]
    BY DEF WriteVector, FindNeighbors, LinkPoint, PruneBack
  <2>5. {"search", "link", "back"} \subseteq Inserts
    BY DEF Inserts
  <2> QED BY <2>1, <2>2, <2>3, <2>4, <2>5
<1>6. ASSUME NEW d \in Threads PROVE ThreadInv(d)' /\ pc'[d] \notin Saves
  <2>1. pc'[d] = "prune" => des'[d] \in Nodes
    <3>1. ASSUME NEW n \in Nodes, LinkBack(c, n) PROVE pc'[d] = "prune" => des'[d] \in Nodes
      <4>1. \/ UNCHANGED <<pc, des>>
            \/ pc' = [pc EXCEPT ![c] = "prune"] /\ des' = [des EXCEPT ![c] = n]
        BY <3>1 DEF LinkBack
      <4> QED BY <4>1 DEF ThreadInv, TypeOK
    <3>2. CASE WriteVector(c) \/ FindNeighbors(c) \/ LinkPoint(c)
      BY <3>2 DEF WriteVector, FindNeighbors, LinkPoint, ThreadInv, TypeOK, insertion
    <3>3. CASE PruneBack(c)
      BY <3>3 DEF PruneBack, ThreadInv, TypeOK
    <3> QED BY <3>1, <3>2, <3>3
  <2>2. CASE d = c
    BY <1>1, <1>2, <1>3, <1>5, <2>1, <2>2 DEF ThreadInv, TypeOK, Inserts, Saves
  <2>3. CASE d # c
    BY <1>1, <1>2, <1>3, <1>5, <2>1, <2>3 DEF ThreadInv, TypeOK
  <2> QED BY <2>2, <2>3
<1>7. UsageInv'
  <2>1. \A d \in Threads : pc'[d] = "reserve" => pc[d] = "reserve" /\ tag'[d] = tag[d]
    BY <1>3, <1>5 DEF TypeOK, Inserts
  <2> QED BY <1>3, <2>1, UsageKept DEF slots
<1> QED BY <1>3, <1>4, <1>6, <1>7, LocalStep DEF NoFailure

-----------------------------------------------------------------------------
\* The last number taken off a list, and put back.
LEMMA PopFacts ==
  ASSUME NEW v \in Seq(Slots), v # <<>>, NoRepeat(v)
  PROVE  /\ Front(v) \in Seq(Slots) /\ Len(Front(v)) = Len(v) - 1 /\ NoRepeat(Front(v))
         /\ Last(v) \in ToSet(v) /\ Last(v) \in Slots
         /\ ToSet(Front(v)) = ToSet(v) \ {Last(v)}
         /\ Append(Front(v), Last(v)) = v
<1>1. /\ Len(v) \in Nat \ {0} /\ DOMAIN v = 1..Len(v)
      /\ \A i \in 1..Len(v) : v[i] \in Slots
  BY LenProperties, EmptySeq, ElementOfSeq
<1>2. /\ Front(v) \in Seq(Slots) /\ Len(Front(v)) = Len(v) - 1
      /\ \A i \in 1..(Len(v) - 1) : Front(v)[i] = v[i]
  <2>1. \A i \in 1..(Len(v) - 1) : v[i] \in Slots
    BY <1>1
  <2>2. /\ SubSeq(v, 1, Len(v) - 1) \in Seq(Slots)
        /\ Len(SubSeq(v, 1, Len(v) - 1)) = IF 1 <= Len(v) - 1 THEN Len(v) - 1 - 1 + 1 ELSE 0
        /\ \A i \in 1..(Len(v) - 1 - 1 + 1) : SubSeq(v, 1, Len(v) - 1)[i] = v[1 + i - 1]
    BY <1>1, <2>1, SubSeqProperties
  <2> QED BY <1>1, <2>2 DEF Front
<1>3. DOMAIN Front(v) = 1..(Len(v) - 1)
  BY <1>2, LenProperties
<1>4. NoRepeat(Front(v))
  BY <1>1, <1>2 DEF NoRepeat
<1>5. Last(v) \in ToSet(v) /\ Last(v) \in Slots
  BY <1>1 DEF Last, ToSet
<1>6. ToSet(Front(v)) = ToSet(v) \ {Last(v)}
  <2>1. ASSUME NEW x \in ToSet(Front(v)) PROVE x \in ToSet(v) \ {Last(v)}
    <3>1. PICK i \in 1..(Len(v) - 1) : x = v[i]
      BY <1>2, <1>3 DEF ToSet
    <3>2. v[i] # v[Len(v)]
      BY <1>1 DEF NoRepeat
    <3> QED BY <1>1, <3>1, <3>2 DEF ToSet, Last
  <2>2. ASSUME NEW x \in ToSet(v) \ {Last(v)} PROVE x \in ToSet(Front(v))
    <3>1. PICK i \in 1..Len(v) : x = v[i]
      BY <1>1, <2>2 DEF ToSet
    <3>2. i \in 1..(Len(v) - 1)
      BY <1>1, <2>2, <3>1 DEF Last
    <3> QED BY <1>2, <1>3, <3>1, <3>2 DEF ToSet
  <2> QED BY <2>1, <2>2
<1>7. Append(Front(v), Last(v)) = v
  <2>1. /\ Append(Front(v), Last(v)) \in Seq(Slots)
        /\ Len(Append(Front(v), Last(v))) = Len(Front(v)) + 1
        /\ \A i \in 1..Len(Front(v)) : Append(Front(v), Last(v))[i] = Front(v)[i]
        /\ Append(Front(v), Last(v))[Len(Front(v)) + 1] = Last(v)
    BY <1>2, <1>5, AppendProperties
  <2>2. Len(Front(v)) + 1 = Len(v)
    BY <1>1, <1>2
  <2>3. Append(Front(v), Last(v))[Len(v)] = v[Len(v)]
    BY <2>1, <2>2 DEF Last
  <2>4. \A i \in 1..(Len(v) - 1) : Append(Front(v), Last(v))[i] = v[i]
    BY <1>2, <2>1
  <2>5. \A i \in 1..Len(v) : i = Len(v) \/ i \in 1..(Len(v) - 1)
    <3>1. \A n \in Nat : \A i \in 1..n : i = n \/ i \in 1..(n - 1)
      OBVIOUS
    <3>2. Len(v) \in Nat
      BY <1>1
    <3> QED BY <3>1, <3>2
  <2>6. \A i \in 1..Len(v) : Append(Front(v), Last(v))[i] = v[i]
    BY <2>3, <2>4, <2>5
  <2> QED BY <2>1, <2>2, <2>6, SeqEqual
<1> QED BY <1>2, <1>4, <1>5, <1>6, <1>7

\* What reserve_location hands out when there is room: a slot that is free.
LEMMA ReservedFacts ==
  ASSUME IInv, usage = "enabled", nd < MaxPoints
  PROVE  /\ ~InOrder /\ ~Unreservable
         /\ Reserved = Last(empty_slots.values) /\ Reserved \in Free /\ Reserved \in Slots
         /\ StillFree \in [values : Seq(Slots), bits : SUBSET Slots, size : {MaxPoints}]
         /\ ToSet(StillFree.values) = Free \ {Reserved}
         /\ StillFree.bits = Free \ {Reserved} /\ NoRepeat(StillFree.values)
         /\ Len(StillFree.values) = Len(empty_slots.values) - 1
         /\ Append(StillFree.values, Reserved) = empty_slots.values
<1> DEFINE v == empty_slots.values
<1>1. /\ v \in Seq(Slots) /\ NoRepeat(v) /\ Len(v) + nd = MaxPoints
      /\ empty_slots.bits = Free /\ empty_slots.size = MaxPoints
      /\ empty_slots \in [values : Seq(Slots), bits : SUBSET Slots, size : Nat]
      /\ nd \in Nat
  BY Sizes DEF IInv, TypeOK, SlotsInv
<1>2. v # <<>>
  BY <1>1, EmptySeq, Sizes
<1>3. ~InOrder /\ ~Unreservable /\ Reserved = Last(v) /\ StillFree = Pop(empty_slots)
  BY <1>1, <1>2 DEF InOrder, Unreservable, Reserved, StillFree
<1>4. /\ Front(v) \in Seq(Slots) /\ Len(Front(v)) = Len(v) - 1 /\ NoRepeat(Front(v))
      /\ Last(v) \in ToSet(v) /\ Last(v) \in Slots
      /\ ToSet(Front(v)) = ToSet(v) \ {Last(v)}
      /\ Append(Front(v), Last(v)) = v
  BY <1>1, <1>2, PopFacts
<1>5. /\ StillFree.values = Front(v) /\ StillFree.bits = Free \ {Last(v)}
      /\ StillFree.size = MaxPoints
      /\ StillFree \in [values : Seq(Slots), bits : SUBSET Slots, size : {MaxPoints}]
  <2>1. Free \ {Last(v)} \in SUBSET Slots
    BY <1>1
  <2> QED BY <1>1, <1>3, <1>4, <2>1 DEF Pop
<1> QED BY <1>3, <1>4, <1>5 DEF Free

\* Before the free slots are entered it is the first slot behind the points.
LEMMA ReservedInOrder ==
  ASSUME IInv, usage = "built", nd < MaxPoints
  PROVE  /\ InOrder /\ ~Unreservable /\ Reserved = nd /\ nd \in Slots
         /\ StillFree = NoNumbers /\ empty_slots = NoNumbers /\ Free = {}
         /\ Live = 0..(nd - 1) /\ delete_set = {} /\ nd \notin Live
         /\ \A d \in Threads : old_delete_set[d] = {}
<1>1. /\ data_compacted /\ empty_slots = NoNumbers /\ delete_set = {} /\ Live = 0..(nd - 1)
      /\ nd \in 0..MaxPoints
  BY DEF IInv, SlotsInv, TypeOK
<1>2. nd \in Slots /\ nd \notin 0..(nd - 1)
  BY <1>1, Sizes DEF Slots
<1>3. InOrder
  BY <1>1 DEF InOrder, NoNumbers
<1>4. Free = {}
  BY <1>1 DEF Free, ToSet, NoNumbers
<1>5. \A d \in Threads : old_delete_set[d] = {}
  BY DEF IInv, ThreadInv, Saves, Inserts
<1> QED BY <1>1, <1>2, <1>3, <1>4, <1>5 DEF Unreservable, Reserved, StillFree

\* A slot that holds nothing and waits for nothing, and is free if the free slots
\* have been entered, goes to a new tag.
LEMMA ReserveFacts ==
  ASSUME IInv, NEW c \in Threads, Reserve(c)
  PROVE  /\ usage \in {"built", "enabled"} /\ pc[c] = "reserve"
         /\ \A d \in Threads : pc[d] \notin Saves
         /\ Reserved \in Slots /\ Reserved \notin Live /\ Reserved \notin delete_set
         /\ \A d \in Threads : Reserved \notin old_delete_set[d]
         /\ usage = "built" => /\ Reserved = nd /\ StillFree = NoNumbers /\ Free = {}
                               /\ Live = 0..(nd - 1)
         /\ usage = "enabled" =>
              /\ Reserved \in Free
              /\ StillFree \in [values : Seq(Slots), bits : SUBSET Slots, size : {MaxPoints}]
              /\ StillFree.bits = Free \ {Reserved} /\ NoRepeat(StillFree.values)
              /\ Len(StillFree.values) = Len(empty_slots.values) - 1
         /\ Live' = Live \cup {Reserved} /\ Free' = Free \ {Reserved}
         /\ tag[c] \in Tags /\ tag[c] \notin DOMAIN tag_to_location
         /\ empty_slots' = StillFree /\ delete_set' = delete_set /\ nd' = nd + 1
         /\ nd < MaxPoints
         /\ tag_to_location' = With(tag_to_location, tag[c], Reserved)
         /\ location_to_tag' = With(location_to_tag, Reserved, tag[c])
         /\ location' = [location EXCEPT ![c] = Reserved] /\ pc' = [pc EXCEPT ![c] = "write"]
         /\ UNCHANGED <<conc_consolidate, data_compacted, graph, stored, usage, failure,
                        locks, tag, pruned_list, des, copy_of_neighbors, old_delete_set,
                        unscanned>>
<1> USE DEF IInv, At, Goto
<1> DEFINE s == Reserved  t == tag[c]
<1>1. pc[c] = "reserve" /\ nd < MaxPoints /\ ThreadInv(c)
  BY DEF Reserve
<1>2. /\ \A d \in Threads : pc[d] \notin Saves
      /\ usage \in {"built", "enabled"}
  BY <1>1, AtWork DEF Saves
<1>3. usage = "enabled" =>
        /\ ~Unreservable
        /\ s \in Free /\ s \in Slots
        /\ StillFree \in [values : Seq(Slots), bits : SUBSET Slots, size : {MaxPoints}]
        /\ ToSet(StillFree.values) = Free \ {s}
        /\ StillFree.bits = Free \ {s} /\ NoRepeat(StillFree.values)
        /\ Len(StillFree.values) = Len(empty_slots.values) - 1
  BY <1>1, ReservedFacts
<1>4. usage = "built" =>
        /\ ~Unreservable /\ s = nd /\ nd \in Slots
        /\ StillFree = NoNumbers /\ empty_slots = NoNumbers /\ Free = {}
        /\ Live = 0..(nd - 1) /\ delete_set = {} /\ nd \notin Live
        /\ \A d \in Threads : old_delete_set[d] = {}
  BY <1>1, ReservedInOrder
<1>5. s \in Slots /\ ~Unreservable
  BY <1>2, <1>3, <1>4
<1>6. t \in Tags /\ t \notin DOMAIN tag_to_location
  BY <1>1, <1>5 DEF Reserve, ThreadInv, Inserts
<1>7. s \notin Live /\ s \notin delete_set /\ \A d \in Threads : s \notin old_delete_set[d]
  BY <1>2, <1>3, <1>4 DEF SlotsInv, PlacesInv
<1>8. /\ empty_slots' = StillFree /\ delete_set' \in {delete_set, delete_set \ {s}}
      /\ nd' = nd + 1
      /\ tag_to_location' = With(tag_to_location, t, s)
      /\ location_to_tag' = With(location_to_tag, s, t)
      /\ location' = [location EXCEPT ![c] = s] /\ pc' = [pc EXCEPT ![c] = "write"]
      /\ UNCHANGED <<conc_consolidate, data_compacted, graph, stored, usage, failure, locks,
                     tag, pruned_list, des, copy_of_neighbors, old_delete_set, unscanned>>
  BY <1>5 DEF Reserve, consolidation
<1>9. delete_set' = delete_set /\ Live' = Live \cup {s}
  BY <1>7, <1>8 DEF Live, With
<1>10. Free' = Free \ {s}
  <2>1. ToSet(StillFree.values) = Free \ {s}
    BY <1>2, <1>3, <1>4 DEF Free
  <2> QED BY <1>8, <2>1 DEF Free
<1> QED BY <1>1, <1>2, <1>3, <1>4, <1>5, <1>6, <1>7, <1>8, <1>9, <1>10

\* A slot is reserved for a new tag.
LEMMA ReserveIInv ==
  ASSUME IInv, NEW c \in Threads, Reserve(c)
  PROVE  IInv'
<1> USE DEF IInv
<1> DEFINE s == Reserved  t == tag[c]
<1>1. ThreadInv(c)
  OBVIOUS
<1>2. pc[c] = "reserve" /\ (\A d \in Threads : pc[d] \notin Saves) /\ usage \in {"built", "enabled"}
  BY ReserveFacts
<1>3. /\ s \in Slots /\ nd < MaxPoints
      /\ usage = "built" => s = nd /\ StillFree = NoNumbers /\ Live = 0..(nd - 1)
      /\ usage = "enabled" =>
           /\ s \in Free
           /\ StillFree \in [values : Seq(Slots), bits : SUBSET Slots, size : {MaxPoints}]
           /\ StillFree.bits = Free \ {s} /\ NoRepeat(StillFree.values)
           /\ Len(StillFree.values) = Len(empty_slots.values) - 1
  BY ReserveFacts
<1>4. t \in Tags /\ t \notin DOMAIN tag_to_location
  BY ReserveFacts
<1>5. /\ empty_slots' = StillFree /\ delete_set' = delete_set /\ nd' = nd + 1
      /\ tag_to_location' = With(tag_to_location, t, s)
      /\ location_to_tag' = With(location_to_tag, s, t)
      /\ location' = [location EXCEPT ![c] = s] /\ pc' = [pc EXCEPT ![c] = "write"]
      /\ UNCHANGED <<conc_consolidate, data_compacted, graph, stored, usage, failure, locks,
                     tag, pruned_list, des, copy_of_neighbors, old_delete_set, unscanned>>
  BY ReserveFacts
<1>6. TagsInv /\ nd \in Nat /\ Len(empty_slots.values) \in Int
  BY LenProperties, Sizes DEF SlotsInv, TypeOK
<1>7. s \notin Live /\ delete_set' = delete_set /\ Live' = Live \cup {s} /\ Free' = Free \ {s}
  BY ReserveFacts
<1>8. TypeOK'
  <2>1. location_to_tag' \in [Live' -> Tags] /\ Live' \subseteq Slots
    BY <1>3, <1>4, <1>5, <1>7 DEF TypeOK, With, Live
  <2>2. /\ DOMAIN tag_to_location' \subseteq Tags
        /\ tag_to_location' \in [DOMAIN tag_to_location' -> Slots]
    BY <1>3, <1>4, <1>5 DEF TypeOK, With
  <2>3. empty_slots' \in [values : Seq(Slots), bits : SUBSET Slots, size : Nat]
    <3>1. NoNumbers \in [values : Seq(Slots), bits : SUBSET Slots, size : Nat]
      BY EmptySeq DEF NoNumbers
    <3> QED BY <1>2, <1>3, <1>5, <3>1, Sizes
  <2>4. nd' \in 0..MaxPoints /\ delete_set' \subseteq Slots
    BY <1>3, <1>5, <1>6, Sizes DEF TypeOK
  <2>5. location' \in [Threads -> Slots \cup {NoSlot}] /\ pc' \in [Threads -> Places]
    BY <1>3, <1>5 DEF TypeOK, Places, Inserts
  <2> QED BY <1>5, <2>1, <2>2, <2>3, <2>4, <2>5 DEF TypeOK, graph, locks
<1>9. ASSUME NEW d \in Threads PROVE ThreadInv(d)' /\ SaveInv(d)'
  <2>1. pc'[d] \notin Saves
    BY <1>2, <1>5 DEF Saves, TypeOK
  <2>2. ThreadInv(d)'
    BY <1>1, <1>2, <1>3, <1>4, <1>5 DEF ThreadInv, TypeOK, Inserts
  <2> QED BY <2>1, <2>2 DEF SaveInv
<1>10. TagsInv'
  <2>1. \A x \in Live : location_to_tag'[x] = location_to_tag[x]
    BY <1>5, <1>7 DEF With, Live
  <2>2. \A u \in DOMAIN tag_to_location : tag_to_location'[u] = tag_to_location[u]
    BY <1>4, <1>5 DEF With
  <2>3. location_to_tag'[s] = t /\ tag_to_location'[t] = s
    BY <1>5 DEF With
  <2>4. DOMAIN tag_to_location' = DOMAIN tag_to_location \cup {t}
    BY <1>5 DEF With
  <2> QED BY <1>6, <1>7, <2>1, <2>2, <2>3, <2>4 DEF TagsInv
<1>11. ASSUME usage = "enabled" PROVE SlotsInv'
  <2>1. PlacesInv /\ Len(empty_slots.values) + nd = MaxPoints
    BY <1>11 DEF SlotsInv
  <2>2. PlacesInv'
    <3>1. Leaving' = Leaving
      BY <1>5 DEF Leaving
    <3> QED BY <1>3, <1>5, <1>7, <1>11, <2>1, <3>1 DEF PlacesInv
  <2>3. NoRepeat(empty_slots'.values) /\ empty_slots'.size = MaxPoints
    BY <1>3, <1>5, <1>11
  <2>4. empty_slots'.bits = Free'
    BY <1>3, <1>5, <1>7, <1>11
  <2>5. Len(empty_slots'.values) + nd' = MaxPoints
    <3> DEFINE before == Len(empty_slots.values)  after == Len(empty_slots'.values)
    <3>1. /\ after = before - 1 /\ nd' = nd + 1
          /\ before + nd = MaxPoints /\ nd \in Nat /\ before \in Int
      BY <1>3, <1>5, <1>6, <1>11, <2>1
    <3>2. after + nd' = MaxPoints
      <4> HIDE DEF before, after
      <4> QED BY ONLY <3>1
    <3> QED BY <3>2
  <2>6. SlotsInv'
    BY <1>5, <1>10, <1>11, <2>2, <2>3, <2>4, <2>5 DEF SlotsInv
  <2> QED BY <2>6
<1>12. ASSUME usage = "built" PROVE SlotsInv'
  <2>1. Live' = 0..(nd' - 1)
    BY <1>3, <1>5, <1>6, <1>7, <1>12
  <2>2. data_compacted' /\ empty_slots' = NoNumbers /\ delete_set' = {} /\ usage' = "built"
    BY <1>3, <1>5, <1>12 DEF SlotsInv
  <2>3. SlotsInv'
    BY <1>10, <2>1, <2>2 DEF SlotsInv
  <2> QED BY <2>3
<1>13. FilesInv'
  <2>1. \A d \in Threads : pc'[d] \notin Saves
    BY <1>2, <1>5 DEF Saves, TypeOK
  <2> QED BY <1>5, <2>1 DEF FilesInv, stored, Saves
<1>14. UsageInv'
  <2>1. \A d \in Threads : pc'[d] = "reserve" => pc[d] = "reserve" /\ d # c
    BY <1>5 DEF TypeOK
  <2>2. DOMAIN tag_to_location' = DOMAIN tag_to_location \cup {t}
    BY <1>5 DEF With
  <2> QED BY <1>2, <1>5, <2>1, <2>2 DEF UsageInv
<1> QED BY <1>2, <1>5, <1>8, <1>9, <1>11, <1>12, <1>13, <1>14 DEF NoFailure

\* No room, or the tag exists: the slots are as before.
LEMMA NotReservedFacts ==
  ASSUME IInv, NEW c \in Threads, ReserveFull(c) \/ ReserveDuplicate(c)
  PROVE  /\ pc[c] = "reserve" /\ Return(c)
         /\ UNCHANGED <<conc_consolidate, slots, graph, stored, usage, failure>>
<1> USE DEF IInv, At
<1>1. pc[c] = "reserve"
  BY DEF ReserveFull, ReserveDuplicate
<1>2. (\A d \in Threads : pc[d] \notin Saves) /\ usage \in {"built", "enabled"}
  BY <1>1, AtWork DEF Saves
<1>3. CASE ReserveFull(c)
  BY <1>1, <1>3 DEF ReserveFull
<1>4. CASE ReserveDuplicate(c)
  <2>a. usage = "enabled"
    BY <1>1, <1>2, <1>4 DEF ReserveDuplicate, UsageInv
  <2>1. /\ ~InOrder /\ Reserved \in Free /\ Reserved \in Slots
        /\ StillFree \in [values : Seq(Slots), bits : SUBSET Slots, size : {MaxPoints}]
        /\ StillFree.bits = Free \ {Reserved}
        /\ Append(StillFree.values, Reserved) = empty_slots.values
    BY <2>a, <1>4, ReservedFacts DEF ReserveDuplicate
  <2>2. Testable(StillFree, Reserved) /\ Reserved \notin StillFree.bits
    BY <2>1, Sizes DEF Testable, Slots
  <2>3. /\ empty_slots' = Insert(StillFree, Reserved) /\ delete_set' = delete_set \ {Reserved}
        /\ Return(c)
        /\ UNCHANGED <<nd, tag_to_location, location_to_tag, data_compacted, failure>>
        /\ UNCHANGED <<conc_consolidate, graph, stored, usage, calls>>
    BY <1>4, <2>1, <2>2 DEF ReserveDuplicate
  <2>4. empty_slots' = empty_slots
    <3>1. /\ empty_slots.bits = Free /\ empty_slots.size = MaxPoints
          /\ empty_slots = [values |-> empty_slots.values, bits |-> Free, size |-> MaxPoints]
      BY <2>a DEF SlotsInv, TypeOK
    <3>2. (Free \ {Reserved}) \cup {Reserved} = Free
      BY <2>1
    <3>3. Reserved < MaxPoints /\ StillFree.size = MaxPoints
      BY <2>1, Sizes DEF Slots
    <3> QED BY <2>1, <2>3, <3>1, <3>2, <3>3 DEF Insert
  <2>5. delete_set' = delete_set
    BY <2>a, <2>1, <2>3 DEF SlotsInv, PlacesInv
  <2> QED BY <1>1, <2>3, <2>4, <2>5 DEF slots
<1> QED BY <1>3, <1>4

\* So the call ends with nothing done.
LEMMA NotReservedIInv ==
  ASSUME IInv, NEW c \in Threads, ReserveFull(c) \/ ReserveDuplicate(c)
  PROVE  IInv'
<1>1. /\ pc[c] = "reserve" /\ Return(c) /\ NoFailure'
      /\ UNCHANGED <<conc_consolidate, slots, graph, stored, usage, failure>>
  BY NotReservedFacts DEF IInv, NoFailure
<1>2. \A d \in Threads : pc[d] \notin Saves
  BY <1>1, AtWork DEF Saves
<1> QED BY <1>1, <1>2, ReturnIInv

\* The free slots are entered.
LEMMA EnableIInv ==
  ASSUME IInv, NEW c \in Threads, enable_delete(c), UsedAsMeant'
  PROVE  IInv'
<1> USE DEF IInv, Calls
<1>1. /\ usage = "built" /\ data_compacted /\ empty_slots = NoNumbers /\ delete_set = {}
      /\ Live = 0..(nd - 1) /\ nd < MaxPoints /\ nd \in Slots /\ usage' = "enabled"
  <2>1. usage = "built" /\ nd < MaxPoints /\ usage' = "enabled"
    BY DEF enable_delete, UsedAsMeant
  <2> QED BY <2>1, Sizes DEF SlotsInv, TypeOK, Slots
<1>2. /\ usage' = "enabled" /\ empty_slots' = InsertAll(NoNumbers, SlotsFrom(nd))
      /\ UNCHANGED <<conc_consolidate, nd, delete_set, tag_to_location, location_to_tag,
                     data_compacted, graph, stored, failure, locks, pc, insertion, consolidation>>
  BY <1>1 DEF enable_delete
<1>3. /\ empty_slots' = [values |-> SlotsFrom(nd), bits |-> nd..(MaxPoints - 1),
                         size |-> MaxPoints]
      /\ SlotsFrom(nd) \in Seq(Slots) /\ Len(SlotsFrom(nd)) = MaxPoints - nd
      /\ Free' = nd..(MaxPoints - 1) /\ NoRepeat(SlotsFrom(nd))
  BY <1>1, <1>2, SlotsFromFacts DEF Free
<1>4. \A d \in Threads : pc[d] \notin Saves
  BY NobodySaves DEF enable_delete, Saves
<1>5. \A d \in Threads : old_delete_set[d] = {}
  BY <1>1 DEF ThreadInv, Saves, Inserts
<1>6. TypeOK'
  <2>1. empty_slots' \in [values : Seq(Slots), bits : SUBSET Slots, size : Nat]
    <3>1. nd..(MaxPoints - 1) \in SUBSET Slots
      BY <1>1, Sizes DEF Slots
    <3> QED BY <1>3, <3>1, Sizes
  <2> QED BY <1>2, <2>1 DEF TypeOK, Live, graph, locks, insertion, consolidation
<1>7. \A d \in Threads : ThreadInv(d)' /\ SaveInv(d)'
  BY <1>1, <1>2, <1>4 DEF ThreadInv, SaveInv, insertion, consolidation, locks
<1>8. TagsInv'
  BY <1>2 DEF SlotsInv, TagsInv, Live
<1>9. PlacesInv'
  <2>1. Live' = 0..(nd - 1) /\ delete_set' = {} /\ \A d \in Threads : old_delete_set'[d] = {}
    BY <1>1, <1>2, <1>5 DEF Live, consolidation
  <2>2. Leaving' = {}
    BY <2>1 DEF Leaving
  <2>3. Free' \cap Live' = {} /\ Slots = Free' \cup Live'
    BY <1>1, <1>3, <2>1, Sizes DEF Slots
  <2> QED BY <2>1, <2>2, <2>3 DEF PlacesInv
<1>10. SlotsInv'
  BY <1>1, <1>2, <1>3, <1>8, <1>9, Sizes DEF SlotsInv, Slots
<1>11. FilesInv'
  BY <1>2 DEF FilesInv, stored
<1>12. UsageInv'
  BY <1>1 DEF UsageInv
<1> QED BY <1>2, <1>6, <1>7, <1>10, <1>11, <1>12 DEF NoFailure

\* The slots of deleted tags wait for a consolidation.
LEMMA DeleteIInv ==
  ASSUME IInv, NEW c \in Threads, NEW tags \in SUBSET Tags, lazy_delete(c, tags), UsedAsMeant'
  PROVE  IInv'
<1> USE DEF IInv, Calls
<1> DEFINE found == tags \cap DOMAIN tag_to_location
           freed == {tag_to_location[t] : t \in found}
<1>1. \A d \in Threads : pc[d] \notin Saves
  BY NobodySaves DEF lazy_delete, Saves
<1>2. /\ usage = "enabled" /\ ~data_compacted' /\ delete_set' = delete_set \cup freed
      /\ tag_to_location' = Restrict(tag_to_location, DOMAIN tag_to_location \ found)
      /\ location_to_tag' = Restrict(location_to_tag, Live \ freed)
      /\ UNCHANGED <<conc_consolidate, nd, empty_slots, graph, stored, usage,
                     failure, locks, pc, insertion, consolidation>>
  BY DEF lazy_delete, Live, NeedsFreeSlots, UsedAsMeant
<1>3. /\ TagsInv /\ PlacesInv
      /\ freed \subseteq Live /\ freed \subseteq Slots
  BY <1>2 DEF SlotsInv, TagsInv, TypeOK
<1>4. /\ Live' = Live \ freed /\ Free' = Free /\ Leaving' = Leaving
      /\ DOMAIN tag_to_location' = DOMAIN tag_to_location \ found
      /\ \A s \in Live' : location_to_tag'[s] = location_to_tag[s]
      /\ \A t \in DOMAIN tag_to_location' : tag_to_location'[t] = tag_to_location[t]
  BY <1>2 DEF Live, Free, Leaving, Restrict, consolidation
<1>5. TypeOK'
  <2>1. /\ location_to_tag' \in [Live' -> Tags] /\ Live' \subseteq Slots
        /\ DOMAIN tag_to_location' \subseteq Tags
        /\ tag_to_location' \in [DOMAIN tag_to_location' -> Slots]
        /\ delete_set' \subseteq Slots
    BY <1>2, <1>3, <1>4 DEF TypeOK, Restrict
  <2> QED BY <1>2, <2>1 DEF TypeOK, graph, locks, insertion, consolidation
<1>6. \A d \in Threads : ThreadInv(d)' /\ SaveInv(d)'
  BY <1>1, <1>2 DEF ThreadInv, SaveInv, insertion, consolidation
<1>7. TagsInv'
  <2>1. ASSUME NEW t \in DOMAIN tag_to_location'
        PROVE  tag_to_location[t] \in Live' /\ location_to_tag[tag_to_location[t]] = t
    <3>1. tag_to_location[t] \in Live /\ location_to_tag[tag_to_location[t]] = t
      BY <1>3, <1>4 DEF TagsInv
    <3>2. tag_to_location[t] \notin freed
      BY <1>3, <1>4, <3>1 DEF TagsInv
    <3> QED BY <1>4, <3>1, <3>2
  <2>2. ASSUME NEW s \in Live'
        PROVE  /\ location_to_tag[s] \in DOMAIN tag_to_location'
               /\ tag_to_location[location_to_tag[s]] = s
    BY <1>3, <1>4 DEF TagsInv
  <2> QED BY <1>4, <2>1, <2>2 DEF TagsInv
<1>8. PlacesInv'
  BY <1>2, <1>3, <1>4 DEF PlacesInv, consolidation
<1>9. SlotsInv'
  BY <1>2, <1>4, <1>7, <1>8 DEF SlotsInv
<1>10. FilesInv'
  BY <1>2 DEF FilesInv, stored
<1>11. UsageInv'
  BY <1>2, UsageKept
<1> QED BY <1>2, <1>5, <1>6, <1>9, <1>10, <1>11 DEF NoFailure

\* Without exceptions the counts add up: tags and slots match one to one.
LEMMA TagsMatch ==
  ASSUME TypeOK, TagsInv
  PROVE  SizeOf(location_to_tag) = SizeOf(tag_to_location)
<1> DEFINE T == DOMAIN tag_to_location
<1>1. location_to_tag \in [Live -> T] /\ tag_to_location \in [T -> Live]
  BY DEF TypeOK, TagsInv
<1>2. IsFiniteSet(Live)
  BY SlotsFinite, FS_Subset DEF TypeOK
<1>3. location_to_tag \in Bijection(Live, T)
  <2>1. location_to_tag \in Injection(Live, T)
    BY <1>1 DEF TagsInv, Injection, IsInjective
  <2>2. location_to_tag \in Surjection(Live, T)
    BY <1>1 DEF TagsInv, Surjection
  <2> QED BY <2>1, <2>2 DEF Bijection
<1>4. Cardinality(T) = Cardinality(Live)
  BY <1>2, <1>3, FS_Bijection DEF ExistsBijection
<1> QED BY <1>4 DEF SizeOf, Live

\* Up to the swap a consolidation only takes locks.
LEMMA LockIInv ==
  ASSUME IInv, NEW c \in Threads,
         consolidate_deletes(c) \/ ExcludeUpdates(c) \/ TryConsolidate(c), UsedAsMeant'
  PROVE  IInv'
<1> USE DEF IInv, At, Goto, Calls
<1>1. /\ pc[c] \in {"idle", "exclude", "try"} /\ usage = "enabled" /\ usage' = usage
      /\ \A d \in Threads : pc[d] \notin Saves
  <2>1. CASE consolidate_deletes(c)
    BY <2>1, NobodySaves DEF consolidate_deletes, Saves, NeedsFreeSlots, UsedAsMeant
  <2>2. CASE ExcludeUpdates(c) \/ TryConsolidate(c)
    BY <2>2, AtWork DEF ExcludeUpdates, TryConsolidate, Saves, Inserts
  <2> QED BY <2>1, <2>2
<1>2. ASSUME NEW place \in {"exclude", "try", "swap"}, pc' = [pc EXCEPT ![c] = place],
             update_writer' \in {update_writer, c}, consolidator' \in {consolidator, c},
             UNCHANGED <<slots, graph, stored, usage, failure, update_readers,
                         insertion, consolidation>>
      PROVE  IInv'
  <2>1. TypeOK'
    BY <1>2 DEF TypeOK, Places, Live, slots, graph, insertion, consolidation
  <2>2. \A d \in Threads : ThreadInv(d)' /\ pc'[d] \notin Saves
    BY <1>1, <1>2 DEF TypeOK, ThreadInv, Saves, Inserts, insertion, consolidation
  <2>3. UsageInv'
    BY <1>1, UsageKept
  <2> QED BY <1>2, <2>1, <2>2, <2>3, LocalStep DEF NoFailure, stored, consolidation
<1>3. CASE consolidate_deletes(c)
  <2>1. Len(empty_slots.values) + nd = MaxPoints
    BY <1>1 DEF SlotsInv
  <2>2. SizeOf(location_to_tag) = SizeOf(tag_to_location)
    BY TagsMatch DEF SlotsInv
  <2>3. CASE SizeOf(location_to_tag) + Cardinality(delete_set) # nd
    BY <1>1, <1>3, <2>1, <2>3, ReturnIInv DEF consolidate_deletes, NoFailure
  <2>4. CASE ~(SizeOf(location_to_tag) + Cardinality(delete_set) # nd)
    <3>1. /\ pc' = [pc EXCEPT ![c] = IF conc_consolidate THEN "try" ELSE "exclude"]
          /\ UNCHANGED <<failure, locks, insertion, consolidation>>
          /\ UNCHANGED <<slots, graph, stored, usage>>
      BY <1>1, <1>3, <2>1, <2>2, <2>4 DEF consolidate_deletes
    <3>2. \E place \in {"exclude", "try"} : pc' = [pc EXCEPT ![c] = place]
      BY <3>1
    <3> QED BY <1>2, <3>1, <3>2 DEF locks
  <2> QED BY <2>3, <2>4
<1>4. CASE ExcludeUpdates(c)
  BY <1>2, <1>4 DEF ExcludeUpdates
<1>5. CASE TryConsolidate(c) /\ consolidator = Nobody
  <2>1. /\ pc' = [pc EXCEPT ![c] = "swap"] /\ consolidator' = c
        /\ UNCHANGED <<slots, graph, stored, usage, failure, update_readers, update_writer,
                       insertion, consolidation>>
    BY <1>5 DEF TryConsolidate
  <2> QED BY <1>2, <2>1
<1>6. CASE TryConsolidate(c) /\ consolidator # Nobody
  BY <1>1, <1>6, ReturnIInv DEF TryConsolidate, NoFailure
<1> QED BY <1>3, <1>4, <1>5, <1>6

\* The deleted slots are taken over.
LEMMA TakeIInv ==
  ASSUME IInv, NEW c \in Threads, TakeDeleted(c)
  PROVE  IInv'
<1> USE DEF IInv, At, Goto
<1>1. /\ usage = "enabled" /\ pc[c] = "swap" /\ old_delete_set[c] = {}
      /\ \A d \in Threads : pc[d] \notin Saves
  BY AtWork DEF TakeDeleted, Saves, ThreadInv, Inserts
<1>2. /\ old_delete_set' = [old_delete_set EXCEPT ![c] = delete_set] /\ delete_set' = {}
      /\ unscanned' = [unscanned EXCEPT ![c] = Nodes] /\ pc' = [pc EXCEPT ![c] = "scan"]
      /\ UNCHANGED <<conc_consolidate, nd, empty_slots, tag_to_location, location_to_tag,
                     data_compacted, graph, stored, usage, failure, locks, insertion>>
  BY DEF TakeDeleted
<1>3. TypeOK'
  BY <1>2 DEF TypeOK, Places, Live, graph, locks, insertion
<1>4. \A d \in Threads : ThreadInv(d)' /\ pc'[d] \notin Saves
  BY <1>1, <1>2 DEF TypeOK, ThreadInv, Inserts, Saves, insertion
<1>5. TagsInv'
  BY <1>2 DEF SlotsInv, TagsInv, Live
<1>6. PlacesInv'
  <2>1. PlacesInv /\ Live' = Live /\ Free' = Free
    BY <1>1, <1>2 DEF SlotsInv, Live, Free
  <2>2. \A d \in Threads : old_delete_set'[d] = IF d = c THEN delete_set ELSE old_delete_set[d]
    BY <1>2 DEF TypeOK
  <2>3. Leaving' = Leaving \cup delete_set
    BY <1>1, <2>2 DEF Leaving
  <2> QED BY <1>1, <1>2, <2>1, <2>2, <2>3 DEF PlacesInv
<1>7. SlotsInv'
  BY <1>1, <1>2, <1>5, <1>6 DEF SlotsInv, Free
<1>8. FilesInv'
  BY <1>2, <1>4 DEF FilesInv, stored, Saves
<1>9. UsageInv'
  BY <1>1, <1>2, UsageKept
<1> QED BY <1>2, <1>3, <1>4, <1>7, <1>8, <1>9 DEF SaveInv, NoFailure

\* A turn of the scan changes one list, and tests bits that are there.
LEMMA ScanIInv ==
  ASSUME IInv, NEW c \in Threads, NEW n \in Nodes, ProcessDelete(c, n)
  PROVE  IInv'
<1> USE DEF IInv, At
<1>1. /\ usage = "enabled" /\ pc[c] = "scan"
      /\ \A d \in Threads : pc[d] \notin Saves
  BY AtWork DEF ProcessDelete, Saves, Inserts
<1>2. /\ unscanned' = [unscanned EXCEPT ![c] = @ \ {n}]
      /\ UNCHANGED <<conc_consolidate, slots, data, start, stored, usage, locks, pc,
                     insertion, old_delete_set>>
  BY DEF ProcessDelete
<1>3. \A g \in Repaired(n, old_delete_set[c]) : g \in SUBSET Nodes
  BY DEF Repaired, Pruned, TypeOK
<1>4. final_graph' \in [Nodes -> SUBSET Nodes]
  <2>1. \/ final_graph' = final_graph
        \/ \E g \in Repaired(n, old_delete_set[c]) : final_graph' = [final_graph EXCEPT ![n] = g]
    BY DEF ProcessDelete
  <2>2. final_graph \in [Nodes -> SUBSET Nodes]
    BY DEF TypeOK
  <2>3. ASSUME NEW g \in SUBSET Nodes, final_graph' = [final_graph EXCEPT ![n] = g]
        PROVE  final_graph' \in [Nodes -> SUBSET Nodes]
    BY <2>2, <2>3
  <2> QED BY <1>3, <2>1, <2>2, <2>3
<1>5. TypeOK'
  BY <1>2, <1>4 DEF TypeOK, Live, slots, locks, insertion
<1>6. failure' = failure
  <2>1. empty_slots.size = MaxPoints
    BY <1>1 DEF SlotsInv
  <2>2. n \in Slots => Testable(empty_slots, n)
    BY <2>1, Sizes DEF Testable, Slots
  <2> QED BY <2>2 DEF ProcessDelete
<1>7. \A d \in Threads : ThreadInv(d)' /\ pc'[d] \notin Saves
  BY <1>1, <1>2 DEF ThreadInv, insertion
<1>8. UsageInv'
  BY <1>1, <1>2, UsageKept
<1> QED BY <1>2, <1>5, <1>6, <1>7, <1>8, LocalStep DEF NoFailure, stored

\* A set of slots in any order, as a list.
LEMMA ListOfSlots ==
  ASSUME NEW S \in SUBSET Slots, NEW q \in SetToSeqs(S)
  PROVE  /\ q \in Seq(Slots) /\ Len(q) = Cardinality(S) /\ Cardinality(S) \in Nat
         /\ NoRepeat(q) /\ ToSet(q) = S
<1> DEFINE n == Cardinality(S)
<1>1. IsFiniteSet(S) /\ n \in Nat
  BY SlotsFinite, FS_Subset, FS_CardinalityType
<1>2. q \in [1..n -> S] /\ \A i, j \in 1..n : i # j => q[i] # q[j]
  BY DEF SetToSeqs
<1> HIDE DEF n
<1>3. q \in Seq(Slots) /\ Len(q) = n /\ DOMAIN q = 1..n
  BY <1>1, <1>2
<1>4. NoRepeat(q)
  BY <1>2, <1>3 DEF NoRepeat
<1>5. q \in Injection(1..n, S)
  BY <1>2 DEF Injection, IsInjective
<1>6. Cardinality(1..n) = n
  BY <1>1, FS_Interval
<1>7. q \in Surjection(1..n, S)
  BY <1>1, <1>5, <1>6, FS_Injection DEF n
<1>8. ToSet(q) = S
  BY <1>2, <1>3, <1>7 DEF ToSet, Surjection
<1> QED BY <1>1, <1>3, <1>4, <1>8 DEF n

\* The slots taken over are free, and none was free before.
LEMMA ReleaseFacts ==
  ASSUME IInv, NEW c \in Threads, ReleaseDeleted(c)
  PROVE  /\ usage = "enabled" /\ pc[c] = "scan" /\ unscanned[c] = {} /\ Return(c)
         /\ \A d \in Threads : pc[d] \notin Saves
         /\ old_delete_set[c] \in SUBSET Slots /\ Cardinality(old_delete_set[c]) \in Nat
         /\ empty_slots' \in [values : Seq(Slots), bits : SUBSET Slots, size : {MaxPoints}]
         /\ Free' = Free \cup old_delete_set[c] /\ empty_slots'.bits = Free'
         /\ Len(empty_slots'.values) = Len(empty_slots.values) + Cardinality(old_delete_set[c])
         /\ NoRepeat(empty_slots'.values)
         /\ nd' = nd - Cardinality(old_delete_set[c])
         /\ UNCHANGED <<delete_set, tag_to_location, location_to_tag, data_compacted, failure>>
         /\ UNCHANGED <<conc_consolidate, graph, stored, usage>>
<1> USE DEF IInv, At, Goto
<1> DEFINE old == old_delete_set[c]
<1>1. /\ usage = "enabled" /\ pc[c] = "scan" /\ unscanned[c] = {} /\ old \in SUBSET Slots
      /\ \A d \in Threads : pc[d] \notin Saves
  BY AtWork DEF ReleaseDeleted, Saves, TypeOK, Inserts
<1>2. /\ TagsInv /\ PlacesInv /\ NoRepeat(empty_slots.values)
      /\ empty_slots.bits = Free /\ Len(empty_slots.values) + nd = MaxPoints
      /\ empty_slots \in [values : Seq(Slots), bits : SUBSET Slots, size : {MaxPoints}]
      /\ nd \in 0..MaxPoints /\ Len(empty_slots.values) \in Nat
  BY <1>1, LenProperties DEF SlotsInv, TypeOK
<1>3. PICK q \in SetToSeqs(old) :
        /\ empty_slots' = InsertAll(empty_slots, q) /\ nd' = nd - Cardinality(old) /\ Return(c)
        /\ UNCHANGED <<delete_set, tag_to_location, location_to_tag, data_compacted, failure>>
        /\ UNCHANGED <<conc_consolidate, graph, stored, usage, calls>>
  <2>1. {s \in old : ~Testable(empty_slots, s)} = {}
    BY <1>1, <1>2, Sizes DEF Testable, Slots
  <2>2. old \cap empty_slots.bits = {}
    BY <1>2 DEF PlacesInv
  <2> QED BY <1>2, <2>1, <2>2 DEF ReleaseDeleted
<1>4. /\ q \in Seq(Slots) /\ Len(q) = Cardinality(old) /\ Cardinality(old) \in Nat
      /\ NoRepeat(q) /\ ToSet(q) = old
  BY <1>1, ListOfSlots
<1>5. /\ empty_slots' \in [values : Seq(Slots), bits : SUBSET Slots, size : {MaxPoints}]
      /\ Free' = Free \cup old /\ empty_slots'.bits = Free \cup old
      /\ Len(empty_slots'.values) = Len(empty_slots.values) + Len(q)
      /\ NoRepeat(empty_slots'.values)
  <2>1. Free \cap ToSet(q) = {}
    BY <1>2, <1>4 DEF PlacesInv
  <2> DEFINE r == InsertAll(empty_slots, q)
  <2>2. /\ r \in [values : Seq(Slots), bits : SUBSET Slots, size : {MaxPoints}]
        /\ ToSet(r.values) = ToSet(empty_slots.values) \cup ToSet(q)
        /\ r.bits = empty_slots.bits \cup ToSet(q)
        /\ Len(r.values) = Len(empty_slots.values) + Len(q) /\ NoRepeat(r.values)
    BY <1>2, <1>4, <2>1, InsertAllFacts DEF Free
  <2>3. empty_slots' = r
    BY <1>3
  <2> HIDE DEF r
  <2> QED BY <1>2, <1>4, <2>2, <2>3 DEF Free
<1> QED BY <1>1, <1>3, <1>4, <1>5

\* So that the counts still add up.
LEMMA ReleaseIInv ==
  ASSUME IInv, NEW c \in Threads, ReleaseDeleted(c)
  PROVE  IInv'
<1> USE DEF IInv, At, Goto
<1> DEFINE old == old_delete_set[c]
<1>1. /\ usage = "enabled" /\ pc[c] = "scan" /\ old \in SUBSET Slots
      /\ \A d \in Threads : pc[d] \notin Saves
  BY ReleaseFacts
<1>2. /\ TagsInv /\ PlacesInv /\ Len(empty_slots.values) + nd = MaxPoints
      /\ nd \in 0..MaxPoints /\ Len(empty_slots.values) \in Nat
  BY <1>1, LenProperties DEF SlotsInv, TypeOK
<1>3. /\ nd' = nd - Cardinality(old) /\ Return(c)
      /\ UNCHANGED <<delete_set, tag_to_location, location_to_tag, data_compacted, failure>>
      /\ UNCHANGED <<conc_consolidate, graph, stored, usage>>
  BY ReleaseFacts
<1>4. Cardinality(old) \in Nat
  BY ReleaseFacts
<1>5. /\ empty_slots' \in [values : Seq(Slots), bits : SUBSET Slots, size : {MaxPoints}]
      /\ Free' = Free \cup old /\ empty_slots'.bits = Free \cup old
      /\ Len(empty_slots'.values) = Len(empty_slots.values) + Cardinality(old)
      /\ NoRepeat(empty_slots'.values)
  BY ReleaseFacts
<1>6. nd' \in 0..MaxPoints /\ Len(empty_slots'.values) + nd' = MaxPoints
  <2>1. Len(empty_slots'.values) \in 0..MaxPoints
    <3>1. empty_slots'.values \in Seq(Slots)
      BY <1>5
    <3>2. Cardinality(ToSet(empty_slots'.values)) = Len(empty_slots'.values)
      BY <1>5, <3>1, NoRepeatCount
    <3>3. ToSet(empty_slots'.values) \in SUBSET Slots
      BY <3>1, LenProperties DEF ToSet
    <3>4. Len(empty_slots'.values) <= MaxPoints
      BY <3>2, <3>3, SlotsFinite, FS_Subset
    <3> QED BY <3>1, <3>4, LenProperties, Sizes
  <2> QED BY <1>2, <1>3, <1>4, <1>5, <2>1, Sizes
<1>7. \A d \in Threads : old_delete_set'[d] = IF d = c THEN {} ELSE old_delete_set[d]
  BY <1>3 DEF Return, TypeOK
<1>8. TypeOK'
  <2>1. empty_slots' \in [values : Seq(Slots), bits : SUBSET Slots, size : Nat]
    BY <1>5, Sizes
  <2> QED BY <1>3, <1>6, <2>1 DEF TypeOK, Return, Places, Live, graph
<1>9. \A d \in Threads : ThreadInv(d)' /\ pc'[d] \notin Saves
  BY <1>1, <1>3 DEF Return, TypeOK, ThreadInv, Inserts, Saves
<1>10. TagsInv' /\ Live' = Live
  BY <1>2, <1>3 DEF TagsInv, Live
<1>11. PlacesInv'
  <2>1. Leaving = Leaving' \cup old
    BY <1>7 DEF Leaving
  <2>2. Slots = Free' \cup Live' \cup delete_set' \cup Leaving'
    BY <1>2, <1>3, <1>5, <1>10, <2>1 DEF PlacesInv
  <2>3. Free' \cap Live' = {} /\ Free' \cap delete_set' = {} /\ Live' \cap delete_set' = {}
    BY <1>2, <1>3, <1>5, <1>10 DEF PlacesInv
  <2>4. ASSUME NEW d \in Threads
        PROVE  /\ old_delete_set'[d] \cap Free' = {} /\ old_delete_set'[d] \cap Live' = {}
               /\ old_delete_set'[d] \cap delete_set' = {}
               /\ \A e \in Threads : d # e => old_delete_set'[d] \cap old_delete_set'[e] = {}
    BY <1>2, <1>3, <1>5, <1>7, <1>10 DEF PlacesInv
  <2> QED BY <2>2, <2>3, <2>4 DEF PlacesInv
<1>12. SlotsInv'
  BY <1>1, <1>3, <1>5, <1>6, <1>10, <1>11 DEF SlotsInv
<1>13. FilesInv'
  BY <1>3, <1>9 DEF FilesInv, stored, Saves
<1>14. UsageInv'
  BY <1>1, <1>3, UsageKept
<1> QED BY <1>3, <1>8, <1>9, <1>12, <1>13, <1>14 DEF SaveInv, NoFailure

-----------------------------------------------------------------------------
\* A step that leaves the slots alone.
LEMMA SlotsKept ==
  ASSUME SlotsInv, UNCHANGED <<slots, usage>>, old_delete_set' = old_delete_set
  PROVE  SlotsInv'
<1> USE DEF slots
<1>1. TagsInv' = TagsInv /\ PlacesInv' = PlacesInv
  BY DEF TagsInv, PlacesInv, Live, Free, Leaving
<1> QED BY <1>1 DEF SlotsInv, Live, Free

\* What a thread in save knows of itself and of the others.
LEMMA SaverFacts ==
  ASSUME IInv, NEW c \in Threads, pc[c] \in Saves
  PROVE  /\ SaveInv(c)
         /\ \A d \in Threads : d # c => pc[d] = "idle"
         /\ \A d \in Threads : old_delete_set[d] = {}
         /\ Leaving = {}
<1>1. SaveInv(c) /\ \A d \in Threads : ThreadInv(d)
  BY DEF IInv
<1>2. \A d \in Threads : d # c => pc[d] = "idle"
  BY <1>1 DEF SaveInv
<1>3. \A d \in Threads : old_delete_set[d] = {}
  BY <1>1, <1>2 DEF ThreadInv, Saves
<1> QED BY <1>1, <1>2, <1>3 DEF Leaving

\* A step of a saving thread to its next place, which leaves the slots alone.
LEMMA SaveStep ==
  ASSUME IInv, NEW c \in Threads, NEW place \in Saves \cup {"idle"},
         pc[c] \in Saves \/ \A d \in Threads : pc[d] = "idle",
         pc' = [pc EXCEPT ![c] = place],
         UNCHANGED <<slots, usage, failure, insertion, consolidation>>,
         update_readers' \subseteq update_readers,
         update_writer' \in {update_writer, c, Nobody}, consolidator' \in {consolidator, c, Nobody},
         final_graph' \in [Nodes -> SUBSET Nodes], data' \in [Nodes -> Int], start' \in Nodes,
         SaveInv(c)', FilesInv'
  PROVE  IInv'
<1> USE DEF IInv, slots, insertion, consolidation
<1>1. \A d \in Threads : d # c => pc[d] = "idle" /\ pc'[d] = "idle"
  BY SaverFacts DEF TypeOK
<1>2. pc'[c] = place /\ pc[c] \in Saves \cup {"idle"}
  BY DEF TypeOK
<1>3. TypeOK'
  BY DEF TypeOK, Places, Live
<1>4. ASSUME NEW d \in Threads PROVE ThreadInv(d)' /\ SaveInv(d)'
  <2>1. old_delete_set[d] = {}
    <3>1. pc[d] # "scan"
      BY <1>1, <1>2 DEF Saves
    <3> QED BY <3>1 DEF ThreadInv
  <2>2. pc'[d] \in Saves \cup {"idle"}
    BY <1>1, <1>2
  <2>3. ThreadInv(d)'
    BY <2>1, <2>2 DEF ThreadInv, Saves, Inserts
  <2>4. SaveInv(d)'
    BY <1>1 DEF SaveInv, Saves
  <2> QED BY <2>3, <2>4
<1>5. SlotsInv'
  BY SlotsKept
<1>6. UsageInv'
  <2>1. \A d \in Threads : pc'[d] # "reserve"
    BY <1>1, <1>2 DEF Saves
  <2> QED BY <2>1 DEF UsageInv
<1> QED BY <1>3, <1>4, <1>5, <1>6 DEF NoFailure

\* save starts alone, with no files, and an index whose slots are in order is
\* not compacted.
LEMMA SaveIInv ==
  ASSUME ~SavesWithHoles, IInv, NEW c \in Threads, NEW b \in BOOLEAN, save(c, b)
  PROVE  IInv'
<1> USE DEF save, Calls, Goto
<1>1. PICK place \in {"compact", "save", "idle"} :
        /\ pc' = [pc EXCEPT ![c] = place]
        /\ place = "save" => data_compacted
        /\ place = "compact" => data_compacted \/ nd < MaxPoints \/ delete_set # {}
        /\ data_compacted => Live = 0..(nd - 1)
  BY DEF Orderly
<1>2. /\ \A d \in Threads : pc[d] = "idle" /\ pc'[d] \in {place, "idle"}
      /\ \A d \in Threads : d # c => pc'[d] = "idle"
      /\ files = << >> /\ files' = files
  BY <1>1 DEF IInv, TypeOK, stored
<1>3. SaveInv(c)'
  BY <1>1, <1>2 DEF SaveInv, Saves, slots, Live
<1>4. FilesInv'
  BY <1>2 DEF FilesInv
<1>5. place \in Saves \cup {"idle"}
  BY DEF Saves
<1> QED BY <1>1, <1>2, <1>3, <1>4, <1>5, SaveStep DEF graph, locks, IInv, TypeOK

\* Compaction: as many points as there are slots in front go there, each to one
\* of its own, and the slots behind are free.
LEMMA CompactFacts ==
  ASSUME IInv, NEW c \in Threads, compact_data(c), ~data_compacted, delete_set = {}
  PROVE  /\ usage = "enabled" /\ nd < MaxPoints /\ nd \in Slots /\ nd \in Nat /\ pc[c] = "compact"
         /\ TagsInv /\ Slots = Free \cup Live /\ Leaving = {}
         /\ \A d \in Threads : (d # c => pc[d] = "idle") /\ old_delete_set[d] = {}
         /\ data_compacted'
         /\ final_graph' = compacted(final_graph)
         /\ data' = [n \in Nodes |->
              IF \E s \in Live : new_location(s) = n
              THEN data[CHOOSE s \in Live : new_location(s) = n] ELSE data[n]]
         /\ tag_to_location' = [t \in DOMAIN tag_to_location |->
                                  new_location(tag_to_location[t])]
         /\ location_to_tag' = [n \in 0..(nd - 1) |->
              location_to_tag[CHOOSE s \in Live : new_location(s) = n]]
         /\ pc' = [pc EXCEPT ![c] = "freeze"]
         /\ UNCHANGED <<nd, delete_set>>
         /\ UNCHANGED <<conc_consolidate, start, stored, usage, failure, locks,
                        insertion, consolidation>>
         /\ \A s \in Live : new_location(s) \in 0..(nd - 1)
         /\ \A s, t \in Live : new_location(s) = new_location(t) => s = t
         /\ {new_location(s) : s \in Live} = 0..(nd - 1)
         /\ 0..(nd - 1) \subseteq Slots
         /\ \A s \in Live : (CHOOSE x \in Live : new_location(x) = new_location(s)) = s
         /\ Live' = 0..(nd - 1)
         /\ \A s \in Live : location_to_tag'[new_location(s)] = location_to_tag[s]
         /\ empty_slots' = [values |-> SlotsFrom(nd), bits |-> nd..(MaxPoints - 1),
                            size |-> MaxPoints]
         /\ SlotsFrom(nd) \in Seq(Slots) /\ Len(SlotsFrom(nd)) = MaxPoints - nd
         /\ Free' = nd..(MaxPoints - 1) /\ NoRepeat(SlotsFrom(nd))
<1> USE DEF At, Goto
<1>a. /\ pc[c] = "compact" /\ pc[c] \in Saves /\ TypeOK /\ SlotsInv
  BY DEF compact_data, Saves, IInv
<1>b. /\ SaveInv(c) /\ \A d \in Threads : d # c => pc[d] = "idle"
      /\ \A d \in Threads : old_delete_set[d] = {}
      /\ Leaving = {}
  BY <1>a, SaverFacts
<1>1. /\ usage = "enabled" /\ nd < MaxPoints /\ nd \in Slots /\ nd \in Nat
      /\ TagsInv /\ PlacesInv /\ NoRepeat(empty_slots.values)
      /\ Len(empty_slots.values) + nd = MaxPoints
  <2>1. usage = "enabled"
    BY DEF IInv, UsageInv, SlotsInv
  <2> QED BY <1>a, <1>b, <2>1, Sizes DEF SlotsInv, SaveInv, TypeOK, Slots
<1>2. /\ data_compacted'
      /\ final_graph' = compacted(final_graph)
      /\ data' = [n \in Nodes |->
           IF \E s \in Live : new_location(s) = n
           THEN data[CHOOSE s \in Live : new_location(s) = n] ELSE data[n]]
      /\ tag_to_location' = [t \in DOMAIN tag_to_location |->
                               new_location(tag_to_location[t])]
      /\ location_to_tag' = [n \in {new_location(s) : s \in Live} |->
           location_to_tag[CHOOSE s \in Live : new_location(s) = n]]
      /\ empty_slots' = InsertAll(NoNumbers, SlotsFrom(nd))
      /\ pc' = [pc EXCEPT ![c] = "freeze"]
      /\ UNCHANGED <<nd, delete_set>>
      /\ UNCHANGED <<conc_consolidate, start, stored, usage, calls, failure, locks,
                     insertion, consolidation>>
  BY DEF compact_data
<1>3. Cardinality(Live) = nd
  <2>1. IsFiniteSet(Free) /\ Cardinality(Free) = Len(empty_slots.values)
    BY <1>a, <1>1, NoRepeatCount DEF TypeOK, Free
  <2>2. IsFiniteSet(Live) /\ Cardinality(Live) \in Nat
    BY <1>a, NewLocations DEF TypeOK
  <2>3. Slots = Free \cup Live /\ Free \cap Live = {}
    BY <1>b, <1>1 DEF PlacesInv
  <2>4. MaxPoints = Cardinality(Free) + Cardinality(Live) - Cardinality({})
    BY <2>1, <2>2, <2>3, FS_Union, SlotsFinite
  <2>5. Cardinality({}) = 0 /\ Len(empty_slots.values) \in Nat
    BY <1>a, FS_EmptySet, LenProperties DEF TypeOK
  <2> QED BY <1>1, <2>1, <2>2, <2>4, <2>5, Sizes
<1>4. /\ \A s \in Live : new_location(s) \in 0..(nd - 1)
      /\ \A s, t \in Live : new_location(s) = new_location(t) => s = t
      /\ {new_location(s) : s \in Live} = 0..(nd - 1)
      /\ 0..(nd - 1) \subseteq Slots
  BY <1>a, <1>1, <1>3, NewLocations, Sizes DEF TypeOK, Slots
<1>5. ASSUME NEW s \in Live
      PROVE  (CHOOSE x \in Live : new_location(x) = new_location(s)) = s
  BY <1>4
<1>6. /\ Live' = 0..(nd - 1)
      /\ \A s \in Live : location_to_tag'[new_location(s)] = location_to_tag[s]
  BY <1>2, <1>4, <1>5 DEF Live
<1>7. /\ empty_slots' = [values |-> SlotsFrom(nd), bits |-> nd..(MaxPoints - 1),
                         size |-> MaxPoints]
      /\ SlotsFrom(nd) \in Seq(Slots) /\ Len(SlotsFrom(nd)) = MaxPoints - nd
      /\ Free' = nd..(MaxPoints - 1) /\ NoRepeat(SlotsFrom(nd))
  BY <1>1, <1>2, SlotsFromFacts DEF Free
<1>8. Slots = Free \cup Live
  BY <1>b, <1>1 DEF PlacesInv
<1>9. location_to_tag' = [n \in 0..(nd - 1) |->
        location_to_tag[CHOOSE s \in Live : new_location(s) = n]]
  BY <1>2, <1>4
<1> QED BY <1>a, <1>b, <1>1, <1>2, <1>4, <1>5, <1>6, <1>7, <1>8, <1>9

\* Compaction puts the points into the first slots and enters the others as free.
LEMMA CompactIInv ==
  ASSUME IInv, NEW c \in Threads, compact_data(c)
  PROVE  IInv'
<1> USE DEF At, Goto
<1>1. /\ pc[c] = "compact" /\ pc[c] \in Saves /\ files = << >>
      /\ TypeOK /\ SlotsInv /\ FilesInv
  BY DEF compact_data, Saves, IInv, FilesInv
<1>2. /\ SaveInv(c) /\ \A d \in Threads : d # c => pc[d] = "idle"
      /\ \A d \in Threads : old_delete_set[d] = {}
      /\ Leaving = {}
  BY <1>1, SaverFacts
<1>3. CASE data_compacted \/ delete_set # {}
  <2>1. PICK place \in {"freeze", "idle"} :
          /\ pc' = [pc EXCEPT ![c] = place]
          /\ place = "freeze" => data_compacted
          /\ UNCHANGED <<conc_consolidate, slots, graph, stored, usage, failure, locks,
                         insertion, consolidation>>
    BY <1>3 DEF compact_data, graph
  <2>2. pc'[c] = place /\ \A d \in Threads : d # c => pc'[d] = "idle"
    BY <1>1, <1>2, <2>1 DEF TypeOK
  <2>3. SaveInv(c)'
    BY <1>1, <1>2, <2>1, <2>2 DEF SaveInv, Saves, slots, Live
  <2>4. FilesInv'
    BY <1>1, <2>1, <2>2 DEF FilesInv, stored
  <2>5. place \in Saves \cup {"idle"}
    BY DEF Saves
  <2> QED BY <1>1, <2>1, <2>3, <2>4, <2>5, SaveStep DEF graph, locks, TypeOK
<1>4. CASE ~data_compacted /\ delete_set = {}
  <2>1. /\ usage = "enabled" /\ nd < MaxPoints /\ nd \in Slots /\ nd \in Nat /\ TagsInv
    BY <1>4, CompactFacts
  <2>2. /\ data_compacted'
        /\ final_graph' = compacted(final_graph)
        /\ data' = [n \in Nodes |->
             IF \E s \in Live : new_location(s) = n
             THEN data[CHOOSE s \in Live : new_location(s) = n] ELSE data[n]]
        /\ tag_to_location' = [t \in DOMAIN tag_to_location |->
                                 new_location(tag_to_location[t])]
        /\ location_to_tag' = [n \in 0..(nd - 1) |->
             location_to_tag[CHOOSE s \in Live : new_location(s) = n]]
        /\ pc' = [pc EXCEPT ![c] = "freeze"]
        /\ UNCHANGED <<nd, delete_set>>
        /\ UNCHANGED <<conc_consolidate, start, stored, usage, failure, locks,
                       insertion, consolidation>>
    BY <1>4, CompactFacts
  <2>4. /\ \A s \in Live : new_location(s) \in 0..(nd - 1)
        /\ {new_location(s) : s \in Live} = 0..(nd - 1)
        /\ 0..(nd - 1) \subseteq Slots
    BY <1>4, CompactFacts
  <2>6. /\ Live' = 0..(nd - 1)
        /\ \A s \in Live : location_to_tag'[new_location(s)] = location_to_tag[s]
    BY <1>4, CompactFacts
  <2>7. /\ empty_slots' = [values |-> SlotsFrom(nd), bits |-> nd..(MaxPoints - 1),
                           size |-> MaxPoints]
        /\ SlotsFrom(nd) \in Seq(Slots) /\ Len(SlotsFrom(nd)) = MaxPoints - nd
        /\ Free' = nd..(MaxPoints - 1) /\ NoRepeat(SlotsFrom(nd))
    BY <1>4, CompactFacts
  <2>8. TypeOK'
    <3>1. location_to_tag' \in [Live' -> Tags] /\ Live' \subseteq Slots
      <4>1. \A n \in 0..(nd - 1) : \E s \in Live : n = new_location(s)
        BY <2>4
      <4>2. \A n \in 0..(nd - 1) : location_to_tag'[n] \in Tags
        BY <1>1, <2>6, <4>1 DEF TypeOK
      <4>3. location_to_tag' = [n \in 0..(nd - 1) |-> location_to_tag'[n]]
        BY <2>2, <2>4
      <4> QED BY <2>4, <2>6, <4>2, <4>3
    <3>2. /\ DOMAIN tag_to_location' \subseteq Tags
          /\ tag_to_location' \in [DOMAIN tag_to_location' -> Slots]
      BY <1>1, <2>1, <2>2, <2>4 DEF TypeOK, TagsInv
    <3>3. empty_slots' \in [values : Seq(Slots), bits : SUBSET Slots, size : Nat]
      <4>1. nd..(MaxPoints - 1) \in SUBSET Slots
        BY <2>1, Sizes DEF Slots
      <4> QED BY <2>7, <4>1, Sizes
    <3>4. final_graph' \in [Nodes -> SUBSET Nodes]
      <4>1. \A m \in Live \cup {Frozen} : new_location(m) \in Nodes
        BY <2>4, SlotsFinite DEF new_location
      <4>2. ASSUME NEW X PROVE {new_location(m) : m \in X \cap (Live \cup {Frozen})} \in SUBSET Nodes
        BY <4>1
      <4>3. compacted(final_graph) \in [Nodes -> SUBSET Nodes]
        <5> DEFINE from(n) == UNION {final_graph[s] : s \in {x \in Live \cup {Frozen} :
                                                            new_location(x) = n}}
        <5>1. compacted(final_graph) =
                [n \in Nodes |-> {new_location(m) : m \in from(n) \cap (Live \cup {Frozen})}]
          BY DEF compacted
        <5> HIDE DEF from
        <5> QED BY <4>2, <5>1
      <4> QED BY <2>2, <4>3
    <3>5. data' \in [Nodes -> Int]
      <4>1. \A n \in Nodes : (\E s \in Live : new_location(s) = n)
              => (CHOOSE s \in Live : new_location(s) = n) \in Nodes
        BY <1>1, SlotsFinite DEF TypeOK
      <4> QED BY <1>1, <2>2, <4>1 DEF TypeOK
    <3>6. pc' \in [Threads -> Places]
      BY <1>1, <2>2 DEF TypeOK, Places, Saves
    <3> QED BY <1>1, <2>2, <3>1, <3>2, <3>3, <3>4, <3>5, <3>6
            DEF TypeOK, locks, insertion, consolidation
  <2>9. /\ pc'[c] = "freeze" /\ \A d \in Threads : d # c => pc'[d] = "idle"
        /\ \A d \in Threads : old_delete_set'[d] = {}
    BY <1>1, <1>2, <2>2 DEF TypeOK, consolidation
  <2>10. \A d \in Threads : ThreadInv(d)' /\ SaveInv(d)'
    BY <2>2, <2>6, <2>9 DEF ThreadInv, SaveInv, Saves, Inserts
  <2>11. TagsInv'
    <3>1. ASSUME NEW t \in DOMAIN tag_to_location
          PROVE  /\ tag_to_location'[t] \in Live'
                 /\ location_to_tag'[tag_to_location'[t]] = t
      <4>1. /\ tag_to_location[t] \in Live /\ location_to_tag[tag_to_location[t]] = t
            /\ tag_to_location'[t] = new_location(tag_to_location[t])
        BY <2>1, <2>2 DEF TagsInv
      <4> QED BY ONLY <4>1, <2>4, <2>6
    <3>2. ASSUME NEW n \in Live'
          PROVE  /\ location_to_tag'[n] \in DOMAIN tag_to_location
                 /\ tag_to_location'[location_to_tag'[n]] = n
      <4>1. PICK s \in Live : n = new_location(s)
        BY <2>4, <2>6
      <4>2. location_to_tag'[n] = location_to_tag[s]
        BY <2>6, <4>1
      <4>3. /\ location_to_tag[s] \in DOMAIN tag_to_location
            /\ tag_to_location[location_to_tag[s]] = s
        BY <2>1 DEF TagsInv
      <4> QED BY <2>2, <4>1, <4>2, <4>3
    <3>3. DOMAIN tag_to_location' = DOMAIN tag_to_location
      BY <2>2
    <3> QED BY <3>1, <3>2, <3>3 DEF TagsInv
  <2>12. PlacesInv'
    <3>1. Leaving' = {} /\ delete_set' = {}
      BY <1>4, <2>2, <2>9 DEF Leaving
    <3>2. Slots = Free' \cup Live' /\ Free' \cap Live' = {}
      BY <2>1, <2>6, <2>7, Sizes DEF Slots
    <3> QED BY <2>9, <3>1, <3>2 DEF PlacesInv
  <2>13. SlotsInv'
    BY <2>1, <2>2, <2>7, <2>11, <2>12, Sizes DEF SlotsInv
  <2>14. FilesInv'
    BY <1>1, <2>2, <2>9 DEF FilesInv, stored
  <2>15. UsageInv'
    BY <2>1, <2>2, UsageKept DEF IInv
  <2> QED BY <2>2, <2>8, <2>10, <2>13, <2>14, <2>15 DEF IInv, NoFailure
<1> QED BY <1>3, <1>4

\* A point that moves leaves lists of nodes and vectors.
LEMMA MovedTypes ==
  ASSUME NEW lists \in [Nodes -> SUBSET Nodes], NEW vectors \in [Nodes -> Int],
         NEW n \in Int, NEW old \in Nodes, NEW new \in Nodes
  PROVE  /\ Moved(lists, n, old, new) \in [Nodes -> SUBSET Nodes]
         /\ MovedVector(vectors, old, new) \in [Nodes -> Int]
<1>1. ASSUME NEW m \in Nodes
      PROVE  {IF k = old THEN new ELSE k : k \in lists[m]} \in SUBSET Nodes
  OBVIOUS
<1>2. Moved(lists, n, old, new) \in [Nodes -> SUBSET Nodes]
  BY <1>1 DEF Moved
<1>3. MovedVector(vectors, old, new) \in [Nodes -> Int]
  BY DEF MovedVector, NoTag
<1> QED BY <1>2, <1>3

\* The frozen point goes behind the others, and back.
LEMMA FrozenIInv ==
  ASSUME IInv, NEW c \in Threads,
         compact_frozen_point(c) \/ reposition_frozen_point_to_end(c)
  PROVE  IInv'
<1> USE DEF At, Goto
<1>1. pc[c] \in Saves /\ TypeOK /\ FilesInv
  BY DEF compact_frozen_point, reposition_frozen_point_to_end, Saves, IInv
<1>2. /\ SaveInv(c) /\ \A d \in Threads : d # c => pc[d] = "idle"
      /\ \A d \in Threads : old_delete_set[d] = {}
  BY <1>1, SaverFacts
<1>3. nd \in 0..MaxPoints /\ nd \in Int /\ nd \in Nodes /\ Frozen \in Nodes
  BY <1>1, SlotsFinite DEF TypeOK
<1>4. CASE compact_frozen_point(c)
  <2>1. /\ pc[c] = "freeze" /\ pc' = [pc EXCEPT ![c] = "save"]
        /\ start' \in {nd, start}
        /\ \/ /\ final_graph' = Moved(final_graph, nd, Frozen, nd)
              /\ data' = MovedVector(data, Frozen, nd)
           \/ UNCHANGED <<final_graph, data>>
        /\ UNCHANGED <<conc_consolidate, slots, stored, usage, calls, failure,
                       locks, insertion, consolidation>>
    BY <1>4 DEF compact_frozen_point
  <2>2. final_graph' \in [Nodes -> SUBSET Nodes] /\ data' \in [Nodes -> Int] /\ start' \in Nodes
    <3>1. /\ final_graph \in [Nodes -> SUBSET Nodes] /\ data \in [Nodes -> Int]
          /\ start \in Nodes
      BY <1>1 DEF TypeOK
    <3>2. /\ Moved(final_graph, nd, Frozen, nd) \in [Nodes -> SUBSET Nodes]
          /\ MovedVector(data, Frozen, nd) \in [Nodes -> Int]
      BY <1>3, <3>1, MovedTypes
    <3> QED BY <1>3, <2>1, <3>1, <3>2 DEF graph
  <2>3. pc'[c] = "save" /\ \A d \in Threads : d # c => pc'[d] = "idle"
    BY <1>1, <1>2, <2>1 DEF TypeOK
  <2>4. SaveInv(c)'
    BY <1>2, <2>1, <2>3 DEF SaveInv, Saves, slots, Live
  <2>5. FilesInv'
    BY <1>1, <2>1, <2>3 DEF FilesInv, stored
  <2> QED BY <1>1, <2>1, <2>2, <2>4, <2>5, SaveStep DEF Saves, locks
<1>5. CASE reposition_frozen_point_to_end(c)
  <2>1. /\ pc[c] = "saved" /\ Return(c)
        /\ UNCHANGED <<conc_consolidate, slots, stored, usage, calls, failure>>
        /\ \/ /\ final_graph' = Moved(final_graph, nd, nd, Frozen)
              /\ data' = MovedVector(data, nd, Frozen) /\ start' = Frozen
           \/ UNCHANGED graph
    BY <1>5 DEF reposition_frozen_point_to_end
  <2>2. final_graph' \in [Nodes -> SUBSET Nodes] /\ data' \in [Nodes -> Int] /\ start' \in Nodes
    <3>1. /\ final_graph \in [Nodes -> SUBSET Nodes] /\ data \in [Nodes -> Int]
          /\ start \in Nodes
      BY <1>1 DEF TypeOK
    <3>2. /\ Moved(final_graph, nd, nd, Frozen) \in [Nodes -> SUBSET Nodes]
          /\ MovedVector(data, nd, Frozen) \in [Nodes -> Int]
      BY <1>3, <3>1, MovedTypes
    <3> QED BY <1>3, <2>1, <3>1, <3>2 DEF graph
  <2>3. \A d \in Threads : pc'[d] = "idle"
    BY <1>1, <1>2, <2>1 DEF TypeOK, Return
  <2>4. TypeOK'
    BY <1>1, <2>1, <2>2 DEF TypeOK, Return, Places, Live, slots
  <2>5. old_delete_set' = old_delete_set
    BY <1>1, <1>2, <2>1 DEF TypeOK, Return
  <2>6. \A d \in Threads : ThreadInv(d)'
    BY <1>2, <2>3, <2>5 DEF ThreadInv, Inserts, Saves
  <2>7. UsageInv'
    BY <2>1, <2>3, UsageKept DEF IInv, slots
  <2> QED BY <2>1, <2>3, <2>4, <2>5, <2>6, <2>7, LocalStep DEF IInv, NoFailure, Saves, stored
<1> QED BY <1>4, <1>5

\* The files are written one after another, and agree.
LEMMA WriteIInv ==
  ASSUME IInv, NEW c \in Threads, save_graph(c) \/ save_data(c) \/ save_tags(c)
  PROVE  IInv'
<1> USE DEF At, Goto
<1>1. pc[c] \in Saves /\ TypeOK /\ FilesInv /\ nd \in 0..MaxPoints
  BY DEF save_graph, save_data, save_tags, Saves, IInv, TypeOK
<1>2. /\ SaveInv(c) /\ \A d \in Threads : d # c => pc[d] = "idle"
  BY <1>1, SaverFacts
<1>3. \A n \in 0..nd : n \in Nodes
  BY <1>1, SlotsFinite, Sizes
<1>4. CASE save_graph(c)
  <2>1. /\ pc[c] = "save" /\ pc' = [pc EXCEPT ![c] = "save_data"]
        /\ update_writer' = c /\ consolidator' = c
        /\ files' = With(With(files, "start", start), "graph", [n \in 0..nd |-> final_graph[n]])
        /\ UNCHANGED <<conc_consolidate, slots, graph, restarts, usage, calls,
                       failure, update_readers, insertion, consolidation>>
    BY <1>4 DEF save_graph
  <2>2. pc'[c] = "save_data" /\ \A d \in Threads : d # c => pc'[d] = "idle"
    BY <1>1, <1>2, <2>1 DEF TypeOK
  <2>3. SaveInv(c)'
    BY <1>2, <2>1, <2>2 DEF SaveInv, Saves, slots, Live
  <2>4. /\ DOMAIN files' = {"start", "graph"}
        /\ files'["graph"] = [n \in 0..nd |-> final_graph[n]]
    BY <1>1, <2>1 DEF With, FilesInv
  <2>5. FilesInv'
    BY <1>1, <1>3, <2>2, <2>4 DEF FilesInv, TypeOK
  <2> QED BY <1>1, <2>1, <2>3, <2>5, SaveStep DEF Saves, graph, TypeOK
<1>5. CASE save_data(c)
  <2>1. /\ pc[c] = "save_data" /\ pc' = [pc EXCEPT ![c] = "save_tags"]
        /\ files' = With(files, "data", [n \in 0..nd |-> data[n]])
        /\ UNCHANGED <<conc_consolidate, slots, graph, restarts, usage, calls,
                       failure, locks, insertion, consolidation>>
    BY <1>5 DEF save_data
  <2>2. pc'[c] = "save_tags" /\ \A d \in Threads : d # c => pc'[d] = "idle"
    BY <1>1, <1>2, <2>1 DEF TypeOK
  <2>3. SaveInv(c)'
    BY <1>2, <2>1, <2>2 DEF SaveInv, Saves, slots, Live, locks
  <2>4. /\ DOMAIN files = {"start", "graph"}
        /\ DOMAIN files' = {"start", "graph", "data"}
        /\ files'["data"] = [n \in 0..nd |-> data[n]] /\ files'["graph"] = files["graph"]
    BY <1>1, <2>1 DEF With, FilesInv
  <2>5. FilesInv'
    BY <1>1, <1>3, <2>1, <2>2, <2>4 DEF FilesInv, TypeOK, slots
  <2> QED BY <1>1, <2>1, <2>3, <2>5, SaveStep DEF Saves, graph, locks, TypeOK
<1>6. CASE save_tags(c)
  <2>1. /\ pc[c] = "save_tags" /\ pc' = [pc EXCEPT ![c] = "saved"]
        /\ files' = With(files, "tags",
             [n \in 0..nd |-> IF n \in Live THEN location_to_tag[n] ELSE NoTag])
        /\ UNCHANGED <<conc_consolidate, slots, graph, restarts, usage, calls,
                       failure, locks, insertion, consolidation>>
    BY <1>6 DEF save_tags
  <2>2. pc'[c] = "saved" /\ \A d \in Threads : d # c => pc'[d] = "idle"
    BY <1>1, <1>2, <2>1 DEF TypeOK
  <2>3. SaveInv(c)'
    BY <1>2, <2>1, <2>2 DEF SaveInv, Saves, slots, Live, locks
  <2>4. /\ DOMAIN files = {"start", "graph", "data"} /\ DOMAIN files["data"] = 0..nd
        /\ DOMAIN files' = {"start", "graph", "data", "tags"}
        /\ files'["data"] = files["data"] /\ files'["graph"] = files["graph"]
        /\ files'["tags"] =
             [n \in 0..nd |-> IF n \in Live THEN location_to_tag[n] ELSE NoTag]
    BY <1>1, <2>1 DEF With, FilesInv
  <2>5. Live = 0..(nd - 1)
    BY <1>2, <2>1 DEF SaveInv, Saves
  <2>6. /\ DOMAIN files'["tags"] = 0..nd /\ DOMAIN files'["data"] = 0..nd
        /\ \A i \in 0..(nd - 1) : files'["tags"][i] = location_to_tag[i]
    BY <1>1, <2>4, <2>5
  <2>7. /\ \A i \in 0..(nd - 1) : location_to_tag[i] \in Tags
        /\ \A i, j \in 0..(nd - 1) : location_to_tag[i] = location_to_tag[j] => i = j
    BY <1>1, <2>5 DEF IInv, TypeOK, SlotsInv, TagsInv
  <2>8. FilesInv'
    <3>1. \E m \in 0..MaxPoints :
            /\ DOMAIN files'["tags"] = 0..m /\ DOMAIN files'["data"] = 0..m
            /\ \A i \in 0..(m - 1) : files'["tags"][i] \in Tags
            /\ \A i, j \in 0..(m - 1) : files'["tags"][i] = files'["tags"][j] => i = j
      BY <1>1, <2>6, <2>7
    <3> QED BY <1>1, <2>2, <2>4, <3>1 DEF FilesInv
  <2> QED BY <1>1, <2>1, <2>3, <2>8, SaveStep DEF Saves, graph, locks, TypeOK
<1> QED BY <1>4, <1>5, <1>6

\* A map whose values differ is undone by its inverse.
LEMMA InverseFacts ==
  ASSUME NEW S, NEW T, NEW f \in [S -> T], \A x, y \in S : f[x] = f[y] => x = y
  PROVE  /\ \A y : y \in DOMAIN AntiFunction(f) <=> \E x \in S : y = f[x]
         /\ \A x \in S : AntiFunction(f)[f[x]] = x
<1> DEFINE R == {f[x] : x \in S}
<1>1. AntiFunction(f) = [t \in R |-> CHOOSE s \in S : t \in R => f[s] = t]
  BY DEF AntiFunction, Inverse, Range
<1>2. ASSUME NEW x \in S
      PROVE  (CHOOSE s \in S : f[x] \in R => f[s] = f[x]) = x
  <2>1. \E s \in S : f[x] \in R => f[s] = f[x]
    OBVIOUS
  <2>2. f[CHOOSE s \in S : f[x] \in R => f[s] = f[x]] = f[x]
    BY <2>1
  <2> QED BY <2>1, <2>2
<1> QED BY <1>1, <1>2

\* The index that a load brings back.
Loaded(m) ==
  /\ m < MaxPoints /\ m \in Nat /\ m \in Slots /\ m \in Nodes /\ 0..(m - 1) \subseteq Slots
  /\ Slots = (0..(m - 1)) \cup (m..(MaxPoints - 1)) /\ m..(MaxPoints - 1) \in SUBSET Slots
  /\ DOMAIN files["tags"] = 0..m /\ DOMAIN files["data"] = 0..m
  /\ nd' = m /\ delete_set' = {} /\ data_compacted'
  /\ final_graph' = Moved(load_graph, m, m, Frozen)
  /\ data' = MovedVector(load_data, m, Frozen)
  /\ start' = Frozen /\ usage' = "enabled"
  /\ update_readers' = {} /\ update_writer' = Nobody /\ consolidator' = Nobody
  /\ pc' = [c \in Threads |-> "idle"]
  /\ tag' = [c \in Threads |-> NoTag] /\ location' = [c \in Threads |-> NoSlot]
  /\ pruned_list' = [c \in Threads |-> {}] /\ des' = [c \in Threads |-> NoSlot]
  /\ copy_of_neighbors' = [c \in Threads |-> {}]
  /\ old_delete_set' = [c \in Threads |-> {}] /\ unscanned' = [c \in Threads |-> {}]
  /\ UNCHANGED <<failure, files, conc_consolidate>>
  /\ Live' = 0..(m - 1) /\ location_to_tag' \in [0..(m - 1) -> Tags]
  /\ \A s \in 0..(m - 1) : location_to_tag'[s] = files["tags"][s]
  /\ tag_to_location' = AntiFunction(location_to_tag')
  /\ \A y : y \in DOMAIN tag_to_location' <=> \E s \in 0..(m - 1) : y = location_to_tag'[s]
  /\ \A s \in 0..(m - 1) : tag_to_location'[location_to_tag'[s]] = s
  /\ empty_slots' = [values |-> SlotsFrom(m), bits |-> m..(MaxPoints - 1), size |-> MaxPoints]
  /\ SlotsFrom(m) \in Seq(Slots) /\ Len(SlotsFrom(m)) = MaxPoints - m
  /\ Free' = m..(MaxPoints - 1) /\ NoRepeat(SlotsFrom(m))

\* What a new process finds is an index in order, with as many points as the
\* files say.
LEMMA LoadFacts ==
  ASSUME IInv, load, DOMAIN files = {"graph", "start", "data", "tags"}
  PROVE  \E m \in 0..MaxPoints : Loaded(m)
<1>1. PICK m \in 0..MaxPoints :
        /\ DOMAIN files["tags"] = 0..m /\ DOMAIN files["data"] = 0..m
        /\ \A i \in 0..(m - 1) : files["tags"][i] \in Tags
        /\ \A i, j \in 0..(m - 1) : files["tags"][i] = files["tags"][j] => i = j
  BY DEF IInv, FilesInv
<1>2. m \in Nat /\ Cardinality(DOMAIN files["data"]) - 1 = m
  <2>1. m \in Nat /\ m + 1 \in Nat /\ (m + 1) - 1 = m
    BY Sizes
  <2>2. Cardinality(0..((m + 1) - 1)) = m + 1
    BY <2>1, FirstNumbers
  <2> QED BY <1>1, <2>1, <2>2
<1>3. /\ m < MaxPoints /\ nd' = m
      /\ empty_slots' = InsertAll(NoNumbers, SlotsFrom(m)) /\ delete_set' = {}
      /\ location_to_tag' = load_tags /\ tag_to_location' = AntiFunction(location_to_tag')
      /\ data_compacted'
      /\ final_graph' = Moved(load_graph, m, m, Frozen)
      /\ data' = MovedVector(load_data, m, Frozen)
      /\ start' = Frozen /\ usage' = "enabled"
      /\ update_readers' = {} /\ update_writer' = Nobody /\ consolidator' = Nobody
      /\ pc' = [c \in Threads |-> "idle"]
      /\ tag' = [c \in Threads |-> NoTag] /\ location' = [c \in Threads |-> NoSlot]
      /\ pruned_list' = [c \in Threads |-> {}] /\ des' = [c \in Threads |-> NoSlot]
      /\ copy_of_neighbors' = [c \in Threads |-> {}]
      /\ old_delete_set' = [c \in Threads |-> {}] /\ unscanned' = [c \in Threads |-> {}]
      /\ UNCHANGED <<failure, files, conc_consolidate>>
  BY <1>2 DEF load, IInv, UsageInv, UsedAsMeant
<1>4. /\ m \in Slots /\ 0..(m - 1) \subseteq Slots /\ m \in Nodes
      /\ Slots = (0..(m - 1)) \cup (m..(MaxPoints - 1))
      /\ m..(MaxPoints - 1) \in SUBSET Slots
  BY <1>2, <1>3, Sizes, SlotsFinite DEF Slots
<1>5. /\ Live' = 0..(m - 1) /\ location_to_tag' \in [0..(m - 1) -> Tags]
      /\ \A i, j \in 0..(m - 1) : location_to_tag'[i] = location_to_tag'[j] => i = j
      /\ \A s \in 0..(m - 1) : location_to_tag'[s] = files["tags"][s]
  <2>1. \A x \in 0..m : x + 1 \in 0..m <=> x \in 0..(m - 1)
    BY <1>2
  <2>2. \A x \in 0..(m - 1) : x \in 0..m
    BY <1>2
  <2>3. {x \in DOMAIN files["tags"] : x + 1 \in DOMAIN files["tags"]} = 0..(m - 1)
    BY <1>1, <2>1, <2>2
  <2>4. location_to_tag' = [s \in 0..(m - 1) |-> files["tags"][s]]
    BY <1>3, <2>3 DEF load_tags
  <2> QED BY <1>1, <2>4 DEF Live
<1>6. /\ \A y : y \in DOMAIN tag_to_location'
                 <=> \E s \in 0..(m - 1) : y = location_to_tag'[s]
      /\ \A s \in 0..(m - 1) : tag_to_location'[location_to_tag'[s]] = s
  <2> DEFINE f == location_to_tag'
  <2> HIDE DEF f
  <2>1. f \in [0..(m - 1) -> Tags] /\ \A i, j \in 0..(m - 1) : f[i] = f[j] => i = j
    BY <1>5 DEF f
  <2>2. /\ \A y : y \in DOMAIN AntiFunction(f) <=> \E s \in 0..(m - 1) : y = f[s]
        /\ \A s \in 0..(m - 1) : AntiFunction(f)[f[s]] = s
    BY ONLY <2>1, InverseFacts
  <2> QED BY <1>3, <2>2 DEF f
<1>7. /\ empty_slots' = [values |-> SlotsFrom(m), bits |-> m..(MaxPoints - 1),
                         size |-> MaxPoints]
      /\ SlotsFrom(m) \in Seq(Slots) /\ Len(SlotsFrom(m)) = MaxPoints - m
      /\ Free' = m..(MaxPoints - 1) /\ NoRepeat(SlotsFrom(m))
  BY <1>3, <1>4, SlotsFromFacts DEF Free
<1> QED BY <1>2, <1>3, <1>4, <1>5, <1>6, <1>7, <1>1 DEF Loaded

\* So that every slot is in its place.
LEMMA LoadIInv ==
  ASSUME IInv, load
  PROVE  IInv'
<1>1. TypeOK /\ SlotsInv /\ FilesInv /\ UsageInv
  BY DEF IInv
<1>2. CASE DOMAIN files # {"graph", "start", "data", "tags"}
  <2>1. /\ failure' = "not_loaded"
        /\ UNCHANGED <<conc_consolidate, slots, graph, usage, locks, pc, insertion,
                       consolidation, files>>
    BY <1>2 DEF load
  <2>2. TypeOK'
    BY <1>1, <2>1 DEF TypeOK, Live, slots, graph, locks, insertion, consolidation
  <2>3. \A c \in Threads : ThreadInv(c)' /\ SaveInv(c)'
    BY <2>1 DEF IInv, ThreadInv, SaveInv, Live, slots, locks, insertion, consolidation
  <2>4. SlotsInv'
    BY <1>1, <2>1, SlotsKept DEF consolidation
  <2>5. FilesInv'
    BY <1>1, <2>1 DEF FilesInv, slots
  <2>6. UsageInv'
    BY <1>1, <2>1, UsageKept DEF slots, insertion
  <2> QED BY <2>1, <2>2, <2>3, <2>4, <2>5, <2>6 DEF IInv, NoFailure
<1>3. CASE DOMAIN files = {"graph", "start", "data", "tags"}
  <2>1. PICK m \in 0..MaxPoints : Loaded(m)
    BY <1>3, LoadFacts
  <2> USE <2>1 DEF Loaded
  <2>2. TypeOK'
    <3>1. /\ DOMAIN tag_to_location' \subseteq Tags
          /\ tag_to_location' \in [DOMAIN tag_to_location' -> Slots]
      <4>1. DOMAIN tag_to_location' \subseteq Tags
        OBVIOUS
      <4>2. \A t \in DOMAIN tag_to_location' : tag_to_location'[t] \in Slots
        OBVIOUS
      <4>3. tag_to_location' = [t \in DOMAIN tag_to_location' |-> tag_to_location'[t]]
        BY DEF AntiFunction, Inverse
      <4> QED BY <4>1, <4>2, <4>3
    <3>2. location_to_tag' \in [Live' -> Tags] /\ Live' \subseteq Slots
      OBVIOUS
    <3>3. empty_slots' \in [values : Seq(Slots), bits : SUBSET Slots, size : Nat]
      BY Sizes
    <3>4. final_graph' \in [Nodes -> SUBSET Nodes] /\ data' \in [Nodes -> Int]
      <4>1. \A n \in DOMAIN files["graph"] : files["graph"][n] \in SUBSET Nodes
        BY <1>1, <1>3 DEF FilesInv
      <4>2. load_graph \in [Nodes -> SUBSET Nodes]
        BY <4>1 DEF load_graph
      <4>3. load_data \in [Nodes -> Int]
        <5>1. \A n \in DOMAIN files["data"] : files["data"][n] \in Int
          BY <1>1, <1>3 DEF FilesInv
        <5>2. NoTag \in Int
          BY DEF NoTag
        <5> QED BY ONLY <5>1, <5>2 DEF load_data
      <4>4. /\ Moved(load_graph, m, m, Frozen) \in [Nodes -> SUBSET Nodes]
            /\ MovedVector(load_data, m, Frozen) \in [Nodes -> Int]
        <5>1. m \in Int /\ m \in Nodes /\ Frozen \in Nodes
          BY SlotsFinite
        <5> HIDE DEF load_graph, load_data
        <5> QED BY <4>2, <4>3, <5>1, MovedTypes
      <4> QED BY <4>4
    <3> QED BY <3>1, <3>2, <3>3, <3>4, SlotsFinite, Sizes DEF TypeOK, Places
  <2>3. \A c \in Threads : ThreadInv(c)' /\ SaveInv(c)'
    BY DEF ThreadInv, SaveInv, Inserts, Saves
  <2>4. TagsInv'
    BY DEF TagsInv
  <2>5. PlacesInv'
    <3>1. Leaving' = {}
      BY DEF Leaving
    <3>2. Free' \cap Live' = {}
      BY Sizes
    <3> QED BY <3>1, <3>2 DEF PlacesInv
  <2>6. SlotsInv'
    BY <2>4, <2>5, Sizes DEF SlotsInv
  <2>7. FilesInv'
    <3>1. \A c \in Threads : pc'[c] = "idle"
      OBVIOUS
    <3> QED BY <1>1, <3>1 DEF FilesInv
  <2>8. UsageInv'
    BY DEF UsageInv
  <2> QED BY <2>2, <2>3, <2>6, <2>7, <2>8 DEF IInv, NoFailure
<1> QED BY <1>2, <1>3

-----------------------------------------------------------------------------
\* Every step preserves the inductive invariant, unless it is a call that is not
\* meant to be made.
LEMMA NextIInv ==
  ASSUME ~SavesWithHoles, IInv, [Next]_vars, UsedAsMeant'
  PROVE  IInv'
<1>1. ASSUME UNCHANGED vars PROVE IInv'
  <2>1. TypeOK' /\ FilesInv' /\ NoFailure' /\ UsageInv'
    BY <1>1 DEF IInv, TypeOK, FilesInv, NoFailure, UsageInv, Live, vars, slots, graph, stored,
                locks, insertion, consolidation
  <2>2. \A c \in Threads : ThreadInv(c)' /\ SaveInv(c)'
    BY <1>1 DEF IInv, ThreadInv, SaveInv, Live, vars, slots, graph, stored, locks, insertion,
                consolidation
  <2>3. SlotsInv'
    BY <1>1, SlotsKept DEF IInv, vars, consolidation
  <2> QED BY <2>1, <2>2, <2>3 DEF IInv
<1>2. ASSUME NEW c \in Threads, Insertion(c) PROVE IInv'
  <2>1. CASE ReturnInsert(c)
    <3>1. pc[c] = "back"
      BY <2>1 DEF ReturnInsert, At
    <3>2. \A d \in Threads : pc[d] \notin Saves
      BY <3>1, AtWork DEF Saves
    <3> QED BY <2>1, <3>1, <3>2, ReturnIInv DEF ReturnInsert, IInv, NoFailure
  <2> QED BY <1>2, <2>1, InsertPointIInv, ReserveIInv, NotReservedIInv, FillIInv DEF Insertion
<1>3. ASSUME NEW c \in Threads, Consolidation(c) PROVE IInv'
  BY <1>3, LockIInv, TakeIInv, ScanIInv, ReleaseIInv DEF Consolidation
<1>4. ASSUME NEW c \in Threads, Saving(c) PROVE IInv'
  BY <1>4, SaveIInv, CompactIInv, FrozenIInv, WriteIInv DEF Saving
<1> QED BY <1>1, <1>2, <1>3, <1>4, EnableIInv, DeleteIInv, LoadIInv DEF Next, Stopped

\* A call that was not meant to be made is not forgotten.
LEMMA MisuseStays ==
  ASSUME ~UsedAsMeant, [Next]_vars
  PROVE  ~UsedAsMeant'
<1> USE DEF UsedAsMeant
<1>1. ASSUME NEW c \in Threads, Insertion(c) PROVE usage' = usage
  BY <1>1 DEF Insertion, insert_point, Reserve, ReserveFull, ReserveDuplicate, WriteVector,
              FindNeighbors, LinkPoint, LinkBack, PruneBack, ReturnInsert
<1>2. ASSUME NEW c \in Threads, Consolidation(c) PROVE usage' = usage
  BY <1>2 DEF Consolidation, consolidate_deletes, NeedsFreeSlots, ExcludeUpdates,
              TryConsolidate, TakeDeleted, ProcessDelete, ReleaseDeleted
<1>3. ASSUME NEW c \in Threads, Saving(c) PROVE usage' = usage
  BY <1>3 DEF Saving, save, compact_data, compact_frozen_point, save_graph, save_data,
              save_tags, reposition_frozen_point_to_end
<1>4. ASSUME NEW c \in Threads, NEW tags, enable_delete(c) \/ lazy_delete(c, tags)
      PROVE  usage' = usage
  BY <1>4 DEF enable_delete, lazy_delete, NeedsFreeSlots
<1>5. CASE load
  BY <1>5 DEF load
<1> QED BY <1>1, <1>2, <1>3, <1>4, <1>5 DEF Next, Stopped, vars

\* So that what a step keeps while the calls are meant to be made holds as long as
\* they are.
LEMMA WhileUsedAsMeant ==
  ASSUME [Next]_vars, UsedAsMeant'
  PROVE  UsedAsMeant
BY MisuseStays

\* The inductive invariant holds in every state of an index that is used as it is
\* meant to be, and saved without gaps.
THEOREM Invariance ==
  ASSUME ~SavesWithHoles
  PROVE  Spec => [](UsedAsMeant => IInv)
<1>1. Init => (UsedAsMeant => IInv)
  BY InitIInv
<1>2. (UsedAsMeant => IInv) /\ [Next]_vars => (UsedAsMeant => IInv)'
  BY NextIInv, WhileUsedAsMeant
<1> QED BY <1>1, <1>2, PTL DEF Spec

\* Every variable keeps its type: nothing is stored beyond the slots, however the
\* calls interleave (src/index.cpp).
THEOREM TypeCorrect ==
  ASSUME ~SavesWithHoles
  PROVE  Spec => [](UsedAsMeant => TypeOK)
<1>1. IInv => TypeOK
  BY DEF IInv
<1> QED BY <1>1, Invariance, PTL

\* Where enable_delete is called as it is meant to be, no call meets an exception
\* of the slot book-keeping (natural_number_set, reserve_location,
\* release_location, the checks of consolidate_deletes), or tests a bit that is
\* not there, however the calls interleave.  The hypothesis is on the calls that
\* were made, none of which the code refuses.
THEOREM NoCheckFails ==
  ASSUME ~SavesWithHoles
  PROVE  Spec => []ChecksPass
<1>1. (UsedAsMeant => IInv) => ChecksPass
  BY DEF IInv, NoFailure, ChecksPass
<1> QED BY <1>1, Invariance, PTL

\* The sizes of disjoint finite sets add up.
LEMMA DisjointSum ==
  ASSUME NEW A, NEW B, IsFiniteSet(A), IsFiniteSet(B), A \cap B = {}
  PROVE  /\ IsFiniteSet(A \cup B)
         /\ Cardinality(A \cup B) = Cardinality(A) + Cardinality(B)
         /\ Cardinality(A) \in Nat /\ Cardinality(B) \in Nat
<1>1. /\ IsFiniteSet(A \cup B)
      /\ Cardinality(A \cup B) = Cardinality(A) + Cardinality(B) - Cardinality({})
  BY FS_Union
<1>2. Cardinality({}) = 0 /\ Cardinality(A) \in Nat /\ Cardinality(B) \in Nat
  BY FS_EmptySet, FS_CardinalityType
<1> QED BY <1>1, <1>2

\* Once the free slots are entered, every slot is in one place and counted there,
\* and before the points are in the first slots; and the tag maps of Index are
\* each other's inverse, whatever insertions, deletions, consolidations,
\* compactions and loads come in which order, if the index is used as it is meant
\* to be (src/index.cpp: _empty_slots, _delete_set, _nd, _tag_to_location).
THEOREM SlotsStayAccounted ==
  ASSUME ~SavesWithHoles
  PROVE  Spec => []SlotsAccounted
<1>1. ASSUME IInv PROVE SlotsAccounted
  <2>1. TypeOK /\ SlotsInv /\ TagsInv
    BY <1>1 DEF IInv, SlotsInv
  <2>2. ASSUME usage = "enabled"
        PROVE  /\ Free \cup Live \cup delete_set \cup Leaving = Slots
               /\ Len(empty_slots.values) + SizeOf(location_to_tag) + Cardinality(delete_set)
                    + Cardinality(Leaving) = MaxPoints
               /\ \A c, d \in Threads : c # d => old_delete_set[c] \cap old_delete_set[d] = {}
               /\ Len(empty_slots.values) + nd = MaxPoints
               /\ empty_slots.bits = Free
    <3>1. /\ PlacesInv /\ NoRepeat(empty_slots.values) /\ empty_slots.values \in Seq(Slots)
          /\ empty_slots.bits = Free /\ Len(empty_slots.values) + nd = MaxPoints
      BY <2>1, <2>2 DEF SlotsInv, TypeOK
    <3>2. /\ Slots = Free \cup Live \cup delete_set \cup Leaving
          /\ Free \cap Live = {} /\ (Free \cup Live) \cap delete_set = {}
          /\ (Free \cup Live \cup delete_set) \cap Leaving = {}
      BY <3>1 DEF PlacesInv, Leaving
    <3>3. IsFiniteSet(Free) /\ Cardinality(Free) = Len(empty_slots.values)
      BY <3>1, NoRepeatCount DEF Free
    <3>4. IsFiniteSet(Live) /\ IsFiniteSet(delete_set) /\ IsFiniteSet(Leaving)
      <4>1. Live \in SUBSET Slots /\ delete_set \in SUBSET Slots /\ Leaving \in SUBSET Slots
        BY <3>2
      <4> QED BY <4>1, SlotsFinite, FS_Subset
    <3>5. /\ IsFiniteSet(Free \cup Live)
          /\ Cardinality(Free \cup Live) = Cardinality(Free) + Cardinality(Live)
          /\ Cardinality(Free) \in Nat /\ Cardinality(Live) \in Nat
      BY <3>2, <3>3, <3>4, DisjointSum
    <3>6. /\ IsFiniteSet(Free \cup Live \cup delete_set)
          /\ Cardinality(Free \cup Live \cup delete_set)
               = Cardinality(Free \cup Live) + Cardinality(delete_set)
          /\ Cardinality(delete_set) \in Nat
      BY <3>2, <3>4, <3>5, DisjointSum
    <3>7. /\ Cardinality(Slots)
               = Cardinality(Free \cup Live \cup delete_set) + Cardinality(Leaving)
          /\ Cardinality(Leaving) \in Nat
      BY <3>2, <3>4, <3>6, DisjointSum
    <3>8. SizeOf(location_to_tag) = Cardinality(Live)
      BY DEF SizeOf, Live
    <3> QED BY <3>1, <3>2, <3>3, <3>5, <3>6, <3>7, <3>8, SlotsFinite DEF PlacesInv
  <2>3. usage = "built" => Live = 0..(nd - 1) /\ Free = {}
    BY <2>1 DEF SlotsInv, Free, NoNumbers, ToSet
  <2> QED BY <2>1, <2>2, <2>3 DEF SlotsAccounted, TagsInv
<1>2. (UsedAsMeant => IInv) => SlotsAccounted
  BY <1>1 DEF SlotsAccounted
<1> QED BY <1>2, Invariance, PTL
-----------------------------------------------------------------------------
(***************************************************************************)
(* The graph and the vectors.                                              *)
(***************************************************************************)
\* The graph that the index is built with respects the slack.
BuiltInSlack == \A n \in StartPoints : \A m \in Nodes : Cardinality(StartGraph(n)[m]) <= SlackRange

\* The lists to be written respect the slack too: those of the points being
\* linked, and those in the files.
DegreeInv ==
  /\ DegreeBounded
  /\ \A c \in Threads : pc[c] = "link" => Cardinality(pruned_list[c]) <= SlackRange
  /\ "graph" \in DOMAIN files =>
       \A n \in DOMAIN files["graph"] : Cardinality(files["graph"][n]) <= SlackRange

\* An insertion shares the update lock, which a consolidation without the
\* concurrent mode holds alone.
LockInv ==
  /\ \A c \in Threads : pc[c] \in Inserts \cup {"reserve"} => c \in update_readers
  /\ update_writer # Nobody => update_readers = {}
  /\ ~conc_consolidate => \A c \in Threads : pc[c] \in {"try", "swap", "scan"} => update_writer = c

\* A slot that is being filled is nobody else's, not free, and keeps the tag and the vector
\* of the insertion unless the tag is deleted; the files agree on the vectors.
OwnInv ==
  /\ \A c \in Threads :
       /\ location[c] # NoSlot <=> pc[c] \in Inserts
       /\ pc[c] \in Inserts =>
            /\ location[c] \notin Free
            /\ usage = "built" => location[c] \in Live
            /\ \A d \in Threads \ {c} : pc[d] \in Inserts => location[d] # location[c]
            /\ location[c] \in Live => location_to_tag[location[c]] = tag[c]
            /\ pc[c] # "write" => data[location[c]] = tag[c]
  /\ SlotKeepsVector
  /\ \A c \in Threads : pc[c] = "save_tags" =>
       \A s \in 0..(nd - 1) : files["data"][s] = location_to_tag[s]
  /\ "tags" \in DOMAIN files =>
       \A m \in 0..MaxPoints : DOMAIN files["tags"] = 0..m =>
         \A s \in 0..(m - 1) : files["data"][s] = files["tags"][s]

VectorsKept == LockInv /\ (~conc_consolidate => OwnInv)

-----------------------------------------------------------------------------
\* A set whose members are values of f on S is no greater than S.
LEMMA ImageBound ==
  ASSUME NEW S, IsFiniteSet(S), NEW T, NEW f, \A y \in T : \E x \in S : y = f[x]
  PROVE  IsFiniteSet(T) /\ Cardinality(T) <= Cardinality(S)
<1> DEFINE R == {x \in S : f[x] \in T}
           g == [x \in R |-> f[x]]
<1>1. IsFiniteSet(R) /\ Cardinality(R) <= Cardinality(S)
  BY FS_Subset
<1>2. g \in Surjection(R, T)
  BY DEF Surjection
<1>3. IsFiniteSet(T) /\ Cardinality(T) <= Cardinality(R)
  BY <1>1, <1>2, FS_Surjection
<1>4. Cardinality(S) \in Nat /\ Cardinality(R) \in Nat /\ Cardinality(T) \in Nat
  BY <1>1, <1>3, FS_CardinalityType
<1> QED BY <1>1, <1>3, <1>4

\* Sets of nodes are finite, and a part is no greater than the whole.
LEMMA NodeSets ==
  ASSUME NEW S \in SUBSET Nodes
  PROVE  /\ IsFiniteSet(S) /\ Cardinality(S) \in Nat
         /\ \A T \in SUBSET S : Cardinality(T) <= Cardinality(S)
BY SlotsFinite, FS_Subset, FS_CardinalityType

\* Pruning respects the degree bound.
LEMMA PrunedBound ==
  ASSUME NEW S, NEW p \in Pruned(S)
  PROVE  p \in SUBSET S /\ Cardinality(p) <= IndexingRange
BY DEF Pruned

\* So do the first points and the frozen one.
LEMMA FirstPointsBound ==
  ASSUME Live \in SUBSET Slots
  PROVE  FirstPoints \in SUBSET Nodes /\ Cardinality(FirstPoints) <= IndexingRange
<1> DEFINE F == {s \in Live : new_location(s) < IndexingRange - 1}
           f == [s \in F |-> new_location(s)]
           B == 0..((IndexingRange - 1) - 1)
<1> USE SlotsFinite, Sizes
<1>1. /\ \A s \in Live : new_location(s) \in 0..(Cardinality(Live) - 1)
      /\ \A s, t \in Live : new_location(s) = new_location(t) => s = t
      /\ Cardinality(Live) \in Nat
  BY NewLocations
<1>2. \A s \in F : new_location(s) \in B
  BY <1>1
<1>3. f \in Injection(F, B)
  BY <1>1, <1>2 DEF Injection, IsInjective
<1>4. IsFiniteSet(B) /\ Cardinality(B) = IndexingRange - 1
  <2>1. IndexingRange - 1 \in Nat
    OBVIOUS
  <2> QED BY <2>1, FirstNumbers
<1>5. IsFiniteSet(F) /\ Cardinality(F) <= IndexingRange - 1
  BY <1>3, <1>4, FS_Injection
<1>6. /\ Cardinality(F \cup {Frozen}) =
           IF Frozen \in F THEN Cardinality(F) ELSE Cardinality(F) + 1
      /\ Cardinality(F) \in Nat
  <2> HIDE DEF F
  <2>1. Cardinality(F) \in Nat
    BY <1>5, FS_CardinalityType
  <2>2. Cardinality(F \cup {Frozen}) =
          IF Frozen \in F THEN Cardinality(F) ELSE Cardinality(F) + 1
    BY <1>5, FS_AddElement
  <2> QED BY <2>1, <2>2
<1>7. FirstPoints = F \cup {Frozen} /\ FirstPoints \in SUBSET Nodes
  BY DEF FirstPoints
<1> HIDE DEF F
<1> QED BY <1>5, <1>6, <1>7

\* A point that moves takes its list along, and no list gets longer.
LEMMA MovedBound ==
  ASSUME NEW lists \in [Nodes -> SUBSET Nodes], NEW n \in Int,
         NEW old \in Nodes, NEW new \in Nodes,
         \A m \in Nodes : Cardinality(lists[m]) <= SlackRange
  PROVE  \A m \in Nodes : Cardinality(Moved(lists, n, old, new)[m]) <= SlackRange
<1> USE Sizes
<1> SUFFICES ASSUME NEW m \in Nodes
             PROVE  Cardinality(Moved(lists, n, old, new)[m]) <= SlackRange
  OBVIOUS
<1> DEFINE f == [k \in Nodes |-> IF k = old THEN new ELSE k]
           T == {IF k = old THEN new ELSE k : k \in lists[m]}
<1>1. Moved(lists, n, old, new)[m] \in {lists[old], {}, T, lists[m]}
  BY DEF Moved
<1>2. Cardinality({}) <= SlackRange
  BY FS_EmptySet
<1>3. Cardinality(T) <= SlackRange
  <2>1. \A y \in T : \E x \in lists[m] : y = f[x]
    OBVIOUS
  <2>2. IsFiniteSet(lists[m]) /\ Cardinality(lists[m]) \in Nat
    BY NodeSets
  <2>3. IsFiniteSet(T) /\ Cardinality(T) <= Cardinality(lists[m])
    <3> HIDE DEF T, f
    <3> QED BY <2>1, <2>2, ImageBound
  <2>4. Cardinality(T) \in Nat
    BY <2>3, FS_CardinalityType
  <2> QED BY <2>2, <2>3, <2>4
<1> QED BY <1>1, <1>2, <1>3

\* Nor does a compaction make a list longer: at most one point goes to a slot.
LEMMA CompactedBound ==
  ASSUME NEW lists \in [Nodes -> SUBSET Nodes], Live \in SUBSET Slots,
         \A m \in Nodes : Cardinality(lists[m]) <= SlackRange
  PROVE  \A n \in Nodes : Cardinality(compacted(lists)[n]) <= SlackRange
<1> USE Sizes, SlotsFinite
<1> SUFFICES ASSUME NEW n \in Nodes PROVE Cardinality(compacted(lists)[n]) <= SlackRange
  OBVIOUS
<1> DEFINE L == Live \cup {Frozen}
           there == {x \in L : new_location(x) = n}
           from == (UNION {lists[s] : s \in there}) \cap L
           T == {new_location(m) : m \in from}
           f == [x \in L |-> new_location(x)]
<1>1. compacted(lists)[n] = T
  BY DEF compacted
<1>2. \A x, y \in there : x = y
  <2>1. \A s, t \in Live : new_location(s) = new_location(t) => s = t
    BY NewLocations
  <2>2. \A s \in Live : new_location(s) # Frozen
    <3>1. \A s \in Live : new_location(s) \in 0..(Cardinality(Live) - 1)
      BY NewLocations
    <3>2. Cardinality(Live) <= MaxPoints /\ Cardinality(Live) \in Nat
      BY NewLocations, FS_Subset
    <3> QED BY <3>1, <3>2 DEF Frozen
  <2>3. new_location(Frozen) = Frozen
    BY DEF new_location
  <2> QED BY <2>1, <2>2, <2>3
<1>3. IsFiniteSet(from) /\ Cardinality(from) <= SlackRange /\ Cardinality(from) \in Nat
  <2>1. CASE there = {}
    <3>1. from = {}
      BY <2>1
    <3>2. IsFiniteSet({}) /\ Cardinality({}) = 0
      BY FS_EmptySet
    <3> HIDE DEF from
    <3> QED BY <3>1, <3>2
  <2>2. CASE there # {}
    <3>1. PICK s \in there : TRUE
      BY <2>2
    <3>2. from \in SUBSET lists[s] /\ s \in Nodes
      BY <1>2, <3>1
    <3>3. Cardinality(from) <= Cardinality(lists[s]) /\ Cardinality(lists[s]) \in Nat
      BY <3>2, NodeSets
    <3>4. from \in SUBSET Nodes
      BY <3>2
    <3>5. IsFiniteSet(from) /\ Cardinality(from) \in Nat
      <4> HIDE DEF from
      <4> QED BY <3>4, NodeSets
    <3> QED BY <3>2, <3>3, <3>5
  <2> QED BY <2>1, <2>2
<1>4. IsFiniteSet(T) /\ Cardinality(T) <= Cardinality(from)
  <2>1. \A y \in T : \E x \in from : y = f[x]
    OBVIOUS
  <2> HIDE DEF T, f, from
  <2> QED BY <1>3, <2>1, ImageBound
<1>5. Cardinality(T) \in Nat
  BY <1>4, FS_CardinalityType
<1> HIDE DEF T, from
<1> QED BY <1>1, <1>3, <1>4, <1>5

-----------------------------------------------------------------------------
\* A step that changes no list, in the index or in the files, and chooses no
\* neighbours.
LEMMA ListsKept ==
  ASSUME DegreeInv, UNCHANGED <<final_graph, files>>,
         \A d \in Threads : pc'[d] = "link" => /\ pc[d] = "link"
                                               /\ pruned_list'[d] = pruned_list[d]
  PROVE  DegreeInv'
BY DEF DegreeInv, DegreeBounded

\* A list of a node is replaced.
LEMMA ListReplaced ==
  ASSUME TypeOK, DegreeInv, NEW n, NEW g, Cardinality(g) <= SlackRange,
         final_graph' = [final_graph EXCEPT ![n] = g]
  PROVE  DegreeBounded'
BY DEF TypeOK, DegreeInv, DegreeBounded

\* The lists that an insertion chooses and writes respect the bound.
LEMMA InsertionDegree ==
  ASSUME IInv, DegreeInv, NEW c \in Threads, Insertion(c)
  PROVE  DegreeInv'
<1> USE Sizes, SlotsFinite DEF IInv, At, Goto
<1>1. TypeOK /\ Live \in SUBSET Slots
  BY DEF TypeOK
<1>2. CASE FindNeighbors(c)
  <2>1. PICK p : pruned_list' = [pruned_list EXCEPT ![c] = p] /\ Cardinality(p) <= SlackRange
    <3>1. \A p \in Pruned(Reach \ ({location[c]} \cup delete_set)) : Cardinality(p) <= SlackRange
      <4>1. ASSUME NEW p \in Pruned(Reach \ ({location[c]} \cup delete_set))
            PROVE  Cardinality(p) <= SlackRange
        <5>1. p \in SUBSET Nodes /\ Cardinality(p) <= IndexingRange
          BY PrunedBound DEF Reach
        <5> QED BY <5>1, NodeSets
      <4> QED BY <4>1
    <3>2. Cardinality(FirstPoints) <= SlackRange
      BY <1>1, FirstPointsBound, NodeSets
    <3> QED BY <1>2, <3>1, <3>2 DEF FindNeighbors
  <2>2. /\ pc' = [pc EXCEPT ![c] = "link"] /\ UNCHANGED <<final_graph, files>>
    BY <1>2 DEF FindNeighbors, graph, stored
  <2> QED BY <1>1, <2>1, <2>2 DEF DegreeInv, DegreeBounded, TypeOK
<1>3. CASE LinkPoint(c)
  <2> DEFINE g == {n \in pruned_list[c] : conc_consolidate => n \in DOMAIN location_to_tag}
  <2>1. /\ final_graph' = [final_graph EXCEPT ![location[c]] = g]
        /\ pc[c] = "link" /\ pc' = [pc EXCEPT ![c] = "back"]
        /\ pruned_list' = pruned_list /\ files' = files
    BY <1>3 DEF LinkPoint, stored, insertion
  <2>2. Cardinality(g) <= SlackRange
    <3>1. /\ pruned_list[c] \in SUBSET Nodes /\ Cardinality(pruned_list[c]) <= SlackRange
          /\ g \in SUBSET pruned_list[c] /\ g \in SUBSET Nodes
      BY <1>1, <2>1 DEF TypeOK, DegreeInv
    <3> HIDE DEF g
    <3>2. Cardinality(g) <= Cardinality(pruned_list[c]) /\ Cardinality(g) \in Nat
          /\ Cardinality(pruned_list[c]) \in Nat
      BY <3>1, NodeSets
    <3> QED BY <3>1, <3>2
  <2>3. DegreeBounded'
    <3> HIDE DEF g
    <3> QED BY <1>1, <2>1, <2>2, ListReplaced
  <2> QED BY <1>1, <2>1, <2>3 DEF DegreeInv, TypeOK
<1>4. ASSUME NEW n \in Nodes, LinkBack(c, n) PROVE DegreeInv'
  <2>1. /\ pc[c] = "back" /\ files' = files
        /\ \A d \in Threads \ {c} : pc'[d] = pc[d] /\ pruned_list'[d] = pruned_list[d]
        /\ pc'[c] # "link"
    <3>1. \/ UNCHANGED pc
          \/ pc' = [pc EXCEPT ![c] = "prune"]
      BY <1>4 DEF LinkBack
    <3>2. \/ UNCHANGED pruned_list
          \/ pruned_list' = [pruned_list EXCEPT ![c] = @ \ {n}]
      BY <1>4 DEF LinkBack
    <3> QED BY <1>1, <1>4, <3>1, <3>2 DEF LinkBack, stored, TypeOK
  <2>2. CASE final_graph' = final_graph
    BY <2>1, <2>2, ListsKept
  <2>3. CASE /\ Cardinality(final_graph[n]) < SlackRange
             /\ final_graph' = [final_graph EXCEPT ![n] = @ \cup {location[c]}]
    <3>1. Cardinality(final_graph[n] \cup {location[c]}) <= SlackRange
      <4>1. IsFiniteSet(final_graph[n]) /\ Cardinality(final_graph[n]) \in Nat
        BY <1>1, NodeSets DEF TypeOK
      <4>2. Cardinality(final_graph[n] \cup {location[c]})
              = IF location[c] \in final_graph[n] THEN Cardinality(final_graph[n])
                ELSE Cardinality(final_graph[n]) + 1
        BY <4>1, FS_AddElement
      <4> QED BY <2>3, <4>1, <4>2
    <3>2. DegreeBounded'
      BY <1>1, <2>3, <3>1, ListReplaced
    <3> QED BY <2>1, <3>2 DEF DegreeInv
  <2> QED BY <1>4, <2>2, <2>3 DEF LinkBack
<1>5. CASE PruneBack(c)
  <2>1. PICK p \in Pruned(copy_of_neighbors[c] \ {des[c]}) :
          final_graph' = [final_graph EXCEPT ![des[c]] = p]
    BY <1>5 DEF PruneBack
  <2>2. /\ pc' = [pc EXCEPT ![c] = "back"] /\ files' = files
        /\ pruned_list' = [pruned_list EXCEPT ![c] = @ \ {des[c]}]
    BY <1>5 DEF PruneBack, stored
  <2>3. p \in SUBSET Nodes /\ Cardinality(p) <= IndexingRange
    BY <1>1, <2>1, PrunedBound DEF TypeOK
  <2>4. Cardinality(p) <= SlackRange
    BY <2>3, NodeSets
  <2>5. DegreeBounded'
    BY <1>1, <2>1, <2>4, ListReplaced
  <2> QED BY <1>1, <2>2, <2>5 DEF DegreeInv, TypeOK
<1>6. CASE \/ \E t \in Tags : insert_point(c, t)
           \/ Reserve(c) \/ ReserveFull(c) \/ ReserveDuplicate(c) \/ WriteVector(c)
           \/ ReturnInsert(c)
  <2>1. UNCHANGED <<final_graph, files>>
    BY <1>6 DEF insert_point, Reserve, ReserveFull, ReserveDuplicate, WriteVector, ReturnInsert,
                graph, stored
  <2>2. /\ \A d \in Threads \ {c} : pc'[d] = pc[d] /\ pruned_list'[d] = pruned_list[d]
        /\ pc'[c] # "link"
    <3>1. CASE Return(c)
      BY <1>1, <3>1 DEF Return, TypeOK
    <3>2. CASE pruned_list' = pruned_list /\ \E place \in {"reserve", "write", "search"} :
                 pc' = [pc EXCEPT ![c] = place]
      BY <1>1, <3>2 DEF TypeOK
    <3> QED BY <1>6, <3>1, <3>2 DEF insert_point, Reserve, ReserveFull, ReserveDuplicate,
                WriteVector, ReturnInsert, Fail, insertion
  <2> QED BY <2>1, <2>2, ListsKept
<1> QED BY <1>2, <1>3, <1>4, <1>5, <1>6 DEF Insertion

\* The lists that a consolidation repairs respect the bound.
LEMMA ConsolidationDegree ==
  ASSUME IInv, DegreeInv, NEW c \in Threads, Consolidation(c)
  PROVE  DegreeInv'
<1> USE Sizes, SlotsFinite DEF IInv, At, Goto
<1>1. TypeOK
  OBVIOUS
<1>2. ASSUME NEW n \in Nodes, ProcessDelete(c, n) PROVE DegreeInv'
  <2>1. UNCHANGED <<pc, pruned_list, files>>
    BY <1>2 DEF ProcessDelete, insertion, stored
  <2>2. CASE final_graph' = final_graph
    BY <2>1, <2>2, ListsKept
  <2>3. ASSUME NEW g \in Repaired(n, old_delete_set[c]),
               final_graph' = [final_graph EXCEPT ![n] = g]
        PROVE  DegreeInv'
    <3>1. g = final_graph[n] \/ \E S \in SUBSET Nodes : g \in Pruned(S)
      <4> DEFINE heirs == ((final_graph[n] \cup UNION {final_graph[d] :
                             d \in final_graph[n] \cap old_delete_set[c]})
                             \ old_delete_set[c]) \ {n}
      <4>1. g = final_graph[n] \/ g \in Pruned(heirs)
        BY <2>3 DEF Repaired
      <4>2. heirs \in SUBSET Nodes
        BY <1>1 DEF TypeOK
      <4> HIDE DEF heirs
      <4> QED BY <4>1, <4>2
    <3>2. Cardinality(g) <= SlackRange
      <4>1. CASE g = final_graph[n]
        BY <4>1 DEF DegreeInv, DegreeBounded
      <4>2. ASSUME NEW S \in SUBSET Nodes, g \in Pruned(S) PROVE Cardinality(g) <= SlackRange
        <5>1. g \in SUBSET Nodes /\ Cardinality(g) <= IndexingRange
          BY <4>2, PrunedBound
        <5> QED BY <5>1, NodeSets
      <4> QED BY <3>1, <4>1, <4>2
    <3>3. DegreeBounded'
      BY <1>1, <2>3, <3>2, ListReplaced
    <3> QED BY <2>1, <3>3 DEF DegreeInv
  <2> QED BY <1>2, <2>2, <2>3 DEF ProcessDelete
<1>3. CASE \/ consolidate_deletes(c) \/ ExcludeUpdates(c) \/ TryConsolidate(c)
           \/ TakeDeleted(c) \/ ReleaseDeleted(c)
  <2>1. UNCHANGED <<final_graph, files>>
    BY <1>3 DEF consolidate_deletes, ExcludeUpdates, TryConsolidate, TakeDeleted,
                ReleaseDeleted, graph, stored
  <2>2. /\ \A d \in Threads \ {c} : pc'[d] = pc[d] /\ pruned_list'[d] = pruned_list[d]
        /\ pc'[c] # "link"
    <3>1. CASE Return(c)
      BY <1>1, <3>1 DEF Return, TypeOK
    <3>2. CASE pruned_list' = pruned_list /\ \E place \in {"exclude", "try", "swap", "scan"} :
                 pc' = [pc EXCEPT ![c] = place]
      BY <1>1, <3>2 DEF TypeOK
    <3> QED BY <1>3, <3>1, <3>2 DEF consolidate_deletes, ExcludeUpdates, TryConsolidate,
                TakeDeleted, ReleaseDeleted, Fail, insertion
  <2> QED BY <2>1, <2>2, ListsKept
<1> QED BY <1>2, <1>3 DEF Consolidation

\* Compaction, the moves of the frozen point and the files respect it.
LEMMA SavingDegree ==
  ASSUME IInv, DegreeInv, NEW c \in Threads, Saving(c)
  PROVE  DegreeInv'
<1> USE Sizes, SlotsFinite DEF At, Goto, stored
<1>1. /\ TypeOK /\ Live \in SUBSET Slots /\ final_graph \in [Nodes -> SUBSET Nodes]
      /\ nd \in Int /\ nd \in Nodes /\ \A m \in Nodes : Cardinality(final_graph[m]) <= SlackRange
  <2>1. TypeOK /\ \A m \in Nodes : Cardinality(final_graph[m]) <= SlackRange
    BY DEF IInv, DegreeInv, DegreeBounded
  <2>2. nd \in Int /\ nd \in Nodes
    BY <2>1 DEF TypeOK
  <2> QED BY <2>1, <2>2 DEF TypeOK
<1>2. /\ \A d \in Threads \ {c} : pc'[d] = pc[d] /\ pruned_list'[d] = pruned_list[d]
      /\ pc'[c] # "link"
  <2>1. CASE Return(c)
    BY <1>1, <2>1 DEF Return, TypeOK
  <2>2. CASE pruned_list' = pruned_list /\ \E place \in Saves \cup {"idle"} :
               pc' = [pc EXCEPT ![c] = place]
    BY <1>1, <2>2 DEF TypeOK, Saves
  <2>3. CASE \E b \in BOOLEAN : save(c, b)
    BY <2>2, <2>3 DEF save, insertion, Saves
  <2>4. CASE compact_data(c)
    BY <2>2, <2>4 DEF compact_data, insertion, Saves
  <2>5. CASE \/ compact_frozen_point(c) \/ save_graph(c) \/ save_data(c) \/ save_tags(c)
             \/ reposition_frozen_point_to_end(c)
    BY <2>1, <2>2, <2>5 DEF compact_frozen_point, save_graph, save_data,
       save_tags, reposition_frozen_point_to_end, insertion, Saves
  <2> QED BY <2>3, <2>4, <2>5 DEF Saving
<1>3. ASSUME UNCHANGED <<final_graph, files>> PROVE DegreeInv'
  BY <1>2, <1>3, ListsKept
<1>4. ASSUME files' = files, DegreeBounded' PROVE DegreeInv'
  BY <1>2, <1>4 DEF DegreeInv
<1>5. CASE \E b \in BOOLEAN : save(c, b)
  BY <1>3, <1>5 DEF save, graph
<1>6. CASE compact_data(c)
  <2>1. CASE final_graph' = final_graph
    BY <1>3, <1>6, <2>1 DEF compact_data
  <2>2. CASE final_graph' = compacted(final_graph)
    <3>1. DegreeBounded'
      BY <1>1, <2>2, CompactedBound DEF DegreeBounded
    <3> QED BY <1>4, <1>6, <3>1 DEF compact_data
  <2> QED BY <1>6, <2>1, <2>2 DEF compact_data
<1>7. CASE compact_frozen_point(c) \/ reposition_frozen_point_to_end(c)
  <2>1. files' = files
    BY <1>7 DEF compact_frozen_point, reposition_frozen_point_to_end
  <2>2. \A m \in Nodes : /\ Cardinality(Moved(final_graph, nd, Frozen, nd)[m]) <= SlackRange
                         /\ Cardinality(Moved(final_graph, nd, nd, Frozen)[m]) <= SlackRange
    BY <1>1, MovedBound
  <2>3. final_graph' \in {final_graph, Moved(final_graph, nd, Frozen, nd),
                          Moved(final_graph, nd, nd, Frozen)}
    BY <1>7 DEF compact_frozen_point, reposition_frozen_point_to_end, graph
  <2>4. DegreeBounded'
    BY <1>1, <2>2, <2>3 DEF DegreeBounded
  <2> QED BY <1>4, <2>1, <2>4
<1>8. CASE save_graph(c)
  <2>1. /\ files' = With(With(files, "start", start), "graph", [n \in 0..nd |-> final_graph[n]])
        /\ final_graph' = final_graph
    BY <1>8 DEF save_graph, graph
  <2>2. \A n \in 0..nd : n \in Nodes
    BY <1>1 DEF IInv, TypeOK
  <2>3. files'["graph"] = [n \in 0..nd |-> final_graph[n]]
    BY <2>1 DEF With
  <2> QED BY <1>1, <1>2, <2>1, <2>2, <2>3 DEF DegreeInv, DegreeBounded
<1>9. CASE save_data(c) \/ save_tags(c)
  <2>1. /\ final_graph' = final_graph
        /\ \E f : files' = With(files, "data", f) \/ files' = With(files, "tags", f)
    BY <1>9 DEF save_data, save_tags, graph
  <2>2. "graph" \in DOMAIN files' => "graph" \in DOMAIN files /\ files'["graph"] = files["graph"]
    BY <2>1 DEF With
  <2> QED BY <1>2, <2>1, <2>2 DEF DegreeInv, DegreeBounded
<1> QED BY <1>5, <1>6, <1>7, <1>8, <1>9 DEF Saving

\* Loading brings back the lists of the files, which respect it.
LEMMA LoadDegree ==
  ASSUME IInv, DegreeInv, load, UsedAsMeant'
  PROVE  DegreeInv'
<1>1. files' = files
  BY DEF load
<1>2. CASE DOMAIN files # {"graph", "start", "data", "tags"}
  <2>1. UNCHANGED <<final_graph, pc, pruned_list>>
    BY <1>2 DEF load, graph, insertion
  <2> QED BY <1>1, <2>1, ListsKept
<1>3. CASE DOMAIN files = {"graph", "start", "data", "tags"}
  <2> DEFINE n == Cardinality(DOMAIN files["data"]) - 1
  <2>1. /\ n < MaxPoints /\ final_graph' = Moved(load_graph, n, n, Frozen) /\ nd' = n
        /\ pc' = [c \in Threads |-> "idle"]
    BY <1>3 DEF load
  <2>2. n \in Int /\ n \in Nodes
    <3>1. IInv'
      BY LoadIInv
    <3> QED BY <2>1, <3>1, SlotsFinite DEF IInv, TypeOK
  <2>3. /\ load_graph \in [Nodes -> SUBSET Nodes]
        /\ \A m \in Nodes : Cardinality(load_graph[m]) <= SlackRange
    <3>1. /\ \A m \in DOMAIN files["graph"] : files["graph"][m] \in SUBSET Nodes
          /\ \A m \in DOMAIN files["graph"] : Cardinality(files["graph"][m]) <= SlackRange
      BY <1>3 DEF IInv, FilesInv, DegreeInv
    <3>2. Cardinality({}) = 0 /\ 0 <= SlackRange
      BY FS_EmptySet, Sizes
    <3> QED BY <3>1, <3>2 DEF load_graph
  <2>4. \A m \in Nodes : Cardinality(Moved(load_graph, n, n, Frozen)[m]) <= SlackRange
    <3> HIDE DEF n, load_graph
    <3> QED BY <2>2, <2>3, SlotsFinite, MovedBound
  <2>5. DegreeBounded'
    BY <2>1, <2>4 DEF DegreeBounded
  <2> QED BY <1>1, <2>1, <2>5 DEF DegreeInv
<1> QED BY <1>2, <1>3

\* No list ever outgrows the slack, however insertions that link back, prune
\* outside the lock and write back, deletions, consolidations, compactions and
\* loads interleave (inter_insert, process_delete, compact_data of src/index.cpp).
THEOREM DegreeStaysBounded ==
  ASSUME ~SavesWithHoles, BuiltInSlack
  PROVE  Spec => [](UsedAsMeant => DegreeBounded)
<1>1. Init => (UsedAsMeant => DegreeInv)
  BY DEF Init, DegreeInv, DegreeBounded, BuiltInSlack
<1>2. (UsedAsMeant => IInv) /\ (UsedAsMeant => DegreeInv) /\ [Next]_vars
        => (UsedAsMeant => DegreeInv)'
  <2> SUFFICES ASSUME IInv, DegreeInv, [Next]_vars, UsedAsMeant' PROVE DegreeInv'
    BY WhileUsedAsMeant
  <2>1. ASSUME UNCHANGED <<graph, stored, pc, pruned_list>> PROVE DegreeInv'
    BY <2>1, ListsKept DEF graph, stored
  <2>2. ASSUME NEW c \in Threads,
               enable_delete(c) \/ \E tags \in (SUBSET Tags) \ {{}} : lazy_delete(c, tags)
        PROVE  DegreeInv'
    BY <2>1, <2>2 DEF enable_delete, lazy_delete, insertion
  <2>3. ASSUME UNCHANGED vars PROVE DegreeInv'
    BY <2>1, <2>3 DEF vars, insertion
  <2> QED BY <2>2, <2>3, InsertionDegree, ConsolidationDegree, SavingDegree, LoadDegree
          DEF Next, Stopped
<1>3. DegreeInv => DegreeBounded
  BY DEF DegreeInv
<1> QED BY <1>1, <1>2, <1>3, Invariance, PTL DEF Spec

-----------------------------------------------------------------------------
\* The end of a call gives back the locks of the caller only.
LEMMA ReturnLocks ==
  ASSUME TypeOK, LockInv, NEW c \in Threads, Return(c), conc_consolidate' = conc_consolidate
  PROVE  LockInv'
BY DEF Return, Goto, LockInv, TypeOK, Inserts

\* A thread goes on, with the locks as they are.
LEMMA StepLocks ==
  ASSUME TypeOK, LockInv, NEW c \in Threads, NEW place,
         pc' = [pc EXCEPT ![c] = place], UNCHANGED <<locks, conc_consolidate>>,
         place \in Inserts \cup {"reserve"} => c \in update_readers,
         place \in {"try", "swap", "scan"} => conc_consolidate \/ update_writer = c
  PROVE  LockInv'
BY DEF LockInv, TypeOK, locks

\* Every step keeps to the discipline of the update lock.
LEMMA NextLocks ==
  ASSUME IInv, LockInv, [Next]_vars
  PROVE  LockInv'
<1> USE DEF At, Goto, Inserts
<1>1. TypeOK
  BY DEF IInv
<1>2. ASSUME UNCHANGED <<locks, pc, conc_consolidate>> PROVE LockInv'
  BY <1>2 DEF LockInv, locks
<1>3. ASSUME NEW c \in Threads, Insertion(c) PROVE LockInv'
  <2>1. ASSUME NEW t \in Tags, insert_point(c, t) PROVE LockInv'
    BY <1>1, <2>1 DEF insert_point, LockInv, TypeOK, Calls
  <2>2. CASE Reserve(c)
    <3>1. pc[c] = "reserve" /\ pc' = [pc EXCEPT ![c] = "write"]
          /\ UNCHANGED <<locks, conc_consolidate>>
      BY <2>2, ReserveFacts
    <3>2. c \in update_readers
      BY <3>1 DEF LockInv
    <3> QED BY <1>1, <3>1, <3>2, StepLocks
  <2>3. CASE ReserveFull(c) \/ ReserveDuplicate(c) \/ ReturnInsert(c)
    <3>1. Return(c) /\ conc_consolidate' = conc_consolidate
      BY <2>3, NotReservedFacts DEF ReturnInsert
    <3> QED BY <1>1, <3>1, ReturnLocks
  <2>4. CASE WriteVector(c) \/ FindNeighbors(c) \/ LinkPoint(c) \/ PruneBack(c)
    <3>1. PICK place \in Inserts : pc' = [pc EXCEPT ![c] = place]
      <4>1. {"search", "link", "back"} \subseteq Inserts
        OBVIOUS
      <4>2. \/ pc' = [pc EXCEPT ![c] = "search"] \/ pc' = [pc EXCEPT ![c] = "link"]
            \/ pc' = [pc EXCEPT ![c] = "back"]
        BY <2>4 DEF WriteVector, FindNeighbors, LinkPoint, PruneBack
      <4> QED BY <4>1, <4>2
    <3>2. pc[c] \in Inserts /\ UNCHANGED <<locks, conc_consolidate>>
      BY <2>4 DEF WriteVector, FindNeighbors, LinkPoint, PruneBack
    <3> QED BY <1>1, <3>1, <3>2, StepLocks DEF LockInv
  <2>5. ASSUME NEW n \in Nodes, LinkBack(c, n) PROVE LockInv'
    <3>1. pc[c] = "back" /\ UNCHANGED <<locks, conc_consolidate>>
      BY <2>5 DEF LinkBack
    <3>2. \/ UNCHANGED pc
          \/ pc' = [pc EXCEPT ![c] = "prune"]
      BY <2>5 DEF LinkBack
    <3> QED BY <1>1, <1>2, <3>1, <3>2, StepLocks DEF LockInv
  <2> QED BY <1>3, <2>1, <2>2, <2>3, <2>4, <2>5 DEF Insertion
<1>4. ASSUME NEW c \in Threads, Consolidation(c) PROVE LockInv'
  <2>1. CASE consolidate_deletes(c)
    <3>1. CASE Return(c)
      BY <1>1, <2>1, <3>1, ReturnLocks DEF consolidate_deletes
    <3>2. CASE /\ pc' = [pc EXCEPT ![c] = IF conc_consolidate THEN "try" ELSE "exclude"]
               /\ UNCHANGED locks
      <4>1. conc_consolidate' = conc_consolidate
        BY <2>1 DEF consolidate_deletes
      <4>2. CASE conc_consolidate
        BY <1>1, <3>2, <4>1, <4>2, StepLocks
      <4>3. CASE ~conc_consolidate
        BY <1>1, <3>2, <4>1, <4>3, StepLocks
      <4> QED BY <4>2, <4>3
    <3> QED BY <2>1, <3>1, <3>2 DEF consolidate_deletes, Fail
  <2>2. CASE ExcludeUpdates(c)
    <3>1. /\ pc' = [pc EXCEPT ![c] = "try"] /\ update_readers = {} /\ update_writer = Nobody
          /\ update_writer' = c /\ UNCHANGED <<update_readers, conc_consolidate>>
      BY <2>2 DEF ExcludeUpdates
    <3>2. ~conc_consolidate => \A d \in Threads : pc[d] \notin {"try", "swap", "scan"}
      BY <3>1, Sizes DEF LockInv
    <3> QED BY <1>1, <3>1, <3>2 DEF LockInv, TypeOK
  <2>3. CASE TryConsolidate(c)
    <3>1. CASE Return(c)
      BY <1>1, <2>3, <3>1, ReturnLocks DEF TryConsolidate
    <3>2. CASE pc' = [pc EXCEPT ![c] = "swap"] /\ UNCHANGED <<update_readers, update_writer>>
      BY <1>1, <2>3, <3>2 DEF TryConsolidate, LockInv, TypeOK
    <3> QED BY <2>3, <3>1, <3>2 DEF TryConsolidate
  <2>4. CASE TakeDeleted(c)
    BY <1>1, <2>4, StepLocks DEF TakeDeleted, LockInv
  <2>5. ASSUME NEW n \in Nodes, ProcessDelete(c, n) PROVE LockInv'
    BY <1>2, <2>5 DEF ProcessDelete
  <2>6. CASE ReleaseDeleted(c)
    BY <1>1, <2>6, ReleaseFacts, ReturnLocks
  <2> QED BY <1>4, <2>1, <2>2, <2>3, <2>4, <2>5, <2>6 DEF Consolidation
<1>5. ASSUME NEW c \in Threads, Saving(c) PROVE LockInv'
  <2>1. CASE reposition_frozen_point_to_end(c)
    BY <1>1, <2>1, ReturnLocks DEF reposition_frozen_point_to_end
  <2>2. CASE save_graph(c)
    <3>1. /\ update_readers = {} /\ update_writer = Nobody /\ update_writer' = c
          /\ pc' = [pc EXCEPT ![c] = "save_data"]
          /\ UNCHANGED <<update_readers, conc_consolidate>>
      BY <2>2 DEF save_graph
    <3>2. ~conc_consolidate => \A d \in Threads : pc[d] \notin {"try", "swap", "scan"}
      BY <3>1, Sizes DEF LockInv
    <3> QED BY <1>1, <3>1, <3>2 DEF LockInv, TypeOK
  <2>3. ASSUME NEW place \in Saves \cup {"idle"}, pc' = [pc EXCEPT ![c] = place],
               UNCHANGED <<locks, conc_consolidate>>
        PROVE  LockInv'
    BY <1>1, <2>3, StepLocks DEF Saves
  <2>4. CASE \E b \in BOOLEAN : save(c, b)
    BY <2>3, <2>4 DEF save, Saves
  <2>5. CASE compact_data(c)
    BY <2>3, <2>5 DEF compact_data, Saves
  <2>6. CASE compact_frozen_point(c) \/ save_data(c) \/ save_tags(c)
    BY <2>3, <2>6 DEF compact_frozen_point, save_data, save_tags, Saves
  <2> QED BY <1>5, <2>1, <2>2, <2>4, <2>5, <2>6 DEF Saving
<1>6. CASE load
  <2>1. CASE DOMAIN files = {"graph", "start", "data", "tags"}
    BY <1>6, <2>1, LoadFacts DEF Loaded, LockInv
  <2>2. CASE DOMAIN files # {"graph", "start", "data", "tags"}
    BY <1>2, <1>6, <2>2 DEF load
  <2> QED BY <2>1, <2>2
<1>7. ASSUME NEW c \in Threads,
             enable_delete(c) \/ \E tags \in (SUBSET Tags) \ {{}} : lazy_delete(c, tags)
      PROVE  LockInv'
  BY <1>2, <1>7 DEF enable_delete, lazy_delete
<1> QED BY <1>2, <1>3, <1>4, <1>5, <1>6, <1>7 DEF Next, Stopped, vars, locks

-----------------------------------------------------------------------------
\* A step that leaves the points, their vectors and the files as they are, and
\* enters or leaves no insertion.
LEMMA OwnKept ==
  ASSUME OwnInv, UNCHANGED <<location, location_to_tag, data, files, nd>>,
         usage' = "built" => usage = "built",
         \A d \in Threads :
           /\ pc'[d] \in Inserts <=> pc[d] \in Inserts
           /\ pc'[d] = "save_tags" <=> pc[d] = "save_tags"
           /\ pc[d] \in Inserts => /\ pc'[d] = "write" <=> pc[d] = "write"
                                   /\ tag'[d] = tag[d] /\ location[d] \notin Free'
  PROVE  OwnInv'
<1>1. SlotKeepsVector'
  BY DEF OwnInv, SlotKeepsVector, Inserting, Live
<1>2. ASSUME NEW c \in Threads
      PROVE  /\ location'[c] # NoSlot <=> pc'[c] \in Inserts
             /\ pc'[c] \in Inserts =>
                  /\ location'[c] \notin Free'
                  /\ usage' = "built" => location'[c] \in Live'
                  /\ \A d \in Threads \ {c} : pc'[d] \in Inserts => location'[d] # location'[c]
                  /\ location'[c] \in Live' => location_to_tag'[location'[c]] = tag'[c]
                  /\ pc'[c] # "write" => data'[location'[c]] = tag'[c]
  BY DEF OwnInv, Live
<1> QED BY <1>1, <1>2 DEF OwnInv

\* The end of a call: a point that was inserted has its vector.
LEMMA OwnReturn ==
  ASSUME TypeOK, OwnInv, NEW c \in Threads, Return(c), pc[c] \notin {"write", "save_tags"},
         UNCHANGED <<location_to_tag, data, files>>, usage' = "built" => usage = "built",
         nd' = nd \/ \A d \in Threads : pc[d] # "save_tags",
         \A d \in Threads : pc[d] \in Inserts => location[d] \notin Free'
  PROVE  OwnInv'
<1>1. /\ pc' = [pc EXCEPT ![c] = "idle"] /\ location' = [location EXCEPT ![c] = NoSlot]
      /\ tag' = [tag EXCEPT ![c] = NoTag]
  BY DEF Return, Goto
<1>2. /\ pc'[c] = "idle" /\ location'[c] = NoSlot
      /\ \A d \in Threads \ {c} : pc'[d] = pc[d] /\ location'[d] = location[d] /\ tag'[d] = tag[d]
  BY <1>1 DEF TypeOK
<1>3. SlotKeepsVector'
  <2> SUFFICES ASSUME NEW s \in Live, Inserting(s)' = {} PROVE data[s] = location_to_tag[s]
    BY DEF SlotKeepsVector, Live
  <2>1. \A d \in Threads \ {c} : location[d] # s
    BY <1>2 DEF Inserting
  <2>2. CASE location[c] = s
    <3>1. pc[c] \in Inserts
      BY <2>2 DEF OwnInv, TypeOK, NoSlot, Slots
    <3> QED BY <2>2, <3>1 DEF OwnInv
  <2>3. CASE location[c] # s
    BY <2>1, <2>3 DEF OwnInv, SlotKeepsVector, Inserting
  <2> QED BY <2>2, <2>3
<1>4. ASSUME NEW d \in Threads
      PROVE  /\ location'[d] # NoSlot <=> pc'[d] \in Inserts
             /\ pc'[d] \in Inserts =>
                  /\ location'[d] \notin Free'
                  /\ usage' = "built" => location'[d] \in Live'
                  /\ \A e \in Threads \ {d} : pc'[e] \in Inserts => location'[e] # location'[d]
                  /\ location'[d] \in Live' => location_to_tag'[location'[d]] = tag'[d]
                  /\ pc'[d] # "write" => data'[location'[d]] = tag'[d]
  BY <1>2 DEF OwnInv, Live, Inserts
<1> QED BY <1>2, <1>3, <1>4 DEF OwnInv

\* The reserved slot is nobody else's, and gets the vector before the call ends.
LEMMA InsertionOwn ==
  ASSUME IInv, OwnInv, NEW c \in Threads, Insertion(c)
  PROVE  OwnInv'
<1> USE DEF At, Goto
<1>1. TypeOK
  BY DEF IInv
<1>2. ASSUME NEW t \in Tags, insert_point(c, t) PROVE OwnInv'
  <2>1. /\ pc[c] = "idle" /\ pc' = [pc EXCEPT ![c] = "reserve"] /\ tag' = [tag EXCEPT ![c] = t]
        /\ UNCHANGED <<slots, data, files, location>> /\ (usage' = "built" => usage = "built")
    BY <1>2 DEF insert_point, Calls, graph, stored
  <2>2. Free' = Free
    BY <2>1 DEF slots, Free
  <2> QED BY <1>1, <2>1, <2>2, OwnKept DEF OwnInv, TypeOK, Inserts, slots
<1>3. CASE Reserve(c)
  <2> DEFINE s == Reserved
  <2>1. /\ pc[c] = "reserve" /\ (\A d \in Threads : pc[d] \notin Saves)
        /\ s \in Slots /\ s \notin Live
        /\ usage \in {"built", "enabled"} /\ (usage = "enabled" => s \in Free)
        /\ Live' = Live \cup {s} /\ Free' = Free \ {s}
        /\ location_to_tag' = With(location_to_tag, s, tag[c])
        /\ location' = [location EXCEPT ![c] = s] /\ pc' = [pc EXCEPT ![c] = "write"]
        /\ UNCHANGED <<data, files, tag, usage>>
    BY <1>3, ReserveFacts DEF graph, stored
  <2> HIDE DEF s
  <2>2. /\ pc'[c] = "write" /\ location'[c] = s
        /\ \A d \in Threads \ {c} : pc'[d] = pc[d] /\ location'[d] = location[d]
    BY <1>1, <2>1 DEF TypeOK
  <2>3. /\ location_to_tag'[s] = tag[c]
        /\ \A x \in Live : location_to_tag'[x] = location_to_tag[x]
    BY <2>1 DEF With, Live
  <2>4. location[c] = NoSlot /\ \A d \in Threads \ {c} : location[d] # s
    <3>1. location[c] = NoSlot
      BY <2>1 DEF OwnInv, Inserts
    <3>2. NoSlot \notin Slots
      BY DEF NoSlot, Slots
    <3>3. \A d \in Threads \ {c} : pc[d] \in Inserts => location[d] # s
      BY <2>1 DEF OwnInv
    <3> QED BY <2>1, <3>1, <3>2, <3>3 DEF OwnInv
  <2>5. SlotKeepsVector'
    <3> SUFFICES ASSUME NEW x \in Live \cup {s}, Inserting(x)' = {}
                 PROVE  data[x] = location_to_tag'[x]
      BY <2>1 DEF SlotKeepsVector
    <3>1. x # s
      BY <2>2 DEF Inserting
    <3>2. Inserting(x) = {}
      BY <2>1, <2>2, <2>4, <3>1 DEF Inserting, NoSlot, Slots, TypeOK, IInv
    <3> QED BY <2>3, <3>1, <3>2 DEF OwnInv, SlotKeepsVector
  <2>6. ASSUME NEW d \in Threads
        PROVE  /\ location'[d] # NoSlot <=> pc'[d] \in Inserts
               /\ pc'[d] \in Inserts =>
                    /\ location'[d] \notin Free'
                    /\ usage' = "built" => location'[d] \in Live'
                    /\ \A e \in Threads \ {d} : pc'[e] \in Inserts => location'[e] # location'[d]
                    /\ location'[d] \in Live' => location_to_tag'[location'[d]] = tag'[d]
                    /\ pc'[d] # "write" => data'[location'[d]] = tag'[d]
    <3>1. CASE d = c
      BY <2>1, <2>2, <2>3, <2>4, <3>1 DEF OwnInv, Inserts, NoSlot, Slots
    <3>2. CASE d # c
      BY <2>1, <2>2, <2>3, <2>4, <3>2 DEF OwnInv, Inserts
    <3> QED BY <3>1, <3>2
  <2>7. \A d \in Threads : pc'[d] # "save_tags"
    BY <2>1, <2>2 DEF Saves
  <2> QED BY <2>1, <2>5, <2>6, <2>7 DEF OwnInv
<1>4. CASE WriteVector(c)
  <2>1. /\ pc[c] = "write" /\ pc' = [pc EXCEPT ![c] = "search"]
        /\ data' = [data EXCEPT ![location[c]] = tag[c]]
        /\ UNCHANGED <<slots, files, tag, location, usage>>
    BY <1>4 DEF WriteVector, stored, insertion
  <2>2. /\ pc'[c] = "search" /\ \A d \in Threads \ {c} : pc'[d] = pc[d]
        /\ Free' = Free /\ Live' = Live
    BY <1>1, <2>1 DEF TypeOK, Free, Live, slots
  <2>3. location[c] \in Nodes
    BY <2>1, SlotsFinite DEF IInv, ThreadInv, Inserts
  <2>4. /\ data'[location[c]] = tag[c]
        /\ \A n \in Nodes : n # location[c] => data'[n] = data[n]
    BY <1>1, <2>1, <2>3 DEF TypeOK
  <2>5. SlotKeepsVector'
    <3> SUFFICES ASSUME NEW x \in Live, Inserting(x)' = {} PROVE data'[x] = location_to_tag[x]
      BY <2>1, <2>2 DEF SlotKeepsVector, slots
    <3>1. Inserting(x) = {} /\ x # location[c]
      BY <2>1 DEF Inserting
    <3>2. x \in Nodes
      BY <1>1, SlotsFinite DEF TypeOK
    <3> QED BY <2>4, <3>1, <3>2 DEF OwnInv, SlotKeepsVector
  <2>6. ASSUME NEW d \in Threads
        PROVE  /\ location'[d] # NoSlot <=> pc'[d] \in Inserts
               /\ pc'[d] \in Inserts =>
                    /\ location'[d] \notin Free'
                    /\ usage' = "built" => location'[d] \in Live'
                    /\ \A e \in Threads \ {d} : pc'[e] \in Inserts => location'[e] # location'[d]
                    /\ location'[d] \in Live' => location_to_tag'[location'[d]] = tag'[d]
                    /\ pc'[d] # "write" => data'[location'[d]] = tag'[d]
    <3>1. pc[d] \in Inserts <=> pc'[d] \in Inserts
      BY <2>1, <2>2 DEF Inserts
    <3>2. pc'[d] \in Inserts /\ pc'[d] # "write" => data'[location[d]] = tag[d]
      <4>1. CASE d = c
        BY <2>4, <4>1
      <4>2. CASE d # c /\ pc[d] \in Inserts
        <5>1. location[d] # location[c] /\ location[d] \in Nodes
          BY <2>1, <4>2, SlotsFinite DEF OwnInv, Inserts, IInv, ThreadInv
        <5> QED BY <2>2, <2>4, <4>2, <5>1 DEF OwnInv
      <4> QED BY <3>1, <4>1, <4>2
    <3>3. \A e \in Threads : pc[e] \in Inserts <=> pc'[e] \in Inserts
      BY <2>1, <2>2 DEF Inserts
    <3> QED BY <2>1, <2>2, <3>2, <3>3 DEF OwnInv, slots
  <2>7. \A d \in Threads : pc'[d] = "save_tags" => pc[d] = "save_tags"
    BY <2>2
  <2> QED BY <2>1, <2>5, <2>6, <2>7, AtWork DEF OwnInv, slots, Saves
<1>5. CASE FindNeighbors(c) \/ LinkPoint(c) \/ PruneBack(c) \/ \E n \in Nodes : LinkBack(c, n)
  <2>1. /\ pc[c] \in Inserts /\ pc[c] # "write"
        /\ UNCHANGED <<slots, data, files, tag, location, usage>>
    <3>1. ASSUME NEW n \in Nodes, LinkBack(c, n)
          PROVE  pc[c] = "back" /\ UNCHANGED <<slots, data, files, tag, location, usage>>
      BY <3>1 DEF LinkBack, stored
    <3>2. CASE FindNeighbors(c) \/ LinkPoint(c) \/ PruneBack(c)
      BY <3>2 DEF FindNeighbors, LinkPoint, PruneBack, graph, stored, insertion, Inserts
    <3> QED BY <1>5, <3>1, <3>2 DEF Inserts
  <2>2. \/ UNCHANGED pc \/ pc' = [pc EXCEPT ![c] = "link"] \/ pc' = [pc EXCEPT ![c] = "back"]
        \/ pc' = [pc EXCEPT ![c] = "prune"]
    <3>1. ASSUME NEW n \in Nodes, LinkBack(c, n)
          PROVE  UNCHANGED pc \/ pc' = [pc EXCEPT ![c] = "prune"]
      BY <3>1 DEF LinkBack
    <3> QED BY <1>5, <3>1 DEF FindNeighbors, LinkPoint, PruneBack
  <2>3. /\ pc'[c] \in Inserts /\ pc'[c] # "write" /\ \A d \in Threads \ {c} : pc'[d] = pc[d]
    BY <1>1, <2>1, <2>2 DEF TypeOK, Inserts
  <2>4. Free' = Free
    BY <2>1 DEF slots, Free
  <2> QED BY <2>1, <2>3, <2>4, OwnKept DEF OwnInv, Inserts, slots
<1>6. CASE ReserveFull(c) \/ ReserveDuplicate(c) \/ ReturnInsert(c)
  <2>1. /\ pc[c] \in {"reserve", "back"} /\ Return(c)
        /\ UNCHANGED <<slots, graph, stored, usage>>
    BY <1>6, NotReservedFacts DEF ReturnInsert
  <2>2. Free' = Free
    BY <2>1 DEF slots, Free
  <2> QED BY <1>1, <2>1, <2>2, OwnReturn DEF slots, graph, stored, OwnInv
<1> QED BY <1>2, <1>3, <1>4, <1>5, <1>6 DEF Insertion

\* A consolidation frees slots only when it is alone.
LEMMA ConsolidationOwn ==
  ASSUME IInv, LockInv, OwnInv, ~conc_consolidate, NEW c \in Threads, Consolidation(c)
  PROVE  OwnInv'
<1> USE DEF At, Goto
<1>1. TypeOK
  BY DEF IInv
<1>2. CASE ReleaseDeleted(c)
  <2>1. /\ pc[c] = "scan" /\ Return(c) /\ (\A d \in Threads : pc[d] \notin Saves)
        /\ UNCHANGED <<location_to_tag, data, files, usage>>
    BY <1>2, ReleaseFacts DEF graph, stored
  <2>2. \A d \in Threads : pc[d] \notin Inserts
    BY <2>1, Sizes DEF LockInv
  <2> QED BY <1>1, <2>1, <2>2, OwnReturn DEF Saves
<1>3. CASE \/ consolidate_deletes(c) \/ ExcludeUpdates(c) \/ TryConsolidate(c) \/ TakeDeleted(c)
           \/ \E n \in Nodes : ProcessDelete(c, n)
  <2>1. /\ UNCHANGED <<location_to_tag, data, files, nd, empty_slots>>
        /\ usage' = "built" => usage = "built"
        /\ pc[c] \in {"idle", "exclude", "try", "swap", "scan"}
    <3>1. CASE consolidate_deletes(c) \/ ExcludeUpdates(c) \/ TryConsolidate(c)
      BY <3>1 DEF consolidate_deletes, Calls, ExcludeUpdates, TryConsolidate, slots, graph, stored,
                  NeedsFreeSlots
    <3>2. CASE TakeDeleted(c)
      BY <3>2 DEF TakeDeleted, graph, stored
    <3>3. CASE \E n \in Nodes : ProcessDelete(c, n)
      BY <3>3 DEF ProcessDelete, slots, stored
    <3> QED BY <1>3, <3>1, <3>2, <3>3
  <2>2. Free' = Free
    BY <2>1 DEF Free
  <2>3. CASE Return(c)
    BY <1>1, <2>1, <2>2, <2>3, OwnReturn DEF OwnInv
  <2>4. CASE /\ UNCHANGED insertion
             /\ \E place \in {"exclude", "try", "swap", "scan"} : pc' = [pc EXCEPT ![c] = place]
    <3>1. pc'[c] \in {"exclude", "try", "swap", "scan"} /\ \A d \in Threads \ {c} : pc'[d] = pc[d]
      BY <1>1, <2>4 DEF TypeOK
    <3> QED BY <2>1, <2>2, <2>4, <3>1, OwnKept DEF OwnInv, Inserts, insertion
  <2>5. CASE UNCHANGED <<pc, insertion>>
    BY <2>1, <2>2, <2>5, OwnKept DEF OwnInv, insertion
  <2>6. CASE consolidate_deletes(c)
    BY <2>3, <2>4, <2>6 DEF consolidate_deletes, Fail
  <2>7. CASE ExcludeUpdates(c) \/ TryConsolidate(c) \/ TakeDeleted(c)
    BY <2>3, <2>4, <2>7 DEF ExcludeUpdates, TryConsolidate, TakeDeleted
  <2>8. CASE \E n \in Nodes : ProcessDelete(c, n)
    BY <2>5, <2>8 DEF ProcessDelete
  <2> QED BY <1>3, <2>6, <2>7, <2>8
<1> QED BY <1>2, <1>3 DEF Consolidation

\* While nobody inserts, every point has its vector.
LEMMA AllKept ==
  ASSUME TypeOK, OwnInv, \A d \in Threads : pc[d] \notin Inserts
  PROVE  /\ \A s \in Live : data[s] = location_to_tag[s]
         /\ \A d \in Threads : location[d] = NoSlot
<1>1. \A d \in Threads : location[d] = NoSlot
  BY DEF OwnInv
<1>2. \A s \in Live : Inserting(s) = {}
  BY <1>1 DEF Inserting, NoSlot, Slots, TypeOK
<1> QED BY <1>1, <1>2 DEF OwnInv, SlotKeepsVector

\* While nobody inserts after a step either, this is all there is to show.
LEMMA AllOwn ==
  ASSUME \A d \in Threads : pc'[d] \notin Inserts /\ location'[d] = NoSlot,
         \A s \in Live' : data'[s] = location_to_tag'[s],
         \A d \in Threads : pc'[d] = "save_tags" =>
           \A s \in 0..(nd' - 1) : files'["data"][s] = location_to_tag'[s],
         "tags" \in DOMAIN files' =>
           \A m \in 0..MaxPoints : DOMAIN files'["tags"] = 0..m =>
             \A s \in 0..(m - 1) : files'["data"][s] = files'["tags"][s]
  PROVE  OwnInv'
BY DEF OwnInv, SlotKeepsVector

\* Renumbering takes the vectors along, and the files get them.
LEMMA SavingOwn ==
  ASSUME IInv, OwnInv, NEW c \in Threads, Saving(c)
  PROVE  OwnInv'
<1> USE DEF At, Goto
<1>1. TypeOK /\ FilesInv
  BY DEF IInv
<1>2. ASSUME UNCHANGED <<location, location_to_tag, data, files, nd, empty_slots, usage>>,
             NEW place \in {"idle", "compact", "freeze", "save", "save_data"},
             pc' = [pc EXCEPT ![c] = place], pc[c] \notin Inserts \cup {"save_tags"},
             tag' = tag
      PROVE  OwnInv'
  <2>1. /\ pc'[c] \notin Inserts \cup {"save_tags"} /\ \A d \in Threads \ {c} : pc'[d] = pc[d]
        /\ Free' = Free
    BY <1>1, <1>2 DEF TypeOK, Inserts, Free
  <2> QED BY <1>2, <2>1, OwnKept DEF OwnInv
<1>3. CASE \E b \in BOOLEAN : save(c, b)
  BY <1>2, <1>3 DEF save, Calls, slots, graph, stored, insertion, Inserts
<1>4. ASSUME pc[c] \in Saves
      PROVE  /\ \A d \in Threads : pc[d] \notin Inserts /\ location[d] = NoSlot
             /\ \A d \in Threads : d # c => pc[d] = "idle"
             /\ \A s \in Live : data[s] = location_to_tag[s]
             /\ SaveInv(c) /\ nd \in 0..MaxPoints /\ nd \in Nat
  <2>1. SaveInv(c) /\ \A d \in Threads : d # c => pc[d] = "idle"
    BY <1>4, SaverFacts
  <2>2. \A d \in Threads : pc[d] \notin Inserts
    BY <1>4, <2>1 DEF Saves, Inserts
  <2> QED BY <1>1, <2>1, <2>2, AllKept, Sizes DEF TypeOK
<1>5. CASE compact_data(c)
  <2>1. CASE data_compacted \/ delete_set # {}
    BY <1>2, <1>5, <2>1 DEF compact_data, slots, stored, insertion, Inserts
  <2>2. CASE ~data_compacted /\ delete_set = {}
    <3>1. /\ pc[c] = "compact" /\ pc' = [pc EXCEPT ![c] = "freeze"]
          /\ data' = [n \in Nodes |->
               IF \E s \in Live : new_location(s) = n
               THEN data[CHOOSE s \in Live : new_location(s) = n] ELSE data[n]]
          /\ UNCHANGED <<files, location>>
          /\ {new_location(s) : s \in Live} = 0..(nd - 1) /\ 0..(nd - 1) \subseteq Slots
          /\ \A s \in Live : (CHOOSE x \in Live : new_location(x) = new_location(s)) = s
          /\ Live' = 0..(nd - 1)
          /\ \A s \in Live : location_to_tag'[new_location(s)] = location_to_tag[s]
      BY <1>5, <2>2, CompactFacts DEF stored, insertion
    <3>2. ASSUME NEW n \in Live' PROVE data'[n] = location_to_tag'[n]
      <4>1. PICK s \in Live : n = new_location(s)
        BY <3>1
      <4>2. n \in Nodes
        BY <3>1, SlotsFinite
      <4>3. data'[n] = data[s]
        BY <3>1, <4>1, <4>2
      <4> QED BY <1>4, <3>1, <4>1, <4>3 DEF Saves
    <3>3. \A d \in Threads : pc'[d] \in {"freeze", "idle"} /\ location'[d] = NoSlot
      BY <1>1, <1>4, <3>1 DEF TypeOK, Saves
    <3>4. \A d \in Threads : pc'[d] \notin Inserts \cup {"save_tags"}
      BY <3>3 DEF Inserts
    <3>5. files = << >> /\ files' = << >>
      BY <1>1, <3>1 DEF FilesInv
    <3>6. \A d \in Threads : /\ pc'[d] \notin Inserts /\ location'[d] = NoSlot
                             /\ pc'[d] # "save_tags"
      BY <3>3, <3>4
    <3>7. "tags" \notin DOMAIN files'
      BY <3>5
    <3> QED BY ONLY <3>2, <3>6, <3>7, AllOwn
  <2> QED BY <2>1, <2>2
<1>6. CASE compact_frozen_point(c)
  <2>1. /\ pc[c] = "freeze" /\ pc' = [pc EXCEPT ![c] = "save"]
        /\ data' \in {data, MovedVector(data, Frozen, nd)}
        /\ nd = MaxPoints => data' = data
        /\ UNCHANGED <<slots, files, insertion>>
    BY <1>6, Sizes DEF compact_frozen_point, stored
  <2>2. Live = 0..(nd - 1)
    BY <1>4, <2>1 DEF SaveInv, Saves
  <2>3. \A s \in Live : s \in Slots /\ s # nd /\ s # Frozen /\ s \in Nodes
    BY <1>1, <1>4, <2>1, <2>2, SlotsFinite DEF TypeOK, Saves
  <2>4. \A s \in Live : data'[s] = data[s]
    BY <1>1, <2>1, <2>3 DEF MovedVector, TypeOK
  <2>5. \A d \in Threads : pc'[d] \notin Inserts \cup {"save_tags"} /\ location'[d] = NoSlot
    BY <1>1, <1>4, <2>1 DEF TypeOK, Saves, Inserts, insertion
  <2>6. \A s \in Live' : data'[s] = location_to_tag'[s]
    BY <1>4, <2>1, <2>4 DEF slots, Live, Saves
  <2>7. files = << >>
    BY <1>1, <2>1 DEF FilesInv
  <2> QED BY <2>1, <2>5, <2>6, <2>7, AllOwn
<1>7. CASE save_graph(c)
  <2>1. /\ pc[c] = "save" /\ pc' = [pc EXCEPT ![c] = "save_data"]
        /\ files' = With(With(files, "start", start), "graph", [n \in 0..nd |-> final_graph[n]])
        /\ UNCHANGED <<slots, data, insertion>>
    BY <1>7 DEF save_graph, graph
  <2>2. \A d \in Threads : pc'[d] \notin Inserts \cup {"save_tags"} /\ location'[d] = NoSlot
    BY <1>1, <1>4, <2>1 DEF TypeOK, Saves, Inserts, insertion
  <2>3. "tags" \notin DOMAIN files'
    BY <1>1, <2>1 DEF FilesInv, With
  <2> QED BY <1>4, <2>1, <2>2, <2>3, AllOwn DEF slots, Live, Saves
<1>8. CASE save_data(c)
  <2>1. /\ pc[c] = "save_data" /\ pc' = [pc EXCEPT ![c] = "save_tags"]
        /\ files' = With(files, "data", [n \in 0..nd |-> data[n]])
        /\ UNCHANGED <<slots, data, insertion>>
    BY <1>8 DEF save_data, graph
  <2>2. \A d \in Threads : pc'[d] \notin Inserts /\ location'[d] = NoSlot
    BY <1>1, <1>4, <2>1 DEF TypeOK, Saves, Inserts, insertion
  <2>3. "tags" \notin DOMAIN files' /\ files'["data"] = [n \in 0..nd |-> data[n]]
    BY <1>1, <2>1 DEF FilesInv, With
  <2>4. Live = 0..(nd - 1)
    BY <1>4, <2>1 DEF SaveInv, Saves
  <2>5. \A s \in 0..(nd' - 1) : files'["data"][s] = location_to_tag'[s]
    BY <1>4, <2>1, <2>3, <2>4 DEF slots, Saves
  <2> QED BY <1>4, <2>1, <2>2, <2>3, <2>5, AllOwn DEF slots, Live, Saves
<1>9. CASE save_tags(c)
  <2>1. /\ pc[c] = "save_tags" /\ pc' = [pc EXCEPT ![c] = "saved"]
        /\ files' = With(files, "tags",
             [n \in 0..nd |-> IF n \in Live THEN location_to_tag[n] ELSE NoTag])
        /\ UNCHANGED <<slots, data, insertion>>
    BY <1>9 DEF save_tags, graph
  <2>2. \A d \in Threads : pc'[d] \notin Inserts \cup {"save_tags"} /\ location'[d] = NoSlot
    BY <1>1, <1>4, <2>1 DEF TypeOK, Saves, Inserts, insertion
  <2>3. Live = 0..(nd - 1)
    BY <1>4, <2>1 DEF SaveInv, Saves
  <2>4. /\ files'["tags"] = [n \in 0..nd |-> IF n \in Live THEN location_to_tag[n] ELSE NoTag]
        /\ files'["data"] = files["data"]
    BY <1>1, <2>1 DEF FilesInv, With
  <2>5. ASSUME NEW m \in 0..MaxPoints, DOMAIN files'["tags"] = 0..m, NEW s \in 0..(m - 1)
        PROVE  files'["data"][s] = files'["tags"][s]
    <3>1. 0..m = 0..nd
      BY <2>4, <2>5
    <3>2. m = nd
      <4>1. m \in 0..m /\ nd \in 0..nd
        BY <1>4, <2>1, Sizes DEF Saves
      <4> QED BY <1>4, <2>1, <3>1, <4>1, Sizes DEF Saves
    <3>3. s \in 0..nd /\ s \in Live
      BY <1>4, <2>1, <2>3, <3>2 DEF Saves
    <3> QED BY <2>1, <2>3, <2>4, <3>2, <3>3 DEF OwnInv
  <2> QED BY <1>4, <2>1, <2>2, <2>5, AllOwn DEF slots, Live, Saves
<1>10. CASE reposition_frozen_point_to_end(c)
  <2>1. /\ pc[c] = "saved" /\ Return(c)
        /\ data' \in {data, MovedVector(data, nd, Frozen)}
        /\ nd = MaxPoints => data' = data
        /\ UNCHANGED <<slots, files>>
    BY <1>10, Sizes DEF reposition_frozen_point_to_end, stored, graph
  <2>2. Live = 0..(nd - 1)
    BY <1>4, <2>1 DEF SaveInv, Saves
  <2>3. \A s \in Live : s \in Slots /\ s # nd /\ s # Frozen /\ s \in Nodes
    BY <1>1, <1>4, <2>1, <2>2, SlotsFinite DEF TypeOK, Saves
  <2>4. \A s \in Live : data'[s] = data[s]
    BY <1>1, <2>1, <2>3 DEF MovedVector, TypeOK
  <2>5. \A d \in Threads : pc'[d] \notin Inserts \cup {"save_tags"} /\ location'[d] = NoSlot
    BY <1>1, <1>4, <2>1 DEF TypeOK, Saves, Inserts, Return
  <2>6. \A s \in Live' : data'[s] = location_to_tag'[s]
    BY <1>4, <2>1, <2>4 DEF slots, Live, Saves
  <2> QED BY <2>1, <2>5, <2>6, AllOwn DEF OwnInv
<1> QED BY <1>3, <1>5, <1>6, <1>7, <1>8, <1>9, <1>10 DEF Saving

\* The mode is chosen by the constructor.
LEMMA NextMode ==
  ASSUME [Next]_vars
  PROVE  conc_consolidate' = conc_consolidate
<1>1. ASSUME NEW c \in Threads, Insertion(c) PROVE conc_consolidate' = conc_consolidate
  <2>1. ASSUME NEW n \in Nodes, LinkBack(c, n) PROVE conc_consolidate' = conc_consolidate
    BY <2>1 DEF LinkBack
  <2>2. ASSUME NEW t \in Tags, insert_point(c, t) PROVE conc_consolidate' = conc_consolidate
    BY <2>2 DEF insert_point
  <2> QED BY <1>1, <2>1, <2>2 DEF Insertion, Reserve, ReserveFull, ReserveDuplicate, WriteVector,
             FindNeighbors, LinkPoint, PruneBack, ReturnInsert
<1>2. ASSUME NEW c \in Threads, Consolidation(c) PROVE conc_consolidate' = conc_consolidate
  <2>1. ASSUME NEW n \in Nodes, ProcessDelete(c, n) PROVE conc_consolidate' = conc_consolidate
    BY <2>1 DEF ProcessDelete
  <2> QED BY <1>2, <2>1 DEF Consolidation, consolidate_deletes, ExcludeUpdates, TryConsolidate,
             TakeDeleted, ReleaseDeleted
<1>3. ASSUME NEW c \in Threads, Saving(c) PROVE conc_consolidate' = conc_consolidate
  BY <1>3 DEF Saving, save, compact_data, compact_frozen_point, save_graph, save_data, save_tags,
     reposition_frozen_point_to_end
<1> QED BY <1>1, <1>2, <1>3 DEF Next, enable_delete, lazy_delete, load, Stopped, vars

\* What is loaded agrees with the files, and the files agree with each other.
LEMMA LoadOwn ==
  ASSUME IInv, OwnInv, load
  PROVE  OwnInv'
<1>1. CASE DOMAIN files # {"graph", "start", "data", "tags"}
  <2>1. UNCHANGED <<location, location_to_tag, data, files, nd, pc, tag, empty_slots, usage>>
    BY <1>1 DEF load, slots, graph, insertion
  <2>2. Free' = Free
    BY <2>1 DEF Free
  <2> QED BY <2>1, <2>2, OwnKept DEF OwnInv
<1>2. CASE DOMAIN files = {"graph", "start", "data", "tags"}
  <2>1. PICK m \in 0..MaxPoints : Loaded(m)
    BY <1>2, LoadFacts
  <2>2. /\ \A d \in Threads : pc'[d] = "idle" /\ location'[d] = NoSlot
        /\ Live' = 0..(m - 1) /\ files' = files /\ DOMAIN files["tags"] = 0..m
        /\ \A s \in 0..(m - 1) : location_to_tag'[s] = files["tags"][s]
        /\ data' = MovedVector(load_data, m, Frozen)
        /\ DOMAIN files["data"] = 0..m /\ m \in Nat /\ m \in Nodes /\ 0..(m - 1) \subseteq Slots
    BY <2>1 DEF Loaded
  <2>3. ASSUME NEW s \in 0..(m - 1) PROVE data'[s] = location_to_tag'[s]
    <3>1. s # m /\ s # Frozen /\ s \in Nodes /\ s \in 0..m
      BY <2>2, SlotsFinite
    <3>2. load_data[s] = files["data"][s] /\ load_data = [x \in Nodes |-> load_data[x]]
      BY <2>2, <3>1 DEF load_data
    <3>3. MovedVector(load_data, m, Frozen)[s] = load_data[s]
      BY <3>1, <3>2 DEF MovedVector
    <3>4. files["data"][s] = files["tags"][s]
      BY <1>2, <2>2 DEF OwnInv
    <3> QED BY <2>2, <3>2, <3>3, <3>4
  <2>4. "tags" \in DOMAIN files' =>
           \A k \in 0..MaxPoints : DOMAIN files'["tags"] = 0..k =>
             \A s \in 0..(k - 1) : files'["data"][s] = files'["tags"][s]
    BY <2>2 DEF OwnInv
  <2>5. \A d \in Threads : pc'[d] \notin Inserts /\ location'[d] = NoSlot /\ pc'[d] # "save_tags"
    BY <2>2 DEF Inserts
  <2> QED BY <2>2, <2>3, <2>4, <2>5, AllOwn
<1> QED BY <1>1, <1>2

\* A deletion takes away points and changes none.
LEMMA DeleteOwn ==
  ASSUME IInv, LockInv, OwnInv, UsedAsMeant', NEW c \in Threads,
         enable_delete(c) \/ \E tags \in (SUBSET Tags) \ {{}} : lazy_delete(c, tags)
  PROVE  OwnInv'
<1>1. TypeOK
  BY DEF IInv
<1>2. CASE enable_delete(c)
  <2>1. /\ UNCHANGED <<location, location_to_tag, data, files, nd, pc, tag>>
        /\ update_readers = {} /\ usage' # "built"
    BY <1>2 DEF enable_delete, insertion, graph, stored
  <2>2. \A d \in Threads : pc[d] \notin Inserts
    BY <2>1 DEF LockInv
  <2> QED BY <2>1, <2>2, OwnKept
<1>3. ASSUME NEW tags \in (SUBSET Tags) \ {{}}, lazy_delete(c, tags) PROVE OwnInv'
  <2>1. /\ UNCHANGED <<location, data, files, nd, pc, tag, empty_slots>>
        /\ usage' # "built" /\ pc[c] = "idle" /\ update_writer = Nobody
        /\ Live' \subseteq Live /\ \A s \in Live' : location_to_tag'[s] = location_to_tag[s]
    BY <1>3 DEF lazy_delete, insertion, graph, stored, Calls, Restrict, Live, NeedsFreeSlots
  <2>2. \A d \in Threads : pc[d] # "save_tags"
    BY <2>1, Sizes DEF IInv, SaveInv, Saves
  <2>3. Free' = Free
    BY <2>1 DEF Free
  <2>4. SlotKeepsVector'
    BY <2>1 DEF OwnInv, SlotKeepsVector, Inserting
  <2>5. ASSUME NEW d \in Threads
        PROVE  /\ location'[d] # NoSlot <=> pc'[d] \in Inserts
               /\ pc'[d] \in Inserts =>
                    /\ location'[d] \notin Free'
                    /\ usage' = "built" => location'[d] \in Live'
                    /\ \A e \in Threads \ {d} : pc'[e] \in Inserts => location'[e] # location'[d]
                    /\ location'[d] \in Live' => location_to_tag'[location'[d]] = tag'[d]
                    /\ pc'[d] # "write" => data'[location'[d]] = tag'[d]
    BY <2>1, <2>3 DEF OwnInv
  <2> QED BY <2>1, <2>2, <2>4, <2>5 DEF OwnInv
<1> QED BY <1>2, <1>3

\* Every step keeps the vectors where they belong.
LEMMA NextVectors ==
  ASSUME IInv, VectorsKept, [Next]_vars, UsedAsMeant'
  PROVE  VectorsKept'
<1>1. LockInv'
  BY NextLocks DEF VectorsKept
<1>2. conc_consolidate' = conc_consolidate
  BY NextMode
<1>3. ASSUME ~conc_consolidate PROVE OwnInv'
  <2>1. LockInv /\ OwnInv
    BY <1>3 DEF VectorsKept
  <2>2. CASE UNCHANGED vars
    <3>1. UNCHANGED <<location, location_to_tag, data, files, nd, pc, tag, empty_slots, usage>>
      BY <2>2 DEF vars, slots, graph, stored, insertion
    <3>2. Free' = Free
      BY <3>1 DEF Free
    <3> QED BY <2>1, <3>1, <3>2, OwnKept DEF OwnInv
  <2> QED BY <1>3, <2>1, <2>2, InsertionOwn, ConsolidationOwn, SavingOwn, LoadOwn, DeleteOwn
          DEF Next, Stopped
<1> QED BY <1>1, <1>2, <1>3 DEF VectorsKept

\* Slots that are being filled are nobody else's, and hold the vector that was
\* copied to them (insert_point of src/index.cpp).
THEOREM VectorsInvariance ==
  ASSUME ~SavesWithHoles
  PROVE  Spec => [](UsedAsMeant => VectorsKept)
<1>1. Init => (UsedAsMeant => VectorsKept)
  <2> SUFFICES ASSUME Init PROVE LockInv /\ OwnInv
    BY DEF VectorsKept
  <2>1. LockInv
    BY DEF Init, LockInv, Inserts
  <2>2. /\ nd \in Nat /\ nd <= MaxPoints /\ 0..(nd - 1) \subseteq Nodes
        /\ Live = 0..(nd - 1)
    <3>1. nd \in 0..MaxPoints
      BY IndexAssumption DEF Init, IndexAssumption
    <3>2. nd \in Nat /\ nd <= MaxPoints
      BY <3>1, Sizes
    <3>3. Live = 0..(nd - 1)
      BY DEF Init, Live
    <3> QED BY <3>2, <3>3, SlotsFinite, Sizes
  <2>3. \A s \in Live : data[s] = location_to_tag[s]
    BY <2>2 DEF Init
  <2>4. \A d \in Threads : pc[d] = "idle" /\ location[d] = NoSlot
    BY DEF Init
  <2>5. "tags" \notin DOMAIN files
    BY DEF Init
  <2> QED BY <2>1, <2>3, <2>4, <2>5 DEF OwnInv, SlotKeepsVector, Inserts
<1>2. (UsedAsMeant => IInv) /\ (UsedAsMeant => VectorsKept) /\ [Next]_vars
        => (UsedAsMeant => VectorsKept)'
  BY NextVectors, WhileUsedAsMeant
<1> QED BY <1>1, <1>2, Invariance, PTL DEF Spec

\* Without concurrent consolidation, a point whose insertion has returned has
\* its own vector in its slot, whoever inserts, deletes, consolidates, renumbers
\* the slots or loads them again (insert_point and compact_data of src/index.cpp).
THEOREM VectorsStayOwn ==
  ASSUME ~SavesWithHoles
  PROVE  Spec => [](UsedAsMeant => VectorIsItsOwn)
<1>1. VectorsKept => VectorIsItsOwn
  BY DEF VectorsKept, OwnInv, VectorIsItsOwn
<1> QED BY <1>1, VectorsInvariance, PTL
-----------------------------------------------------------------------------
(***************************************************************************)
(* The edges.                                                              *)
(***************************************************************************)
\* The graph that the index is built with: the frozen point is not its own
\* neighbour, and a slot without a point has no list.
BuiltClean ==
  \A n \in StartPoints : /\ Frozen \notin StartGraph(n)[Frozen]
                         /\ \A s \in Slots \ (0..(n - 1)) : StartGraph(n)[s] = {}

\* With lists of two, an insertion that takes the first points is the only one to
\* have a slot.  With longer ones it may take a point that is not linked yet.
FewTogether == SparseTogether => IndexingRange = 2

\* The slots that hold nothing, free or not yet entered, and those of the points
\* that are not linked yet: the ones that a traversal must not see.
Unused == Slots \ (Live \cup delete_set \cup Leaving \cup {start})
Filling == {s \in Slots : \E c \in Threads : location[c] = s /\ pc[c] \in {"write", "search", "link"}}
Unseen == Unused \cup Filling

\* No edge of a list that a traversal may read leads to one of them; before any
\* deletion their own lists are empty.
GraphInv ==
  /\ \A n \in Nodes \ Unseen : final_graph[n] \cap Unseen = {}
  /\ data_compacted => /\ delete_set = {} /\ Leaving = {}
                       /\ \A n \in Unseen : final_graph[n] = {}
  /\ final_graph[start] \cap {start, Frozen} = {}

\* Nor does an edge that an insertion is about to write.
LinkInv(c) ==
  /\ pc[c] = "link" => pruned_list[c] \cap Unseen \subseteq {location[c]}
  /\ pc[c] \in {"back", "prune"} => pruned_list[c] \cap Unseen = {}
  /\ pc[c] = "prune" => copy_of_neighbors[c] \cap Unseen = {} /\ des[c] \notin Unseen
  /\ \A d \in Threads \ {c} :
       pc[c] \in Inserts \cup {"reserve"} /\ pc[d] \in Inserts \cup {"reserve"}
         => SparseTogether \/ nd >= IndexingRange

\* No list that a consolidation has been through leads to a slot it will free.
ScanInv(c) ==
  pc[c] = "scan" =>
    \A n \in Nodes \ (Unused \cup old_delete_set[c] \cup unscanned[c]) :
      final_graph[n] \cap old_delete_set[c] = {}

\* While an index is saved the frozen point is behind the others.
FreezesOver == {"save", "save_data", "save_tags", "saved"}
StartInv ==
  /\ \A c \in Threads : pc[c] \in FreezesOver => start = nd
  /\ (\A c \in Threads : pc[c] \notin FreezesOver) => start = Frozen

\* The edges in the files lead to the points in the files.
GraphFileInv ==
  /\ \A c \in Threads : pc[c] = "save_data" => DOMAIN files["graph"] = 0..nd
  /\ "graph" \in DOMAIN files =>
       \E m \in 0..MaxPoints :
         /\ DOMAIN files["graph"] = 0..m
         /\ \A n \in 0..m : files["graph"][n] \subseteq 0..m \cup {Frozen}
         /\ files["graph"][m] \cap {m, Frozen} = {}
  /\ "data" \in DOMAIN files => DOMAIN files["data"] = DOMAIN files["graph"]

EdgeInv ==
  /\ GraphInv
  /\ \A c \in Threads : LinkInv(c) /\ ScanInv(c)
  /\ StartInv
  /\ GraphFileInv

EdgesKept == ~conc_consolidate => EdgeInv

-----------------------------------------------------------------------------
\* Lists and slots are as they were.
LEMMA GraphKept ==
  ASSUME GraphInv, UNCHANGED <<final_graph, start, data_compacted, delete_set, Leaving>>,
         Unseen' = Unseen
  PROVE  GraphInv'
BY DEF GraphInv

\* The frozen point is where it was.
LEMMA StartKept ==
  ASSUME StartInv, UNCHANGED start,
         \A d \in Threads : pc'[d] \in FreezesOver <=> pc[d] \in FreezesOver,
         nd' = nd \/ \A d \in Threads : pc[d] \notin FreezesOver
  PROVE  StartInv'
BY DEF StartInv

\* The files are as they were.
LEMMA FilesKept ==
  ASSUME GraphFileInv, UNCHANGED files,
         \A d \in Threads : pc'[d] = "save_data" => pc[d] = "save_data",
         nd' = nd \/ \A d \in Threads : pc[d] # "save_data"
  PROVE  GraphFileInv'
BY DEF GraphFileInv

\* Nobody enters or leaves the part of an insertion before the point is linked.
LEMMA FillingKept ==
  ASSUME \A d \in Threads :
           /\ pc'[d] \in {"write", "search", "link"} <=> pc[d] \in {"write", "search", "link"}
           /\ pc[d] \in {"write", "search", "link"} => location'[d] = location[d]
  PROVE  Filling' = Filling
BY DEF Filling

\* Once the free slots are entered, they are the ones that hold nothing.
LEMMA UnusedFree ==
  ASSUME IInv, usage = "enabled"
  PROVE  Unused = Free \ {start}
<1>1. PlacesInv
  BY DEF IInv, SlotsInv
<1>2. /\ Slots = Free \cup Live \cup delete_set \cup Leaving
      /\ Free \cap Live = {} /\ Free \cap delete_set = {}
  BY <1>1 DEF PlacesInv
<1>3. Free \cap Leaving = {}
  BY <1>1 DEF PlacesInv, Leaving
<1> QED BY <1>2, <1>3 DEF Unused

\* While somebody inserts, nobody saves or scans, the frozen point is in its
\* place, and a slot that is being filled is not an unused one.
LEMMA WhileInserting ==
  ASSUME IInv, LockInv, OwnInv, EdgeInv, ~conc_consolidate,
         NEW c \in Threads, pc[c] \in Inserts \cup {"reserve"}
  PROVE  /\ start = Frozen /\ start \notin Unseen
         /\ \A d \in Threads : /\ pc[d] \notin Saves /\ pc[d] \notin FreezesOver
                               /\ pc[d] # "scan"
                               /\ pc[d] \in Inserts => /\ location[d] \in Slots
                                                       /\ location[d] \notin Unused
<1>1. usage \in {"built", "enabled"} /\ \A d \in Threads : pc[d] \notin Saves
  BY AtWork DEF Inserts, Saves
<1>2. \A d \in Threads : pc[d] \notin FreezesOver
  BY <1>1 DEF FreezesOver, Saves
<1>3. start = Frozen
  BY <1>2 DEF EdgeInv, StartInv
<1>4. \A d \in Threads : pc[d] # "scan"
  BY Sizes DEF LockInv
<1>5. ASSUME NEW d \in Threads, pc[d] \in Inserts
      PROVE  location[d] \in Slots /\ location[d] \notin Unused
  <2>1. location[d] \in Slots
    BY <1>5 DEF IInv, ThreadInv
  <2>2. CASE usage = "enabled"
    <3>1. Unused = Free \ {start}
      BY <2>2, UnusedFree
    <3> QED BY <1>5, <2>1, <3>1 DEF OwnInv
  <2>3. CASE usage = "built"
    BY <1>5, <2>1, <2>3 DEF OwnInv, Unused
  <2> QED BY <1>1, <2>2, <2>3
<1>6. start \notin Unseen
  BY <1>3, SlotsFinite DEF Unseen, Unused, Filling
<1> QED BY <1>1, <1>2, <1>3, <1>4, <1>5, <1>6

\* A step of an insertion: what is left to show is that the graph is right, and
\* what the thread is about to write.
LEMMA InsertionStep ==
  ASSUME IInv, LockInv, OwnInv, EdgeInv, ~conc_consolidate,
         NEW c \in Threads, pc[c] \in Inserts \cup {"reserve"},
         pc'[c] \in Inserts \cup {"idle"},
         \A d \in Threads \ {c} :
           /\ pc'[d] = pc[d] /\ pruned_list'[d] = pruned_list[d] /\ des'[d] = des[d]
           /\ copy_of_neighbors'[d] = copy_of_neighbors[d] /\ location'[d] = location[d],
         UNCHANGED <<start, files>>, nd' \in {nd, nd + 1},
         GraphInv', Unseen' \subseteq Unseen,
         pc'[c] = "link" => pruned_list'[c] \cap Unseen' \subseteq {location'[c]},
         pc'[c] \in {"back", "prune"} => pruned_list'[c] \cap Unseen' = {},
         pc'[c] = "prune" => copy_of_neighbors'[c] \cap Unseen' = {} /\ des'[c] \notin Unseen'
  PROVE  EdgeInv'
<1>1. \A d \in Threads : pc[d] \notin Saves /\ pc[d] \notin FreezesOver /\ pc[d] # "scan"
  BY WhileInserting
<1>2. \A d \in Threads : pc'[d] \notin FreezesOver /\ pc'[d] # "scan" /\ pc'[d] # "save_data"
  BY <1>1 DEF FreezesOver, Inserts
<1>3. StartInv'
  BY <1>1, <1>2, StartKept DEF EdgeInv
<1>4. GraphFileInv'
  BY <1>1, <1>2, FilesKept DEF EdgeInv, Saves
<1>5. ASSUME NEW d \in Threads PROVE LinkInv(d)'
  <2>1. ASSUME NEW e \in Threads \ {d}, pc'[d] \in Inserts \cup {"reserve"},
               pc'[e] \in Inserts \cup {"reserve"}
        PROVE  SparseTogether \/ nd' >= IndexingRange
    <3>1. pc[d] \in Inserts \cup {"reserve"} /\ pc[e] \in Inserts \cup {"reserve"}
      BY <2>1
    <3>2. SparseTogether \/ nd >= IndexingRange
      BY <3>1 DEF EdgeInv, LinkInv
    <3> QED BY <3>2, Sizes DEF IInv, TypeOK
  <2>2. CASE d = c
    BY <2>1, <2>2 DEF LinkInv
  <2>3. CASE d # c
    BY <2>1, <2>3 DEF LinkInv, EdgeInv
  <2> QED BY <2>2, <2>3
<1>6. \A d \in Threads : ScanInv(d)'
  BY <1>2 DEF ScanInv
<1> QED BY <1>3, <1>4, <1>5, <1>6 DEF EdgeInv

\* A traversal sees linked points only.
LEMMA ReachSeen ==
  ASSUME TypeOK, GraphInv, start \notin Unseen
  PROVE  Reach \cap Unseen = {}
<1> DEFINE seen == Nodes \ Unseen
<1>1. seen \in SUBSET Nodes /\ start \in seen
  BY DEF TypeOK
<1>2. Closed(seen)
  BY DEF Closed, GraphInv, TypeOK
<1>3. \A n \in Reach : n \in seen
  BY <1>1, <1>2 DEF Reach
<1> QED BY <1>3

\* A call begins: nobody else inserts, or there are points enough.
LEMMA BeginEdges ==
  ASSUME IInv, LockInv, OwnInv, EdgeInv, ~conc_consolidate,
         NEW c \in Threads, NEW t \in Tags, insert_point(c, t)
  PROVE  EdgeInv'
<1>1. /\ pc[c] = "idle" /\ pc' = [pc EXCEPT ![c] = "reserve"] /\ update_writer = Nobody
      /\ SparseTogether \/ nd >= IndexingRange \/ update_readers = {}
      /\ UNCHANGED <<slots, graph, files, location, pruned_list, des, copy_of_neighbors,
                     consolidation>>
  BY DEF insert_point, Calls, Goto, stored
<1>2. pc'[c] = "reserve" /\ \A d \in Threads \ {c} : pc'[d] = pc[d]
  BY <1>1 DEF IInv, TypeOK
<1>3. Unused' = Unused /\ Leaving' = Leaving
  BY <1>1 DEF Unused, Leaving, Live, slots, graph, consolidation
<1>4. Filling' = Filling
  BY <1>1, <1>2, FillingKept
<1>5. Unseen' = Unseen
  BY <1>3, <1>4 DEF Unseen
<1>6. GraphInv'
  BY <1>1, <1>3, <1>5, GraphKept DEF EdgeInv, slots, graph
<1>7. StartInv'
  BY <1>1, <1>2, StartKept DEF EdgeInv, FreezesOver, slots, graph
<1>8. GraphFileInv'
  BY <1>1, <1>2, FilesKept DEF EdgeInv, slots
<1>9. ASSUME NEW d \in Threads PROVE LinkInv(d)'
  <2>1. ASSUME NEW e \in Threads \ {d}, pc'[d] \in Inserts \cup {"reserve"},
               pc'[e] \in Inserts \cup {"reserve"}
        PROVE  SparseTogether \/ nd' >= IndexingRange
    BY <1>1, <1>2, <2>1 DEF LockInv, EdgeInv, LinkInv, slots
  <2>2. CASE d = c
    BY <1>2, <2>1, <2>2 DEF LinkInv
  <2>3. CASE d # c
    BY <1>1, <1>2, <1>5, <2>1, <2>3 DEF LinkInv, EdgeInv
  <2> QED BY <2>2, <2>3
<1>10. ASSUME NEW d \in Threads PROVE ScanInv(d)'
  BY <1>1, <1>2, <1>3 DEF EdgeInv, ScanInv, graph, consolidation
<1> QED BY <1>6, <1>7, <1>8, <1>9, <1>10 DEF EdgeInv

\* The slot that is reserved was free, and is now being filled.
LEMMA ReserveEdges ==
  ASSUME IInv, LockInv, OwnInv, EdgeInv, ~conc_consolidate, NEW c \in Threads, Reserve(c)
  PROVE  EdgeInv'
<1> DEFINE s == Reserved
<1>1. /\ pc[c] = "reserve" /\ s \in Slots /\ s \notin Live
      /\ s \notin delete_set /\ \A d \in Threads : s \notin old_delete_set[d]
      /\ Live' = Live \cup {s} /\ nd' = nd + 1
      /\ location' = [location EXCEPT ![c] = s] /\ pc' = [pc EXCEPT ![c] = "write"]
      /\ UNCHANGED <<graph, files, delete_set, data_compacted, pruned_list, des,
                     copy_of_neighbors, old_delete_set>>
  BY ReserveFacts DEF stored
<1> HIDE DEF s
<1>2. /\ pc'[c] = "write" /\ location'[c] = s
      /\ \A d \in Threads \ {c} : pc'[d] = pc[d] /\ location'[d] = location[d]
  BY <1>1 DEF IInv, TypeOK
<1>3. s \in Unused
  <2>1. start = Frozen
    BY <1>1, WhileInserting
  <2> QED BY <1>1, <2>1, SlotsFinite DEF Unused, Leaving
<1>4. Leaving' = Leaving
  BY <1>1 DEF Leaving
<1>5. Unused' = Unused \ {s}
  BY <1>1, <1>4 DEF Unused, graph
<1>6. Filling' = Filling \cup {s}
  BY <1>1, <1>2 DEF Filling
<1>7. Unseen' = Unseen
  BY <1>1, <1>3, <1>5, <1>6 DEF Unseen
<1>8. GraphInv'
  BY <1>1, <1>4, <1>7, GraphKept DEF EdgeInv, graph
<1> QED BY <1>1, <1>2, <1>7, <1>8, InsertionStep DEF Inserts, graph

\* The vector is written, or the call ends.
LEMMA QuietEdges ==
  ASSUME IInv, LockInv, OwnInv, EdgeInv, ~conc_consolidate, NEW c \in Threads,
         WriteVector(c) \/ ReserveFull(c) \/ ReserveDuplicate(c) \/ ReturnInsert(c)
  PROVE  EdgeInv'
<1>1. /\ pc[c] \in Inserts \cup {"reserve"}
      /\ \/ pc[c] = "write" /\ pc' = [pc EXCEPT ![c] = "search"] /\ UNCHANGED <<insertion, old_delete_set>>
         \/ pc[c] \in {"reserve", "back"} /\ Return(c)
      /\ UNCHANGED <<slots, final_graph, start, files>>
  <2>1. CASE WriteVector(c)
    BY <2>1 DEF WriteVector, At, Goto, stored, Inserts, consolidation
  <2>2. CASE ReserveFull(c) \/ ReserveDuplicate(c)
    BY <2>2, NotReservedFacts DEF graph, stored
  <2>3. CASE ReturnInsert(c)
    BY <2>3 DEF ReturnInsert, At, graph, stored, Inserts
  <2> QED BY <2>1, <2>2, <2>3
<1>2. \/ pc[c] = "write" /\ pc'[c] = "search"
      \/ pc[c] \in {"reserve", "back"} /\ pc'[c] = "idle"
  BY <1>1 DEF IInv, TypeOK, Return, Goto
<1>3. \A d \in Threads \ {c} :
        /\ pc'[d] = pc[d] /\ pruned_list'[d] = pruned_list[d] /\ des'[d] = des[d]
        /\ copy_of_neighbors'[d] = copy_of_neighbors[d] /\ location'[d] = location[d]
        /\ old_delete_set'[d] = old_delete_set[d]
  BY <1>1 DEF IInv, TypeOK, Return, Goto, insertion
<1>4. Leaving' = Leaving
  <2>1. old_delete_set[c] = {}
    BY <1>2 DEF IInv, ThreadInv
  <2>2. old_delete_set'[c] = {}
    BY <1>1, <2>1 DEF IInv, TypeOK, Return
  <2> QED BY <1>3, <2>1, <2>2 DEF Leaving
<1>5. Unused' = Unused
  BY <1>1, <1>4 DEF Unused, Live, slots
<1>6. Filling' = Filling
  <2>1. \A d \in Threads : pc[d] \in {"write", "search", "link"} => location'[d] = location[d]
    BY <1>1, <1>2, <1>3 DEF insertion
  <2> QED BY <1>2, <1>3, <2>1, FillingKept
<1>7. Unseen' = Unseen
  BY <1>5, <1>6 DEF Unseen
<1>8. GraphInv'
  BY <1>1, <1>4, <1>7, GraphKept DEF EdgeInv, slots
<1> QED BY <1>1, <1>2, <1>3, <1>7, <1>8, InsertionStep DEF Inserts, slots

\* Two insertions that have their slots.
LEMMA TwoSlots ==
  ASSUME IInv, OwnInv, NEW c \in Threads, NEW d \in Threads \ {c},
         pc[c] \in Inserts, pc[d] \in Inserts
  PROVE  nd >= 2
<1> DEFINE s == location[c]
           t == location[d]
<1>1. s \in Slots \ Free /\ t \in Slots \ Free /\ s # t
  BY DEF IInv, ThreadInv, OwnInv
<1>2. usage \in {"built", "enabled"} /\ nd \in Int
  <2>1. usage \in {"built", "enabled"}
    BY AtWork DEF Inserts, Saves
  <2>2. nd \in Int
    BY Sizes DEF IInv, TypeOK
  <2> QED BY <2>1, <2>2
<1>3. CASE usage = "built"
  <2>1. s \in Live /\ t \in Live
    BY <1>3 DEF OwnInv
  <2>2. Live = 0..(nd - 1)
    BY <1>3 DEF IInv, SlotsInv
  <2> HIDE DEF s, t
  <2> QED BY <1>1, <1>2, <2>1, <2>2
<1>4. CASE usage = "enabled"
  <2>1. /\ Free \subseteq Slots /\ Len(empty_slots.values) + nd = MaxPoints
        /\ empty_slots.values \in Seq(Slots) /\ NoRepeat(empty_slots.values)
    BY <1>4, Sizes DEF IInv, SlotsInv, PlacesInv, TypeOK
  <2>2. IsFiniteSet(Free) /\ Cardinality(Free) = Len(empty_slots.values)
    BY <2>1, NoRepeatCount DEF Free
  <2> HIDE DEF s, t
  <2>3. /\ IsFiniteSet({s}) /\ Cardinality({s}) = 1 /\ IsFiniteSet({t}) /\ Cardinality({t}) = 1
    BY FS_Singleton
  <2>4. Free \cap {s} = {} /\ (Free \cup {s}) \cap {t} = {}
    BY <1>1
  <2>5. /\ IsFiniteSet(Free \cup {s}) /\ Cardinality(Free \cup {s}) = Cardinality(Free) + 1
    BY <2>2, <2>3, <2>4, DisjointSum
  <2>6. Cardinality(Free \cup {s} \cup {t}) = Cardinality(Free) + 1 + 1
    <3>1. Cardinality((Free \cup {s}) \cup {t}) = Cardinality(Free \cup {s}) + Cardinality({t})
      BY <2>3, <2>4, <2>5, DisjointSum
    <3> QED BY ONLY <3>1, <2>3, <2>5
  <2>7. (Free \cup {s} \cup {t}) \in SUBSET Slots
    BY <1>1, <2>1
  <2>8. Cardinality(Free \cup {s} \cup {t}) <= MaxPoints
    BY <2>7, SlotsFinite, FS_Subset
  <2>9. Len(empty_slots.values) \in Nat /\ MaxPoints \in Nat
    BY <2>1, Sizes, LenProperties
  <2> QED BY <1>2, <2>1, <2>2, <2>6, <2>8, <2>9
<1> QED BY <1>2, <1>3, <1>4

\* The neighbours chosen are points that are linked, or the point itself.
LEMMA SearchEdges ==
  ASSUME IInv, LockInv, OwnInv, EdgeInv, ~conc_consolidate, FewTogether,
         NEW c \in Threads, FindNeighbors(c)
  PROVE  EdgeInv'
<1>1. /\ pc[c] = "search" /\ pc' = [pc EXCEPT ![c] = "link"]
      /\ \E p : /\ pruned_list' = [pruned_list EXCEPT ![c] = p]
                /\ IF nd >= IndexingRange
                     THEN p \in Pruned(Reach \ ({location[c]} \cup delete_set))
                     ELSE p = FirstPoints
      /\ UNCHANGED <<slots, graph, files, location, des, copy_of_neighbors, old_delete_set>>
  BY DEF FindNeighbors, At, Goto, stored, consolidation
<1>2. PICK p : /\ pruned_list' = [pruned_list EXCEPT ![c] = p]
               /\ IF nd >= IndexingRange
                    THEN p \in Pruned(Reach \ ({location[c]} \cup delete_set))
                    ELSE p = FirstPoints
  BY <1>1
<1>3. /\ pc'[c] = "link" /\ pruned_list'[c] = p
      /\ \A d \in Threads \ {c} : pc'[d] = pc[d] /\ pruned_list'[d] = pruned_list[d]
  BY <1>1, <1>2 DEF IInv, TypeOK
<1>4. Leaving' = Leaving /\ Unused' = Unused
  BY <1>1 DEF Leaving, Unused, Live, slots, graph
<1>5. Filling' = Filling
  BY <1>1, <1>3, FillingKept
<1>6. Unseen' = Unseen
  BY <1>4, <1>5 DEF Unseen
<1>7. GraphInv'
  BY <1>1, <1>4, <1>6, GraphKept DEF EdgeInv, slots, graph
<1>8. start = Frozen /\ start \notin Unseen
  BY <1>1, WhileInserting DEF Inserts
<1>9. p \cap Unseen \subseteq {location[c]}
  <2>1. CASE nd >= IndexingRange
    <3>1. p \subseteq Reach
      BY <1>2, <2>1 DEF Pruned
    <3>2. Reach \cap Unseen = {}
      BY <1>8, ReachSeen DEF IInv, EdgeInv
    <3> QED BY <3>1, <3>2
  <2>2. CASE ~(nd >= IndexingRange)
    <3>1. p = FirstPoints
      BY <1>2, <2>2
    <3>2. \A d \in Threads \ {c} : pc[d] \notin Inserts
      <4>1. ASSUME NEW d \in Threads \ {c}, pc[d] \in Inserts PROVE FALSE
        <5>1. SparseTogether
          BY <1>1, <2>2, <4>1 DEF EdgeInv, LinkInv, Inserts
        <5>2. nd >= 2
          BY <1>1, <4>1, TwoSlots DEF Inserts
        <5> QED BY <2>2, <5>1, <5>2 DEF FewTogether
      <4> QED BY <4>1
    <3>3. Filling \subseteq {location[c]}
      BY <3>2 DEF Filling, Inserts
    <3>4. FirstPoints \subseteq {Frozen} \cup Live
      BY DEF FirstPoints
    <3> QED BY <1>8, <3>1, <3>3, <3>4 DEF Unseen, Unused
  <2> QED BY <2>1, <2>2
<1> QED BY <1>1, <1>3, <1>6, <1>7, <1>9, InsertionStep DEF Inserts, slots, graph

\* While lists change and slots do not, a list that avoids the unseen slots may
\* be written to a node that is not one of them.
LEMMA ListWritten ==
  ASSUME TypeOK, GraphInv, NEW n \in Nodes \ Unseen', NEW g \in SUBSET Nodes,
         final_graph' = [final_graph EXCEPT ![n] = g],
         g \cap Unseen' = {}, Frozen # n \/ Frozen \notin g, start = Frozen,
         Unseen' \subseteq Unseen, Unseen \ Unseen' \subseteq {n},
         UNCHANGED <<start, data_compacted, delete_set, Leaving>>
  PROVE  GraphInv'
<1>1. final_graph'[n] = g /\ \A m \in Nodes \ {n} : final_graph'[m] = final_graph[m]
  BY DEF TypeOK
<1>2. \A m \in Nodes \ Unseen' : final_graph'[m] \cap Unseen' = {}
  BY <1>1 DEF GraphInv
<1>3. data_compacted' => /\ delete_set' = {} /\ Leaving' = {}
                         /\ \A m \in Unseen' : final_graph'[m] = {}
  <2>1. Unseen \subseteq Nodes
    BY SlotsFinite DEF Unseen, Unused, Filling
  <2> QED BY <1>1, <2>1 DEF GraphInv
<1>4. final_graph'[start'] \cap {start', Frozen} = {}
  BY <1>1, SlotsFinite DEF GraphInv
<1> QED BY <1>2, <1>3, <1>4 DEF GraphInv

\* The point is linked: from now on its slot may be seen.
LEMMA LinkEdges ==
  ASSUME IInv, LockInv, OwnInv, EdgeInv, ~conc_consolidate, NEW c \in Threads, LinkPoint(c)
  PROVE  EdgeInv'
<1> DEFINE s == location[c]
<1>1. /\ pc[c] = "link" /\ pc' = [pc EXCEPT ![c] = "back"]
      /\ final_graph' = [final_graph EXCEPT ![s] = pruned_list[c]]
      /\ UNCHANGED <<slots, start, files, insertion, old_delete_set>>
  <2>1. {n \in pruned_list[c] : conc_consolidate => n \in DOMAIN location_to_tag} = pruned_list[c]
    OBVIOUS
  <2> QED BY <2>1 DEF LinkPoint, At, Goto, stored, consolidation
<1>2. /\ start = Frozen /\ s \in Slots /\ s \notin Unused
      /\ s # Frozen /\ s \in Nodes
  BY <1>1, WhileInserting, SlotsFinite DEF Inserts
<1>3. pc'[c] = "back" /\ \A d \in Threads \ {c} : pc'[d] = pc[d]
  BY <1>1 DEF IInv, TypeOK
<1>4. Leaving' = Leaving /\ Unused' = Unused
  BY <1>1 DEF Leaving, Unused, Live, slots
<1>5. Filling' = Filling \ {s}
  <2>1. \A d \in Threads \ {c} : pc[d] \in {"write", "search", "link"} => location[d] # s
    BY <1>1 DEF OwnInv, Inserts
  <2> QED BY <1>1, <1>3, <2>1 DEF Filling, insertion
<1>6. Unseen' = Unseen \ {s}
  BY <1>2, <1>4, <1>5 DEF Unseen
<1>7. pruned_list[c] \cap Unseen' = {} /\ pruned_list[c] \in SUBSET Nodes
  BY <1>1, <1>6 DEF EdgeInv, LinkInv, IInv, TypeOK
<1>8. GraphInv'
  <2> HIDE DEF s
  <2>1. /\ TypeOK /\ GraphInv /\ s \in Nodes \ Unseen' /\ Unseen' \subseteq Unseen
        /\ Unseen \ Unseen' \subseteq {s}
        /\ UNCHANGED <<start, data_compacted, delete_set, Leaving>>
    BY <1>1, <1>2, <1>4, <1>6 DEF EdgeInv, IInv, slots
  <2> QED BY <1>1, <1>2, <1>7, <2>1, ListWritten
<1> QED BY <1>1, <1>3, <1>6, <1>7, <1>8, InsertionStep DEF Inserts, insertion, slots

\* A neighbour is linked back, or its list is read to be pruned.
LEMMA BackEdges ==
  ASSUME IInv, LockInv, OwnInv, EdgeInv, ~conc_consolidate, NEW c \in Threads,
         (\E n \in Nodes : LinkBack(c, n)) \/ PruneBack(c)
  PROVE  EdgeInv'
<1>1. /\ pc[c] \in {"back", "prune"}
      /\ pc' = pc \/ pc' = [pc EXCEPT ![c] = "prune"] \/ pc' = [pc EXCEPT ![c] = "back"]
      /\ UNCHANGED <<slots, start, files, location, old_delete_set>>
      /\ \A d \in Threads \ {c} : /\ pruned_list'[d] = pruned_list[d] /\ des'[d] = des[d]
                                  /\ copy_of_neighbors'[d] = copy_of_neighbors[d]
  <2>1. ASSUME NEW n \in Nodes, LinkBack(c, n)
        PROVE  /\ pc[c] = "back" /\ UNCHANGED <<slots, start, files, location, old_delete_set>>
               /\ pc' = pc \/ pc' = [pc EXCEPT ![c] = "prune"]
               /\ pruned_list' = [pruned_list EXCEPT ![c] = @ \ {n}] \/ UNCHANGED pruned_list
               /\ des' = [des EXCEPT ![c] = n] \/ UNCHANGED des
               /\ \/ copy_of_neighbors' = [copy_of_neighbors EXCEPT ![c] = final_graph[n] \cup {location[c]}]
                  \/ UNCHANGED copy_of_neighbors
    BY <2>1 DEF LinkBack, At, Goto, stored, consolidation
  <2>2. CASE PruneBack(c)
    BY <2>2 DEF PruneBack, At, Goto, stored, consolidation, IInv, TypeOK
  <2> QED BY <2>1, <2>2 DEF IInv, TypeOK
<1>2. \A d \in Threads \ {c} : pc'[d] = pc[d]
  BY <1>1 DEF IInv, TypeOK
<1>3. pc'[c] \in {"back", "prune"}
  BY <1>1 DEF IInv, TypeOK
<1>4. Leaving' = Leaving /\ Unused' = Unused
  BY <1>1 DEF Leaving, Unused, Live, slots
<1>5. Filling' = Filling
  BY <1>1, <1>2, <1>3, FillingKept
<1>6. Unseen' = Unseen
  BY <1>4, <1>5 DEF Unseen
<1>7. /\ start = Frozen /\ location[c] \in Slots /\ location[c] # Frozen
      /\ location[c] \notin Unused /\ location[c] \in Nodes
  BY <1>1, WhileInserting, SlotsFinite DEF Inserts
<1>8. location[c] \notin Unseen
  <2>1. \A d \in Threads \ {c} : pc[d] \in {"write", "search", "link"} => location[d] # location[c]
    BY <1>1 DEF OwnInv, Inserts
  <2> QED BY <1>1, <1>7, <2>1 DEF Unseen, Filling
<1>9. pruned_list[c] \cap Unseen = {} /\ TypeOK /\ GraphInv
  BY <1>1 DEF EdgeInv, LinkInv, IInv
<1>10. ASSUME NEW n \in Nodes, LinkBack(c, n)
       PROVE  /\ GraphInv' /\ pruned_list'[c] \cap Unseen' = {}
              /\ pc'[c] = "prune" => copy_of_neighbors'[c] \cap Unseen' = {} /\ des'[c] \notin Unseen'
  <2>1. /\ n \in pruned_list[c] /\ pc[c] = "back"
        /\ final_graph' = final_graph
             \/ final_graph' = [final_graph EXCEPT ![n] = final_graph[n] \cup {location[c]}]
        /\ pruned_list' = [pruned_list EXCEPT ![c] = @ \ {n}] \/ UNCHANGED pruned_list
        /\ \/ pc' = pc
           \/ /\ des' = [des EXCEPT ![c] = n]
              /\ copy_of_neighbors' =
                   [copy_of_neighbors EXCEPT ![c] = final_graph[n] \cup {location[c]}]
    BY <1>10 DEF LinkBack, At, Goto
  <2>2. n \in Nodes \ Unseen /\ final_graph[n] \cap Unseen = {} /\ final_graph[n] \in SUBSET Nodes
    BY <1>9, <2>1 DEF GraphInv, TypeOK
  <2>3. GraphInv'
    <3>1. CASE final_graph' = final_graph
      BY <1>1, <1>4, <1>6, <1>9, <3>1, GraphKept DEF slots
    <3>2. CASE final_graph' = [final_graph EXCEPT ![n] = final_graph[n] \cup {location[c]}]
      <4>1. Frozen # n \/ Frozen \notin final_graph[n] \cup {location[c]}
        BY <1>7, <1>9 DEF GraphInv
      <4>2. (final_graph[n] \cup {location[c]}) \cap Unseen' = {}
        BY <1>6, <1>8, <2>2
      <4>3. final_graph[n] \cup {location[c]} \in SUBSET Nodes
        BY <1>7, <2>2
      <4>4. /\ n \in Nodes \ Unseen' /\ Unseen' \subseteq Unseen /\ Unseen \ Unseen' \subseteq {n}
            /\ UNCHANGED <<start, data_compacted, delete_set, Leaving>>
        BY <1>1, <1>4, <1>6, <2>2 DEF slots
      <4> QED BY <1>7, <1>9, <3>2, <4>1, <4>2, <4>3, <4>4, ListWritten
    <3> QED BY <2>1, <3>1, <3>2
  <2>4. pruned_list'[c] \cap Unseen' = {}
    BY <1>6, <1>9, <2>1 DEF TypeOK
  <2>5. ASSUME pc'[c] = "prune" PROVE copy_of_neighbors'[c] \cap Unseen' = {} /\ des'[c] \notin Unseen'
    <3>1. /\ des' = [des EXCEPT ![c] = n]
          /\ copy_of_neighbors' = [copy_of_neighbors EXCEPT ![c] = final_graph[n] \cup {location[c]}]
      BY <2>1, <2>5
    <3> QED BY <1>6, <1>8, <1>9, <2>2, <3>1 DEF TypeOK
  <2> QED BY <2>3, <2>4, <2>5
<1>11. CASE PruneBack(c)
  <2>1. /\ pc[c] = "prune" /\ pc' = [pc EXCEPT ![c] = "back"]
        /\ pruned_list' = [pruned_list EXCEPT ![c] = @ \ {des[c]}]
        /\ \E p \in Pruned(copy_of_neighbors[c] \ {des[c]}) :
             final_graph' = [final_graph EXCEPT ![des[c]] = p]
    BY <1>11 DEF PruneBack, At, Goto
  <2>2. PICK p \in Pruned(copy_of_neighbors[c] \ {des[c]}) :
          final_graph' = [final_graph EXCEPT ![des[c]] = p]
    BY <2>1
  <2>3. /\ des[c] \in Nodes \ Unseen' /\ p \in SUBSET Nodes /\ p \cap Unseen' = {}
        /\ des[c] \notin p
    <3>1. p \subseteq copy_of_neighbors[c] \ {des[c]}
      BY DEF Pruned
    <3>2. copy_of_neighbors[c] \cap Unseen = {} /\ des[c] \notin Unseen /\ des[c] \in Nodes
      BY <2>1 DEF EdgeInv, LinkInv, IInv, ThreadInv
    <3> QED BY <1>6, <1>9, <3>1, <3>2 DEF TypeOK
  <2>4. GraphInv'
    <3>1. /\ Unseen' \subseteq Unseen /\ Unseen \ Unseen' \subseteq {des[c]}
          /\ Frozen # des[c] \/ Frozen \notin p
          /\ UNCHANGED <<start, data_compacted, delete_set, Leaving>>
      BY <1>1, <1>4, <1>6, <2>3 DEF slots
    <3> QED BY <1>7, <1>9, <2>2, <2>3, <3>1, ListWritten
  <2>5. pruned_list'[c] \cap Unseen' = {} /\ pc'[c] # "prune"
    BY <1>6, <1>9, <2>1 DEF TypeOK
  <2> QED BY <1>1, <1>2, <1>3, <1>6, <2>4, <2>5, InsertionStep DEF Inserts, slots
<1> QED BY <1>1, <1>2, <1>3, <1>6, <1>10, <1>11, InsertionStep DEF Inserts, slots

\* Every step of an insertion keeps the edges right.
LEMMA InsertionEdges ==
  ASSUME IInv, LockInv, OwnInv, EdgeInv, ~conc_consolidate, FewTogether,
         NEW c \in Threads, Insertion(c)
  PROVE  EdgeInv'
BY BeginEdges, ReserveEdges, QuietEdges, SearchEdges, LinkEdges, BackEdges DEF Insertion

-----------------------------------------------------------------------------
\* A step outside insertions and saving that leaves the nodes that may be seen,
\* and their lists, as they are.
LEMMA EdgesKeptBy ==
  ASSUME EdgeInv, UNCHANGED <<final_graph, start, files, delete_set, Leaving>>,
         nd' = nd, Unseen' = Unseen, Unused' = Unused, data_compacted' => data_compacted,
         \A d \in Threads :
           \/ /\ pc'[d] = pc[d]
              /\ UNCHANGED <<pruned_list[d], des[d], copy_of_neighbors[d], location[d],
                             old_delete_set[d], unscanned[d]>>
           \/ pc'[d] \notin Inserts \cup Saves \cup {"reserve", "scan"} /\ pc[d] \notin Saves
  PROVE  EdgeInv'
<1>1. GraphInv'
  BY DEF EdgeInv, GraphInv
<1>2. StartInv' /\ GraphFileInv'
  BY StartKept, FilesKept DEF EdgeInv, FreezesOver, Saves
<1>3. ASSUME NEW d \in Threads PROVE LinkInv(d)' /\ ScanInv(d)'
  BY <1>3 DEF EdgeInv, LinkInv, ScanInv, Inserts
<1> QED BY <1>1, <1>2, <1>3 DEF EdgeInv

\* A consolidation waits for its locks.
LEMMA LockEdges ==
  ASSUME IInv, LockInv, OwnInv, EdgeInv, ~conc_consolidate, NEW c \in Threads,
         consolidate_deletes(c) \/ ExcludeUpdates(c) \/ TryConsolidate(c)
  PROVE  EdgeInv'
<1>1. /\ pc[c] \in {"idle", "exclude", "try"}
      /\ UNCHANGED <<slots, final_graph, start, files>>
      /\ Return(c) \/ /\ UNCHANGED <<insertion, consolidation>>
                      /\ \E place \in {"exclude", "try", "swap"} : pc' = [pc EXCEPT ![c] = place]
  <2>1. CASE consolidate_deletes(c)
    BY <2>1 DEF consolidate_deletes, Calls, Fail, Goto, graph, stored
  <2>2. CASE ExcludeUpdates(c) \/ TryConsolidate(c)
    BY <2>2 DEF ExcludeUpdates, TryConsolidate, At, Goto, graph, stored
  <2> QED BY <2>1, <2>2
<1>2. /\ pc'[c] \in {"idle", "exclude", "try", "swap"}
      /\ \A d \in Threads \ {c} :
           /\ pc'[d] = pc[d]
           /\ UNCHANGED <<pruned_list[d], des[d], copy_of_neighbors[d], location[d],
                          old_delete_set[d], unscanned[d]>>
  BY <1>1 DEF IInv, TypeOK, Return, Goto, insertion, consolidation
<1>3. Leaving' = Leaving
  <2>1. old_delete_set[c] = {}
    BY <1>1 DEF IInv, ThreadInv
  <2>2. old_delete_set'[c] = {}
    BY <1>1, <2>1 DEF IInv, TypeOK, Return, consolidation
  <2> QED BY <1>2, <2>1, <2>2 DEF Leaving
<1>4. Unused' = Unused
  BY <1>1, <1>3 DEF Unused, Live, slots
<1>5. Filling' = Filling
  BY <1>1, <1>2, FillingKept
<1>6. Unseen' = Unseen
  BY <1>4, <1>5 DEF Unseen
<1> QED BY <1>1, <1>2, <1>3, <1>4, <1>6, EdgesKeptBy DEF Inserts, Saves, slots

\* A consolidation without the concurrent mode is alone with the graph.
LEMMA WhileConsolidating ==
  ASSUME IInv, LockInv, EdgeInv, ~conc_consolidate, NEW c \in Threads, pc[c] \in {"swap", "scan"}
  PROVE  /\ usage = "enabled" /\ start = Frozen /\ Unused = Free /\ Filling = {} /\ Unseen = Unused
         /\ \A d \in Threads : /\ pc[d] \notin Inserts \cup Saves \cup {"reserve"}
                               /\ pc[d] \in {"try", "swap", "scan"} => d = c
<1>1. usage = "enabled" /\ \A d \in Threads : pc[d] \notin Saves
  BY AtWork DEF Inserts, Saves
<1>2. start = Frozen
  BY <1>1 DEF EdgeInv, StartInv, FreezesOver, Saves
<1>3. Unused = Free
  <2>1. Unused = Free \ {start}
    BY <1>1, UnusedFree
  <2>2. Free \subseteq Slots
    BY <1>1 DEF IInv, SlotsInv, PlacesInv
  <2> QED BY <1>2, <2>1, <2>2, SlotsFinite
<1>4. \A d \in Threads : pc[d] \notin Inserts \cup {"reserve"}
  BY Sizes DEF LockInv
<1>5. \A d \in Threads : pc[d] \in {"try", "swap", "scan"} => d = c
  BY DEF LockInv
<1>6. Filling = {}
  BY <1>4 DEF Filling, Inserts
<1> QED BY <1>1, <1>2, <1>3, <1>4, <1>5, <1>6 DEF Unseen

\* The lists that nobody reads or writes while a consolidation runs.
LEMMA ConsolidationStep ==
  ASSUME IInv, LockInv, EdgeInv, ~conc_consolidate, NEW c \in Threads, pc[c] \in {"swap", "scan"},
         pc'[c] \in {"scan", "idle"}, \A d \in Threads \ {c} : pc'[d] = pc[d],
         UNCHANGED <<start, files>>, GraphInv', ScanInv(c)'
  PROVE  EdgeInv'
<1>1. \A d \in Threads : /\ pc[d] \notin Inserts \cup Saves \cup {"reserve"}
                         /\ pc[d] \in {"try", "swap", "scan"} => d = c
  BY WhileConsolidating
<1>2. StartInv' /\ GraphFileInv'
  BY <1>1, StartKept, FilesKept DEF EdgeInv, FreezesOver, Saves
<1>3. ASSUME NEW d \in Threads PROVE LinkInv(d)' /\ ScanInv(d)'
  BY <1>1 DEF LinkInv, ScanInv, Inserts
<1> QED BY <1>2, <1>3 DEF EdgeInv

\* A consolidation takes over the deleted slots, and has all lists before it.
LEMMA TakeEdges ==
  ASSUME IInv, LockInv, EdgeInv, ~conc_consolidate, NEW c \in Threads, TakeDeleted(c)
  PROVE  EdgeInv'
<1>1. /\ pc[c] = "swap" /\ pc' = [pc EXCEPT ![c] = "scan"]
      /\ old_delete_set' = [old_delete_set EXCEPT ![c] = delete_set] /\ delete_set' = {}
      /\ unscanned' = [unscanned EXCEPT ![c] = Nodes]
      /\ UNCHANGED <<nd, location_to_tag, data_compacted, final_graph, start, files, location>>
  BY DEF TakeDeleted, At, Goto, graph, stored, insertion
<1>2. /\ pc'[c] = "scan" /\ \A d \in Threads \ {c} : pc'[d] = pc[d]
      /\ unscanned'[c] = Nodes
      /\ old_delete_set'[c] = delete_set /\ old_delete_set[c] = {}
      /\ \A d \in Threads \ {c} : old_delete_set'[d] = old_delete_set[d]
  BY <1>1 DEF IInv, TypeOK, ThreadInv
<1>3. Leaving' = Leaving \cup delete_set
  BY <1>2 DEF Leaving
<1>4. Unused' = Unused
  BY <1>1, <1>3 DEF Unused, Live
<1>5. Unseen' = Unseen
  <2>1. Filling' = Filling
    BY <1>1, <1>2, FillingKept
  <2> QED BY <1>4, <2>1 DEF Unseen
<1>6. GraphInv'
  BY <1>1, <1>3, <1>5 DEF EdgeInv, GraphInv
<1>7. ScanInv(c)'
  BY <1>2 DEF ScanInv
<1> QED BY <1>1, <1>2, <1>6, <1>7, ConsolidationStep

\* A list takes over the neighbours of its deleted ones, and keeps to the seen.
LEMMA RepairedSeen ==
  ASSUME TypeOK, GraphInv, NEW n \in Nodes \ Unseen, NEW old, NEW g \in Repaired(n, old)
  PROVE  /\ g \in SUBSET Nodes /\ g \cap Unseen = {} /\ g \cap old = {}
         /\ n \notin final_graph[n] => n \notin g
<1> DEFINE gone == final_graph[n] \cap old
           heirs == ((final_graph[n] \cup UNION {final_graph[d] : d \in gone}) \ old) \ {n}
<1>1. final_graph[n] \in SUBSET Nodes /\ final_graph[n] \cap Unseen = {}
  BY DEF TypeOK, GraphInv
<1>2. \A d \in gone : final_graph[d] \in SUBSET Nodes /\ final_graph[d] \cap Unseen = {}
  BY <1>1 DEF TypeOK, GraphInv
<1>3. CASE gone = {}
  BY <1>1, <1>3 DEF Repaired
<1>4. CASE gone # {}
  <2>1. g \in SUBSET heirs
    BY <1>4 DEF Repaired, Pruned
  <2>2. heirs \in SUBSET Nodes /\ heirs \cap Unseen = {} /\ heirs \cap old = {} /\ n \notin heirs
    BY <1>1, <1>2
  <2> QED BY <2>1, <2>2
<1> QED BY <1>3, <1>4

\* A list that has been through does not lead to the slots to be released.
LEMMA ScanEdges ==
  ASSUME IInv, LockInv, EdgeInv, ~conc_consolidate, NEW c \in Threads,
         NEW n \in Nodes, ProcessDelete(c, n)
  PROVE  EdgeInv'
<1> DEFINE old == old_delete_set[c]
<1>1. /\ pc[c] = "scan" /\ n \in unscanned[c]
      /\ unscanned' = [unscanned EXCEPT ![c] = @ \ {n}]
      /\ IF n \in Slots /\ (n \in old \/ n \in empty_slots.bits)
           THEN UNCHANGED final_graph
           ELSE \E g \in Repaired(n, old) : final_graph' = [final_graph EXCEPT ![n] = g]
      /\ UNCHANGED <<slots, start, files, pc, location, old_delete_set>>
  BY DEF ProcessDelete, At, stored, insertion
<1>2. unscanned'[c] = unscanned[c] \ {n}
  BY <1>1 DEF IInv, TypeOK
<1>3. Leaving' = Leaving /\ Unused' = Unused
  BY <1>1 DEF Leaving, Unused, Live, slots
<1>4. Filling' = Filling
  BY <1>1, FillingKept
<1>5. Unseen' = Unseen
  BY <1>3, <1>4 DEF Unseen
<1>6. start = Frozen /\ Unused = Free /\ Unseen = Unused /\ empty_slots.bits = Free
  BY <1>1, WhileConsolidating DEF IInv, SlotsInv
<1>7. /\ TypeOK /\ GraphInv /\ ScanInv(c)
  BY DEF IInv, EdgeInv
<1>8. CASE n \in Slots /\ (n \in old \/ n \in Unused)
  <2>1. UNCHANGED final_graph
    BY <1>1, <1>6, <1>8
  <2>2. GraphInv'
    BY <1>1, <1>3, <1>5, <1>7, <2>1, GraphKept DEF slots
  <2>3. ScanInv(c)'
    BY <1>1, <1>2, <1>3, <1>7, <1>8, <2>1 DEF ScanInv
  <2> QED BY <1>1, <2>2, <2>3, ConsolidationStep
<1>9. CASE ~(n \in Slots /\ (n \in old \/ n \in Unused))
  <2>1. n \in Nodes \ Unseen
    BY <1>6, <1>9 DEF Unused
  <2>2. PICK g \in Repaired(n, old) : final_graph' = [final_graph EXCEPT ![n] = g]
    BY <1>1, <1>6, <1>9
  <2> HIDE DEF old
  <2>3. /\ g \in SUBSET Nodes /\ g \cap Unseen = {} /\ g \cap old = {}
        /\ n \notin final_graph[n] => n \notin g
    BY <1>7, <2>1, RepairedSeen
  <2>4. Frozen # n \/ Frozen \notin g
    BY <1>6, <1>7, <2>3 DEF GraphInv
  <2>5. GraphInv'
    <3>1. /\ n \in Nodes \ Unseen' /\ g \cap Unseen' = {} /\ Unseen' \subseteq Unseen
          /\ Unseen \ Unseen' \subseteq {n}
          /\ UNCHANGED <<start, data_compacted, delete_set, Leaving>>
      BY <1>1, <1>3, <1>5, <2>1, <2>3 DEF slots
    <3> QED BY <1>6, <1>7, <2>2, <2>3, <2>4, <3>1, ListWritten
  <2>6. final_graph'[n] = g /\ \A m \in Nodes \ {n} : final_graph'[m] = final_graph[m]
    BY <1>7, <2>2 DEF TypeOK
  <2>7. ScanInv(c)'
    <3> SUFFICES ASSUME NEW m \in Nodes \ (Unused \cup old \cup (unscanned[c] \ {n}))
                 PROVE  final_graph'[m] \cap old = {}
      BY <1>1, <1>2, <1>3 DEF ScanInv, old
    <3>1. CASE m = n
      BY <2>3, <2>6, <3>1
    <3>2. CASE m # n
      BY <1>1, <1>7, <2>6, <3>2 DEF ScanInv, old
    <3> QED BY <3>1, <3>2
  <2> QED BY <1>1, <2>5, <2>7, ConsolidationStep
<1> QED BY <1>8, <1>9

\* The slots released are free now, and no list leads to them.
LEMMA ReleaseEdges ==
  ASSUME IInv, LockInv, EdgeInv, ~conc_consolidate, NEW c \in Threads, ReleaseDeleted(c)
  PROVE  EdgeInv'
<1> DEFINE old == old_delete_set[c]
<1>1. /\ usage = "enabled" /\ pc[c] = "scan" /\ unscanned[c] = {} /\ Return(c) /\ old \in SUBSET Slots
      /\ UNCHANGED <<delete_set, location_to_tag, data_compacted, final_graph, start, files>>
  BY ReleaseFacts DEF graph, stored
<1>2. /\ pc'[c] = "idle" /\ \A d \in Threads \ {c} : pc'[d] = pc[d]
      /\ old_delete_set'[c] = {}
      /\ \A d \in Threads \ {c} : old_delete_set'[d] = old_delete_set[d]
  BY <1>1 DEF IInv, TypeOK, Return, Goto
<1>3. /\ start = Frozen /\ Filling = {} /\ Unseen = Unused
      /\ \A d \in Threads : pc[d] \notin Inserts \cup {"reserve"}
  BY <1>1, WhileConsolidating
<1>4. PlacesInv
  BY <1>1 DEF IInv, SlotsInv
<1>5. Leaving' = Leaving \ old
  BY <1>2, <1>4 DEF Leaving, PlacesInv
<1>6. Unused' = Unused \cup old
  <2>1. old \cap Live = {} /\ old \cap delete_set = {} /\ Frozen \notin old /\ old \in SUBSET Slots
    BY <1>1, <1>4, SlotsFinite DEF PlacesInv
  <2> HIDE DEF old
  <2> QED BY <1>1, <1>3, <1>5, <2>1 DEF Unused, Live
<1>7. Filling' = {}
  <2>1. \A d \in Threads : pc'[d] \notin Inserts
    BY <1>2, <1>3 DEF Inserts
  <2> QED BY <2>1 DEF Filling, Inserts
<1>8. Unseen' = Unused \cup old
  BY <1>6, <1>7 DEF Unseen
<1>9. GraphInv'
  <2>1. \A m \in Nodes \ Unseen' : final_graph'[m] \cap Unseen' = {}
    BY <1>1, <1>3, <1>8 DEF EdgeInv, GraphInv, ScanInv
  <2>2. data_compacted => old = {}
    BY DEF EdgeInv, GraphInv, Leaving
  <2>3. data_compacted' => /\ delete_set' = {} /\ Leaving' = {}
                           /\ \A m \in Unseen' : final_graph'[m] = {}
    BY <1>1, <1>3, <1>5, <1>8, <2>2 DEF EdgeInv, GraphInv
  <2>4. final_graph'[start'] \cap {start', Frozen} = {}
    BY <1>1 DEF EdgeInv, GraphInv
  <2> QED BY <2>1, <2>3, <2>4 DEF GraphInv
<1>10. ScanInv(c)'
  BY <1>2 DEF ScanInv
<1> QED BY <1>1, <1>2, <1>9, <1>10, ConsolidationStep

\* Every step of a consolidation keeps the edges right.
LEMMA ConsolidationEdges ==
  ASSUME IInv, LockInv, OwnInv, EdgeInv, ~conc_consolidate, NEW c \in Threads, Consolidation(c)
  PROVE  EdgeInv'
BY LockEdges, TakeEdges, ScanEdges, ReleaseEdges DEF Consolidation

\* A deletion changes no list, and leaves the slot to a consolidation.
LEMMA DeleteEdges ==
  ASSUME IInv, EdgeInv, NEW c \in Threads,
         enable_delete(c) \/ \E tags \in (SUBSET Tags) \ {{}} : lazy_delete(c, tags)
  PROVE  EdgeInv'
<1>1. /\ UNCHANGED <<nd, graph, files, pc, insertion, consolidation>>
      /\ UNCHANGED <<location_to_tag, delete_set, data_compacted>>
         \/ /\ data_compacted' = FALSE
            /\ Live' \cup delete_set' = Live \cup delete_set
  <2>1. CASE enable_delete(c)
    BY <2>1 DEF enable_delete, stored
  <2>2. ASSUME NEW tags \in (SUBSET Tags) \ {{}}, lazy_delete(c, tags)
        PROVE  /\ UNCHANGED <<nd, graph, files, pc, insertion, consolidation>>
               /\ data_compacted' = FALSE /\ Live' \cup delete_set' = Live \cup delete_set
    <3> DEFINE found == tags \cap DOMAIN tag_to_location
               freed == {tag_to_location[t] : t \in found}
    <3>1. /\ UNCHANGED <<nd, graph, files, pc, insertion, consolidation>>
          /\ data_compacted' = FALSE /\ delete_set' = delete_set \cup freed
          /\ Live' = Live \ freed
      BY <2>2 DEF lazy_delete, stored, Restrict, Live
    <3>2. freed \subseteq Live
      BY DEF IInv, SlotsInv, TagsInv
    <3> QED BY <3>1, <3>2
  <2> QED BY <2>1, <2>2
<1>2. Leaving' = Leaving
  BY <1>1 DEF Leaving, consolidation
<1>3. Unused' = Unused
  BY <1>1, <1>2 DEF Unused, Live, graph
<1>4. Filling' = Filling
  BY <1>1, FillingKept DEF insertion
<1>5. Unseen' = Unseen
  BY <1>3, <1>4 DEF Unseen
<1>6. GraphInv'
  BY <1>1, <1>2, <1>5 DEF EdgeInv, GraphInv, graph
<1>7. StartInv' /\ GraphFileInv'
  BY <1>1, StartKept, FilesKept DEF EdgeInv, graph
<1>8. ASSUME NEW d \in Threads PROVE LinkInv(d)' /\ ScanInv(d)'
  BY <1>1, <1>3, <1>5 DEF EdgeInv, LinkInv, ScanInv, insertion, consolidation, graph
<1> QED BY <1>6, <1>7, <1>8 DEF EdgeInv

-----------------------------------------------------------------------------
\* Whoever saves is alone with the graph.
LEMMA SavingStep ==
  ASSUME NEW c \in Threads, \A d \in Threads \ {c} : pc'[d] = "idle",
         pc'[c] \in Saves \cup {"idle"}, GraphInv', StartInv', GraphFileInv'
  PROVE  EdgeInv'
BY DEF EdgeInv, LinkInv, ScanInv, Inserts, Saves

\* No slot is being filled then.
LEMMA WhileSaving ==
  ASSUME IInv, EdgeInv, NEW c \in Threads, pc[c] \in Saves
  PROVE  /\ \A d \in Threads \ {c} : pc[d] = "idle"
         /\ Filling = {} /\ Leaving = {} /\ Unseen = Unused
         /\ pc[c] \in FreezesOver => start = nd
         /\ pc[c] \notin FreezesOver => start = Frozen
         /\ data_compacted => /\ delete_set = {} /\ Live = 0..(nd - 1)
                              /\ \A x : x \in Unused <=> x \in nd..(MaxPoints - 1) /\ x # start
<1>1. \A d \in Threads \ {c} : pc[d] = "idle"
  BY SaverFacts
<1>2. Leaving = {} /\ SaveInv(c)
  BY SaverFacts
<1>3. Filling = {}
  BY <1>1 DEF Filling, Saves
<1>4. /\ pc[c] \in FreezesOver => start = nd
      /\ pc[c] \notin FreezesOver => start = Frozen
  BY <1>1 DEF EdgeInv, StartInv, FreezesOver
<1>5. ASSUME data_compacted
      PROVE  /\ delete_set = {} /\ Live = 0..(nd - 1)
             /\ \A x : x \in Unused <=> x \in nd..(MaxPoints - 1) /\ x # start
  <2>1. delete_set = {} /\ Live = 0..(nd - 1)
    BY <1>2, <1>5 DEF EdgeInv, GraphInv, SaveInv
  <2>2. nd \in Nat /\ nd <= MaxPoints
    BY Sizes DEF IInv, TypeOK
  <2> QED BY <1>2, <2>1, <2>2, Sizes DEF Unused, Slots
<1> QED BY <1>1, <1>2, <1>3, <1>4, <1>5 DEF Unseen

\* The call of save: the index need not be compacted only if it is full.
LEMMA SaveEdges ==
  ASSUME IInv, EdgeInv, NEW c \in Threads, NEW b \in BOOLEAN, save(c, b)
  PROVE  EdgeInv'
<1>1. /\ \A d \in Threads : pc[d] = "idle"
      /\ Orderly(b) /\ pc' = [pc EXCEPT ![c] = IF b THEN "compact" ELSE IF data_compacted THEN "save" ELSE "idle"]
      /\ UNCHANGED <<slots, graph, files, insertion, consolidation>>
  BY DEF save, Goto, stored
<1>2. /\ \A d \in Threads \ {c} : pc'[d] = "idle" /\ pc[d] = "idle"
      /\ pc'[c] \in {"compact", "save", "idle"}
      /\ pc'[c] = "save" => nd = MaxPoints
  BY <1>1 DEF IInv, TypeOK, Orderly
<1>3. start = Frozen
  BY <1>1 DEF EdgeInv, StartInv, FreezesOver
<1>4. StartInv'
  BY <1>1, <1>2, <1>3 DEF StartInv, FreezesOver, Frozen, graph, slots
<1>5. GraphFileInv'
  BY <1>1, <1>2, FilesKept DEF EdgeInv, slots
<1>6. Leaving' = Leaving /\ Unused' = Unused
  BY <1>1 DEF Leaving, Unused, Live, slots, graph, consolidation
<1>7. Filling' = Filling
  BY <1>1, <1>2, FillingKept
<1>8. Unseen' = Unseen
  BY <1>6, <1>7 DEF Unseen
<1>9. GraphInv'
  BY <1>1, <1>6, <1>8, GraphKept DEF EdgeInv, slots, graph
<1> QED BY <1>2, <1>4, <1>5, <1>9, SavingStep DEF Saves

\* Compaction puts the lists in order and erases the edges to slots without a
\* point.
LEMMA CompactEdges ==
  ASSUME IInv, EdgeInv, NEW c \in Threads, compact_data(c)
  PROVE  EdgeInv'
<1>1. pc[c] = "compact" /\ pc[c] \in Saves
  BY DEF compact_data, At, Saves
<1>2. /\ \A d \in Threads \ {c} : pc[d] = "idle"
      /\ Filling = {} /\ Leaving = {} /\ Unseen = Unused /\ start = Frozen
  BY <1>1, WhileSaving DEF FreezesOver
<1>3. /\ UNCHANGED <<start, files, location, old_delete_set, nd, delete_set>>
      /\ pc' = [pc EXCEPT ![c] = "freeze"] \/ pc' = [pc EXCEPT ![c] = "idle"]
  BY DEF compact_data, Goto, stored, slots, insertion, consolidation
<1>4. /\ \A d \in Threads \ {c} : pc'[d] = "idle"
      /\ pc'[c] \in {"freeze", "idle"}
  BY <1>2, <1>3 DEF IInv, TypeOK
<1>5. StartInv'
  BY <1>2, <1>3, <1>4 DEF StartInv, FreezesOver
<1>6. GraphFileInv'
  BY <1>3, <1>4, FilesKept DEF EdgeInv
<1>7. Leaving' = {} /\ Filling' = {}
  BY <1>2, <1>3, <1>4 DEF Leaving, Filling
<1>8. CASE data_compacted \/ delete_set # {}
  <2>1. UNCHANGED <<slots, final_graph>>
    BY <1>8 DEF compact_data
  <2>2. Unused' = Unused /\ Unseen' = Unused
    BY <1>2, <1>3, <1>7, <2>1 DEF Unused, Unseen, Live, slots
  <2>3. GraphInv'
    BY <1>2, <1>3, <1>7, <2>1, <2>2, GraphKept DEF EdgeInv, slots
  <2> QED BY <1>4, <1>5, <1>6, <2>3, SavingStep DEF Saves
<1>9. CASE ~data_compacted /\ delete_set = {}
  <2>1. /\ nd < MaxPoints /\ nd \in Nat /\ Live' = 0..(nd - 1)
        /\ final_graph' = compacted(final_graph)
        /\ \A s \in Live : new_location(s) \in 0..(nd - 1)
    BY <1>9, CompactFacts
  <2>2. new_location(Frozen) = Frozen
    BY DEF new_location
  <2>3. \A x : x \in Unseen' <=> x \in nd..(MaxPoints - 1)
    BY <1>2, <1>3, <1>7, <1>9, <2>1, Sizes DEF Unseen, Unused, Slots, Frozen
  <2>4. ASSUME NEW n \in Nodes, NEW y \in final_graph'[n]
        PROVE  /\ y \in 0..(nd - 1) \cup {Frozen}
               /\ \E s \in Live \cup {Frozen} : new_location(s) = n
               /\ y = Frozen /\ n = Frozen => Frozen \in final_graph[Frozen]
    <3> DEFINE S == {x \in Live \cup {Frozen} : new_location(x) = n}
               T == (UNION {final_graph[s] : s \in S}) \cap (Live \cup {Frozen})
    <3>1. final_graph'[n] = {new_location(m) : m \in T}
      BY <2>1 DEF compacted
    <3>2. PICK m \in T : y = new_location(m)
      BY <2>4, <3>1
    <3>3. PICK s \in S : m \in final_graph[s]
      BY <3>2
    <3>4. \A x \in Live \cup {Frozen} : new_location(x) = Frozen => x = Frozen
      BY <2>1, Sizes DEF Frozen
    <3> QED BY <2>1, <2>2, <3>2, <3>3, <3>4
  <2>5. ASSUME NEW n \in Nodes PROVE final_graph'[n] \cap Unseen' = {}
    BY <2>1, <2>3, <2>4, Sizes DEF Frozen
  <2>6. ASSUME NEW n \in Unseen' PROVE final_graph'[n] = {}
    <3>1. n \in Nodes /\ n \notin 0..(nd - 1) /\ n # Frozen
      BY <2>1, <2>3, SlotsFinite, Sizes DEF Frozen
    <3>2. \A s \in Live \cup {Frozen} : new_location(s) # n
      BY <2>1, <2>2, <3>1
    <3> QED BY <2>4, <3>1, <3>2
  <2>7. final_graph'[Frozen] \cap {Frozen} = {}
    BY <1>2, <2>4, SlotsFinite DEF EdgeInv, GraphInv
  <2>8. GraphInv'
    BY <1>2, <1>3, <1>7, <1>9, <2>5, <2>6, <2>7 DEF GraphInv
  <2> QED BY <1>4, <1>5, <1>6, <2>8, SavingStep DEF Saves
<1> QED BY <1>8, <1>9

\* The frozen point goes behind the others, to a slot without a list.
LEMMA FreezeEdges ==
  ASSUME IInv, EdgeInv, NEW c \in Threads, compact_frozen_point(c)
  PROVE  EdgeInv'
<1>1. /\ pc[c] = "freeze" /\ pc[c] \in Saves /\ pc' = [pc EXCEPT ![c] = "save"]
      /\ start' = IF nd < MaxPoints THEN nd ELSE start
      /\ IF nd < MaxPoints /\ final_graph[Frozen] # {}
           THEN final_graph' = Moved(final_graph, nd, Frozen, nd)
           ELSE UNCHANGED final_graph
      /\ UNCHANGED <<slots, files, location, old_delete_set>>
  BY DEF compact_frozen_point, At, Goto, Saves, stored, insertion, consolidation
<1>2. data_compacted /\ nd \in 0..MaxPoints /\ final_graph \in [Nodes -> SUBSET Nodes]
  BY <1>1, SaverFacts DEF IInv, TypeOK, SaveInv
<1>3. /\ \A d \in Threads \ {c} : pc[d] = "idle"
      /\ Leaving = {} /\ Unseen = Unused /\ start = Frozen
      /\ delete_set = {} /\ Live = 0..(nd - 1)
      /\ \A x : x \in Unused <=> x \in nd..(MaxPoints - 1) /\ x # start
  BY <1>1, <1>2, WhileSaving DEF FreezesOver
<1>4. pc'[c] = "save" /\ \A d \in Threads \ {c} : pc'[d] = "idle"
  BY <1>1, <1>3 DEF IInv, TypeOK
<1>5. start' = nd /\ nd' = nd
  <2>1. nd \in Nat /\ nd <= MaxPoints /\ MaxPoints \in Nat
    BY <1>2, Sizes
  <2> QED BY <1>1, <1>3, <2>1 DEF slots, Frozen
<1>6. StartInv'
  BY <1>4, <1>5 DEF StartInv, FreezesOver
<1>7. GraphFileInv'
  BY <1>1, <1>4, FilesKept DEF EdgeInv, slots
<1>8. Leaving' = {} /\ Filling' = {}
  BY <1>1, <1>3, <1>4 DEF Leaving, Filling
<1>9. \A x : x \in Unseen' <=> x \in nd..(MaxPoints - 1) /\ x # nd
  BY <1>1, <1>2, <1>3, <1>5, <1>8, Sizes DEF Unseen, Unused, Live, slots, Slots
<1>10. /\ \A n \in Nodes \ Unused : final_graph[n] \cap Unused = {}
       /\ \A n \in Unused : final_graph[n] = {}
       /\ Frozen \notin final_graph[Frozen]
  BY <1>2, <1>3 DEF EdgeInv, GraphInv
<1>11. Unseen' \subseteq Unused
  BY <1>3, <1>9, Sizes DEF Frozen
<1>12. CASE nd = MaxPoints
  <2>1. UNCHANGED final_graph /\ start' = start
    BY <1>1, <1>12, Sizes
  <2>2. Unseen' = {} /\ Unused = {}
    BY <1>3, <1>9, <1>12, Sizes
  <2>3. GraphInv'
    BY <1>1, <1>2, <1>3, <1>8, <2>1, <2>2, GraphKept DEF EdgeInv, slots
  <2> QED BY <1>4, <1>6, <1>7, <2>3, SavingStep DEF Saves
<1>13. CASE nd # MaxPoints
  <2>1. nd < MaxPoints /\ nd \in Unused /\ nd \in Nodes /\ nd # Frozen /\ nd \in Int /\ Frozen \in Nodes
    BY <1>2, <1>3, <1>13, SlotsFinite, Sizes DEF Frozen
  <2>2. ASSUME NEW n \in Nodes
        PROVE  /\ final_graph'[n] \cap Unseen' = {}
               /\ n \in Unseen' => final_graph'[n] = {}
               /\ n = nd => final_graph'[n] \cap {nd, Frozen} = {}
    <3>1. CASE final_graph[Frozen] = {}
      <4>1. UNCHANGED final_graph
        BY <1>1, <3>1
      <4> QED BY <1>10, <1>11, <2>1, <4>1
    <3>2. CASE final_graph[Frozen] # {}
      <4>1. final_graph'[n] =
              IF n = nd THEN final_graph[Frozen] ELSE IF n = Frozen THEN {}
              ELSE IF n < nd THEN {IF k = Frozen THEN nd ELSE k : k \in final_graph[n]}
              ELSE final_graph[n]
        BY <1>1, <2>1, <3>2 DEF Moved
      <4>2. Frozen \notin Unused
        BY <1>3
      <4>3. CASE n = nd
        BY <1>9, <1>10, <1>11, <2>1, <4>1, <4>2, <4>3
      <4>4. CASE n # nd /\ n < nd /\ n # Frozen
        <5>1. n \notin Unused /\ nd \notin Unseen'
          BY <1>2, <1>3, <1>9, <4>4, SlotsFinite, Sizes
        <5>2. final_graph'[n] = {IF k = Frozen THEN nd ELSE k : k \in final_graph[n]}
          BY <4>1, <4>4
        <5> QED BY <1>10, <1>11, <4>4, <5>1, <5>2
      <4>5. CASE n # nd /\ (~(n < nd) \/ n = Frozen)
        <5>1. final_graph'[n] \in {{}, final_graph[n]}
          BY <4>1, <4>5
        <5> QED BY <1>10, <1>11, <4>5, <5>1
      <4> QED BY <4>3, <4>4, <4>5
    <3> QED BY <3>1, <3>2
  <2>3. Unseen' \subseteq Nodes
    BY <1>11, SlotsFinite DEF Unused
  <2>4. GraphInv'
    BY <1>1, <1>3, <1>5, <1>8, <2>1, <2>2, <2>3 DEF GraphInv, slots
  <2> QED BY <1>4, <1>6, <1>7, <2>4, SavingStep DEF Saves
<1> QED BY <1>12, <1>13

\* It comes back to the end, and its slot has no list again.
LEMMA RepositionEdges ==
  ASSUME IInv, EdgeInv, NEW c \in Threads, reposition_frozen_point_to_end(c)
  PROVE  EdgeInv'
<1>1. /\ pc[c] = "saved" /\ pc[c] \in Saves /\ Return(c)
      /\ IF nd = MaxPoints THEN UNCHANGED <<final_graph, start>>
         ELSE final_graph' = Moved(final_graph, nd, nd, Frozen) /\ start' = Frozen
      /\ UNCHANGED <<slots, files>>
  BY DEF reposition_frozen_point_to_end, At, Saves, stored, graph
<1>2. data_compacted /\ nd \in 0..MaxPoints /\ final_graph \in [Nodes -> SUBSET Nodes]
  BY <1>1, SaverFacts DEF IInv, TypeOK, SaveInv
<1>3. /\ \A d \in Threads \ {c} : pc[d] = "idle"
      /\ Leaving = {} /\ Unseen = Unused /\ start = nd
      /\ delete_set = {} /\ Live = 0..(nd - 1)
      /\ \A x : x \in Unused <=> x \in nd..(MaxPoints - 1) /\ x # start
  BY <1>1, <1>2, WhileSaving DEF FreezesOver
<1>4. \A d \in Threads : pc'[d] = "idle" /\ old_delete_set'[d] = {}
  <2>1. \A d \in Threads : old_delete_set[d] = {}
    BY <1>1, SaverFacts
  <2> QED BY <1>1, <1>3, <2>1 DEF IInv, TypeOK, Return, Goto
<1>5. start' = Frozen /\ nd' = nd
  BY <1>1, <1>3 DEF slots, Frozen
<1>6. StartInv'
  BY <1>4, <1>5 DEF StartInv, FreezesOver
<1>7. GraphFileInv'
  BY <1>1, <1>4, FilesKept DEF EdgeInv, slots
<1>8. Leaving' = {} /\ Filling' = {}
  BY <1>4 DEF Leaving, Filling
<1>9. \A x : x \in Unseen' <=> x \in nd..(MaxPoints - 1)
  BY <1>1, <1>2, <1>3, <1>5, <1>8, Sizes DEF Unseen, Unused, Live, slots, Slots, Frozen
<1>10. /\ \A n \in Nodes \ Unused : final_graph[n] \cap Unused = {}
       /\ \A n \in Unused : final_graph[n] = {}
       /\ final_graph[nd] \cap {nd, Frozen} = {}
  BY <1>2, <1>3 DEF EdgeInv, GraphInv
<1>11. \A x \in Unseen' : x \in Unused \/ x = nd
  BY <1>3, <1>9
<1>12. CASE nd = MaxPoints
  <2>1. UNCHANGED final_graph /\ start' = start
    BY <1>1, <1>12
  <2>2. Unseen' = {} /\ Unused = {}
    BY <1>3, <1>9, <1>12, Sizes
  <2>3. GraphInv'
    BY <1>1, <1>2, <1>3, <1>8, <2>1, <2>2, GraphKept DEF EdgeInv, slots
  <2> QED BY <1>4, <1>6, <1>7, <2>3, SavingStep
<1>13. CASE nd # MaxPoints
  <2>1. /\ nd < MaxPoints /\ nd \notin Unused /\ nd \in Nodes /\ nd # Frozen /\ Frozen \in Nodes
        /\ Frozen \notin Unseen' /\ Frozen \notin Unused
    BY <1>2, <1>3, <1>9, <1>13, SlotsFinite, Sizes DEF Frozen
  <2>2. ASSUME NEW n \in Nodes
        PROVE  /\ final_graph'[n] \cap Unseen' = {}
               /\ n \in Unseen' => final_graph'[n] = {}
               /\ n = Frozen => final_graph'[n] \cap {Frozen} = {}
    <3>1. final_graph'[n] =
            IF n = Frozen THEN final_graph[nd] ELSE IF n = nd THEN {}
            ELSE IF n < nd THEN {IF k = nd THEN Frozen ELSE k : k \in final_graph[n]}
            ELSE final_graph[n]
      BY <1>1, <1>13 DEF Moved
    <3>2. CASE n = Frozen
      BY <1>10, <1>11, <2>1, <3>1, <3>2
    <3>3. CASE n # Frozen /\ n # nd /\ n < nd
      <4>1. n \notin Unused /\ n \notin Unseen'
        BY <1>2, <1>3, <1>9, <3>3, SlotsFinite, Sizes
      <4>2. final_graph'[n] = {IF k = nd THEN Frozen ELSE k : k \in final_graph[n]}
        BY <3>1, <3>3
      <4> QED BY <1>10, <1>11, <2>1, <3>3, <4>1, <4>2
    <3>4. CASE n # Frozen /\ (n = nd \/ ~(n < nd))
      <4>1. n = nd \/ n \in Unused
        BY <1>2, <1>3, <3>4, SlotsFinite, Sizes DEF Frozen
      <4>2. final_graph'[n] = {}
        BY <1>10, <3>1, <3>4, <4>1
      <4> QED BY <3>4, <4>2
    <3> QED BY <3>2, <3>3, <3>4
  <2>3. Unseen' \subseteq Nodes
    BY SlotsFinite, <1>9, <1>2, Sizes
  <2>4. GraphInv'
    BY <1>1, <1>3, <1>5, <1>8, <2>1, <2>2, <2>3 DEF GraphInv, slots
  <2> QED BY <1>4, <1>6, <1>7, <2>4, SavingStep
<1> QED BY <1>12, <1>13

\* The files get a graph whose edges lead to the points and to the frozen one.
LEMMA WriteEdges ==
  ASSUME IInv, EdgeInv, NEW c \in Threads, save_graph(c) \/ save_data(c) \/ save_tags(c)
  PROVE  EdgeInv'
<1>1. /\ pc[c] \in {"save", "save_data", "save_tags"}
      /\ \/ pc[c] = "save" /\ pc' = [pc EXCEPT ![c] = "save_data"]
            /\ files' = With(With(files, "start", start), "graph", [n \in 0..nd |-> final_graph[n]])
         \/ pc[c] = "save_data" /\ pc' = [pc EXCEPT ![c] = "save_tags"]
            /\ files' = With(files, "data", [n \in 0..nd |-> data[n]])
         \/ pc[c] = "save_tags" /\ pc' = [pc EXCEPT ![c] = "saved"]
            /\ \E f : files' = With(files, "tags", f)
      /\ UNCHANGED <<slots, final_graph, start, location, old_delete_set>>
  BY DEF save_graph, save_data, save_tags, At, Goto, graph, insertion, consolidation
<1>2. pc[c] \in Saves
  BY <1>1 DEF Saves
<1>3. data_compacted /\ nd \in 0..MaxPoints /\ final_graph \in [Nodes -> SUBSET Nodes]
  BY <1>1, <1>2, SaverFacts DEF IInv, TypeOK, SaveInv
<1>4. /\ \A d \in Threads \ {c} : pc[d] = "idle"
      /\ Leaving = {} /\ Unseen = Unused /\ start = nd
      /\ \A x : x \in Unused <=> x \in nd..(MaxPoints - 1) /\ x # start
  BY <1>1, <1>2, <1>3, WhileSaving DEF FreezesOver
<1>5. /\ pc'[c] \in {"save_data", "save_tags", "saved"}
      /\ \A d \in Threads \ {c} : pc'[d] = "idle"
  BY <1>1, <1>4 DEF IInv, TypeOK
<1>6. Leaving' = Leaving /\ Unused' = Unused
  BY <1>1 DEF Leaving, Unused, Live, slots
<1>7. Filling' = Filling
  BY <1>1, <1>4, <1>5, FillingKept
<1>8. GraphInv'
  <2>1. Unseen' = Unseen
    BY <1>6, <1>7 DEF Unseen
  <2> QED BY <1>1, <1>6, <2>1, GraphKept DEF EdgeInv, slots
<1>9. StartInv'
  BY <1>1, <1>4, <1>5 DEF StartInv, FreezesOver, slots
<1>10. CASE pc[c] = "save"
  <2>1. /\ files' = With(With(files, "start", start), "graph", [n \in 0..nd |-> final_graph[n]])
        /\ files = << >> /\ nd' = nd
    BY <1>1, <1>10 DEF IInv, FilesInv, slots
  <2>2. /\ files'["graph"] = [n \in 0..nd |-> final_graph[n]] /\ DOMAIN files'["graph"] = 0..nd
        /\ "data" \notin DOMAIN files'
    BY <2>1 DEF With
  <2>3. ASSUME NEW n \in 0..nd, NEW x \in final_graph[n] PROVE x \in 0..nd \cup {Frozen}
    <3>1. n \in Nodes /\ n \notin Unused
      BY <1>3, <1>4, SlotsFinite, Sizes
    <3>2. x \in Nodes /\ x \notin Unused
      BY <1>3, <1>4, <3>1 DEF EdgeInv, GraphInv
    <3> QED BY <1>3, <1>4, <3>2, SlotsFinite, Sizes DEF Frozen
  <2>4. final_graph[nd] \cap {nd, Frozen} = {}
    BY <1>4 DEF EdgeInv, GraphInv
  <2>5. nd \in 0..nd
    BY <1>3
  <2>6. \A n \in 0..nd : files'["graph"][n] \subseteq 0..nd \cup {Frozen}
    BY <2>2, <2>3
  <2>7. files'["graph"][nd] \cap {nd, Frozen} = {}
    BY <2>2, <2>4, <2>5
  <2>8. GraphFileInv'
    BY <1>3, <2>1, <2>2, <2>6, <2>7 DEF GraphFileInv
  <2> QED BY <1>5, <1>8, <1>9, <2>8, SavingStep DEF Saves
<1>11. CASE pc[c] = "save_data"
  <2>1. /\ files' = With(files, "data", [n \in 0..nd |-> data[n]])
        /\ DOMAIN files["graph"] = 0..nd /\ "graph" \in DOMAIN files
        /\ pc' = [pc EXCEPT ![c] = "save_tags"]
    BY <1>1, <1>11 DEF IInv, FilesInv, EdgeInv, GraphFileInv
  <2>2. /\ files'["graph"] = files["graph"] /\ DOMAIN files'["data"] = DOMAIN files'["graph"]
        /\ "graph" \in DOMAIN files'
    BY <2>1 DEF With
  <2>3. \A d \in Threads : pc'[d] # "save_data"
    BY <1>5, <2>1 DEF IInv, TypeOK
  <2>4. GraphFileInv'
    BY <2>1, <2>2, <2>3 DEF EdgeInv, GraphFileInv
  <2> QED BY <1>5, <1>8, <1>9, <2>4, SavingStep DEF Saves
<1>12. CASE pc[c] = "save_tags"
  <2>1. PICK f : files' = With(files, "tags", f)
    BY <1>1, <1>12
  <2>2. \A k \in {"graph", "data"} :
          /\ k \in DOMAIN files' <=> k \in DOMAIN files
          /\ k \in DOMAIN files => files'[k] = files[k]
    BY <2>1 DEF With
  <2>3. \A d \in Threads : pc'[d] # "save_data"
    BY <1>1, <1>5, <1>12 DEF IInv, TypeOK
  <2>4. "data" \in DOMAIN files => "graph" \in DOMAIN files
    BY <1>12 DEF IInv, FilesInv
  <2>5. GraphFileInv'
    BY <2>2, <2>3, <2>4 DEF EdgeInv, GraphFileInv
  <2> QED BY <1>5, <1>8, <1>9, <2>5, SavingStep DEF Saves
<1> QED BY <1>1, <1>10, <1>11, <1>12

\* Every step of save keeps the edges right.
LEMMA SavingEdges ==
  ASSUME IInv, EdgeInv, NEW c \in Threads, Saving(c)
  PROVE  EdgeInv'
BY SaveEdges, CompactEdges, FreezeEdges, WriteEdges, RepositionEdges DEF Saving

\* So does a load: the edges lead to the points of the files, and to the frozen
\* point, which goes from behind the points to the end.
LEMMA LoadEdges ==
  ASSUME IInv, EdgeInv, load
  PROVE  EdgeInv'
<1>1. CASE DOMAIN files # {"graph", "start", "data", "tags"}
  <2>1. UNCHANGED <<slots, graph, pc, insertion, consolidation, files>>
    BY <1>1 DEF load
  <2>2. UNCHANGED <<Leaving, Unused, Filling>>
    BY <2>1 DEF Leaving, Unused, Filling, Live, slots, graph, insertion, consolidation
  <2>3. Unseen' = Unseen
    BY <2>2 DEF Unseen
  <2> QED BY <2>1, <2>2, <2>3, EdgesKeptBy DEF slots, graph, insertion, consolidation
<1>2. CASE DOMAIN files = {"graph", "start", "data", "tags"}
  <2>1. PICK m \in 0..MaxPoints : Loaded(m)
    BY <1>2, LoadFacts
  <2>2. /\ m < MaxPoints /\ m \in Nat /\ m \in Nodes
        /\ final_graph' = Moved(load_graph, m, m, Frozen) /\ start' = Frozen
        /\ \A d \in Threads : pc'[d] = "idle" /\ old_delete_set'[d] = {} /\ location'[d] = NoSlot
        /\ Live' = 0..(m - 1) /\ delete_set' = {} /\ files' = files
        /\ DOMAIN files["data"] = 0..m
    BY <2>1 DEF Loaded
  <2>3. PICK k \in 0..MaxPoints :
          /\ DOMAIN files["graph"] = 0..k
          /\ \A n \in 0..k : files["graph"][n] \subseteq 0..k \cup {Frozen}
          /\ files["graph"][k] \cap {k, Frozen} = {}
    BY <1>2 DEF EdgeInv, GraphFileInv
  <2>4. k = m
    <3>1. 0..k = 0..m
      BY <1>2, <2>2, <2>3 DEF EdgeInv, GraphFileInv
    <3>2. k \in Nat /\ k \in 0..k /\ m \in 0..m
      BY <2>2, <2>3, Sizes
    <3> QED BY <2>2, <3>1, <3>2
  <2>5. \A n \in Nodes : load_graph[n] = IF n \in 0..m THEN files["graph"][n] ELSE {}
    BY <2>3, <2>4 DEF load_graph
  <2>6. Leaving' = {} /\ Filling' = {}
    BY <2>2 DEF Leaving, Filling
  <2>7. \A x : x \in Unseen' <=> x \in m..(MaxPoints - 1)
    BY <2>2, <2>6, Sizes DEF Unseen, Unused, Slots, Frozen
  <2>8. /\ m # Frozen /\ Frozen \in Nodes /\ Frozen \notin Unseen' /\ Unseen' \subseteq Nodes
        /\ m \in 0..m
    BY <2>2, <2>7, SlotsFinite, Sizes DEF Frozen
  <2>9. ASSUME NEW n \in Nodes
        PROVE  /\ final_graph'[n] \cap Unseen' = {}
               /\ n \in Unseen' => final_graph'[n] = {}
               /\ n = Frozen => Frozen \notin final_graph'[n]
    <3>1. final_graph'[n] =
            IF n = Frozen THEN load_graph[m] ELSE IF n = m THEN {}
            ELSE IF n < m THEN {IF j = m THEN Frozen ELSE j : j \in load_graph[n]}
            ELSE load_graph[n]
      BY <2>2 DEF Moved
    <3>2. CASE n = Frozen
      <4>1. final_graph'[n] = files["graph"][m]
        BY <2>2, <2>5, <2>8, <3>1, <3>2
      <4>2. files["graph"][m] \subseteq 0..m \cup {Frozen} /\ files["graph"][m] \cap {m, Frozen} = {}
        BY <2>3, <2>4, <2>8
      <4> QED BY <2>2, <2>7, <2>8, <3>2, <4>1, <4>2, Sizes
    <3>3. CASE n # Frozen /\ n # m /\ n < m
      <4>1. n \in 0..m /\ n \notin Unseen'
        BY <2>2, <2>7, <3>3, SlotsFinite, Sizes
      <4>2. final_graph'[n] = {IF j = m THEN Frozen ELSE j : j \in files["graph"][n]}
        BY <2>5, <3>1, <3>3, <4>1
      <4>3. files["graph"][n] \subseteq 0..m \cup {Frozen}
        BY <2>3, <2>4, <4>1
      <4> QED BY <2>2, <2>7, <2>8, <3>3, <4>1, <4>2, <4>3, Sizes
    <3>4. CASE n # Frozen /\ (n = m \/ ~(n < m))
      <4>1. n = m \/ n \notin 0..m
        BY <2>2, <3>4, SlotsFinite
      <4>2. final_graph'[n] = {}
        BY <2>5, <3>1, <3>4, <4>1
      <4> QED BY <3>4, <4>2
    <3> QED BY <3>2, <3>3, <3>4
  <2>10. GraphInv'
    BY <2>2, <2>6, <2>8, <2>9 DEF GraphInv
  <2>11. StartInv'
    BY <2>2 DEF StartInv, FreezesOver
  <2>12. GraphFileInv'
    BY <2>2 DEF EdgeInv, GraphFileInv
  <2>13. \A d \in Threads : LinkInv(d)' /\ ScanInv(d)'
    BY <2>2 DEF LinkInv, ScanInv, Inserts
  <2> QED BY <2>10, <2>11, <2>12, <2>13 DEF EdgeInv
<1> QED BY <1>1, <1>2

\* Every step keeps the edges right.
LEMMA NextEdges ==
  ASSUME FewTogether, IInv, VectorsKept, EdgesKept, [Next]_vars
  PROVE  EdgesKept'
<1>1. conc_consolidate' = conc_consolidate
  BY NextMode
<1>2. ASSUME ~conc_consolidate PROVE EdgeInv'
  <2>1. LockInv /\ OwnInv /\ EdgeInv
    BY <1>2 DEF VectorsKept, EdgesKept
  <2>2. CASE UNCHANGED vars
    <3>1. UNCHANGED <<slots, graph, pc, insertion, consolidation, files>>
      BY <2>2 DEF vars, stored
    <3>2. UNCHANGED <<Leaving, Unused, Filling>>
      BY <3>1 DEF Leaving, Unused, Filling, Live, slots, graph, insertion, consolidation
    <3>3. Unseen' = Unseen
      BY <3>2 DEF Unseen
    <3> QED BY <2>1, <3>1, <3>2, <3>3, EdgesKeptBy DEF slots, graph, insertion, consolidation
  <2> QED BY <1>2, <2>1, <2>2, InsertionEdges, ConsolidationEdges, SavingEdges, LoadEdges,
             DeleteEdges DEF Next, Stopped
<1> QED BY <1>1, <1>2 DEF EdgesKept

\* An index that was just built.
LEMMA InitEdges ==
  ASSUME BuiltClean, Init
  PROVE  EdgeInv
<1>1. /\ nd \in StartPoints /\ start = Frozen /\ Live = 0..(nd - 1) /\ delete_set = {}
      /\ final_graph = StartGraph(nd) /\ files = << >>
      /\ \A d \in Threads : pc[d] = "idle" /\ old_delete_set[d] = {}
  BY DEF Init, Live
<1>2. nd \in Nat /\ nd <= MaxPoints
  BY <1>1, IndexAssumption, Sizes DEF IndexAssumption
<1>3. final_graph \in [Nodes -> SUBSET ((0..(nd - 1)) \cup {Frozen})]
  BY <1>1, IndexAssumption DEF IndexAssumption
<1>4. Leaving = {} /\ Filling = {}
  BY <1>1 DEF Leaving, Filling
<1>5. \A x : x \in Unseen <=> x \in Slots \ (0..(nd - 1))
  BY <1>1, <1>4, SlotsFinite DEF Unseen, Unused
<1>6. \A n \in Nodes : final_graph[n] \cap Unseen = {}
  BY <1>3, <1>5, SlotsFinite
<1>7. /\ \A n \in Unseen : final_graph[n] = {}
      /\ Frozen \notin final_graph[Frozen]
  BY <1>1, <1>5 DEF BuiltClean
<1>8. GraphInv
  BY <1>1, <1>4, <1>6, <1>7 DEF GraphInv
<1>9. StartInv /\ GraphFileInv
  BY <1>1 DEF StartInv, GraphFileInv, FreezesOver
<1>10. \A d \in Threads : LinkInv(d) /\ ScanInv(d)
  BY <1>1 DEF LinkInv, ScanInv, Inserts
<1> QED BY <1>8, <1>9, <1>10 DEF EdgeInv

\* The edges are right when no linked node has an edge to a slot that holds
\* nothing.
LEMMA EdgesValid ==
  ASSUME IInv, EdgeInv
  PROVE  NoEdgeToFree
<1>1. CASE usage = "built"
  <2>1. Free = {}
    BY <1>1 DEF IInv, SlotsInv, NoNumbers, Free, ToSet
  <2> QED BY <2>1 DEF NoEdgeToFree
<1>2. CASE usage = "enabled"
  <2>1. Unused = Free \ {start}
    BY <1>2, UnusedFree
  <2>2. ASSUME NEW n \in Nodes \ Unused, \A c \in Inserting(n) : pc[c] \in {"back", "prune"}
        PROVE  final_graph[n] \cap Unused = {}
    <3>1. n \notin Filling
      BY <2>2 DEF Filling, Inserting
    <3> QED BY <3>1 DEF EdgeInv, GraphInv, Unseen
  <2> QED BY <2>1, <2>2 DEF NoEdgeToFree
<1> QED BY <1>1, <1>2 DEF IInv, UsageInv

\* Without concurrent consolidation no edge leads from a point, or from the
\* frozen point, to a free slot, whoever inserts, deletes, consolidates, renumbers
\* the slots or loads them again (inter_insert, process_delete, release_locations
\* and compact_data of src/index.cpp), as long as no insertion takes a point for
\* a neighbour that another one has not linked yet.
THEOREM EdgesStayRight ==
  ASSUME BuiltClean, ~SavesWithHoles, FewTogether
  PROVE  Spec => []EdgesStayValid
<1>1. Init => (UsedAsMeant => EdgesKept)
  BY InitEdges DEF EdgesKept
<1>2. (UsedAsMeant => IInv) /\ (UsedAsMeant => VectorsKept) /\ (UsedAsMeant => EdgesKept)
        /\ [Next]_vars => (UsedAsMeant => EdgesKept)'
  BY NextEdges, WhileUsedAsMeant
<1>3. (UsedAsMeant => IInv) /\ (UsedAsMeant => EdgesKept) => EdgesStayValid
  BY EdgesValid DEF EdgesKept, EdgesStayValid
<1> QED BY <1>1, <1>2, <1>3, Invariance, VectorsInvariance, PTL DEF Spec

-----------------------------------------------------------------------------
(***************************************************************************)
(* What is saved.                                                          *)
(***************************************************************************)
\* What save has written so far is what the index holds, and the files say
\* where the frozen point is: behind the points.
WrittenInv ==
  /\ \A c \in Threads :
       /\ pc[c] \in {"save_data", "save_tags", "saved"} =>
            /\ files["start"] = start
            /\ files["graph"] = [n \in 0..nd |-> final_graph[n]]
       /\ pc[c] \in {"save_tags", "saved"} => files["data"] = [n \in 0..nd |-> data[n]]
       /\ pc[c] = "saved" =>
            files["tags"] = [n \in 0..nd |-> IF n \in Live THEN location_to_tag[n] ELSE NoTag]
  /\ {"start", "graph"} \subseteq DOMAIN files =>
       \A m \in 0..MaxPoints : DOMAIN files["graph"] = 0..m => files["start"] = m

\* The parts of an index by its tags.
NameOf(tags, n) == IF n \in DOMAIN tags THEN tags[n] ELSE NoTag
EdgesOf(lists, tags, first, n) ==
  {NameOf(tags, m) : m \in lists[n] \cap (DOMAIN tags \cup {first, Frozen})}
VectorOf(lists, vectors, tags, first, n) ==
  IF n = first /\ EdgesOf(lists, tags, first, n) = {} THEN NoTag ELSE vectors[n]

LEMMA ByTagIs ==
  ASSUME NEW lists, NEW vectors, NEW tags, NEW first
  PROVE  ByTag(lists, vectors, tags, first) =
           {<<NameOf(tags, n), VectorOf(lists, vectors, tags, first, n),
              EdgesOf(lists, tags, first, n)>> : n \in DOMAIN tags \cup {first}}
BY DEF ByTag, NameOf, VectorOf, EdgesOf

\* Two lists name the same neighbours.
LEMMA SameEdges ==
  ASSUME NEW lists, NEW tags, NEW first, NEW s,
         NEW lists2, NEW tags2, NEW first2, NEW n,
         \A m \in lists[s] \cap (DOMAIN tags \cup {first, Frozen}) :
           \E k \in lists2[n] \cap (DOMAIN tags2 \cup {first2, Frozen}) :
             NameOf(tags, m) = NameOf(tags2, k),
         \A k \in lists2[n] \cap (DOMAIN tags2 \cup {first2, Frozen}) :
           \E m \in lists[s] \cap (DOMAIN tags \cup {first, Frozen}) :
             NameOf(tags, m) = NameOf(tags2, k)
  PROVE  EdgesOf(lists2, tags2, first2, n) = EdgesOf(lists, tags, first, s)
<1> DEFINE S == lists[s] \cap (DOMAIN tags \cup {first, Frozen})
           T == lists2[n] \cap (DOMAIN tags2 \cup {first2, Frozen})
<1>1. EdgesOf(lists, tags, first, s) = {NameOf(tags, m) : m \in S}
  BY DEF EdgesOf
<1>2. EdgesOf(lists2, tags2, first2, n) = {NameOf(tags2, k) : k \in T}
  BY DEF EdgesOf
<1>3. /\ \A m \in S : \E k \in T : NameOf(tags, m) = NameOf(tags2, k)
      /\ \A k \in T : \E m \in S : NameOf(tags, m) = NameOf(tags2, k)
  OBVIOUS
<1> HIDE DEF S, T
<1> QED BY <1>1, <1>2, <1>3

\* Points that go elsewhere, with their tags, their vectors and their edges,
\* make the same index.
LEMMA SameByTag ==
  ASSUME NEW lists, NEW vectors, NEW tags, NEW first,
         NEW lists2, NEW vectors2, NEW tags2, NEW first2, NEW f,
         \A s \in DOMAIN tags \cup {first} : f[s] \in DOMAIN tags2 \cup {first2},
         \A n \in DOMAIN tags2 \cup {first2} : \E s \in DOMAIN tags \cup {first} : f[s] = n,
         \A s \in DOMAIN tags \cup {first} :
           /\ NameOf(tags2, f[s]) = NameOf(tags, s)
           /\ EdgesOf(lists2, tags2, first2, f[s]) = EdgesOf(lists, tags, first, s)
           /\ VectorOf(lists2, vectors2, tags2, first2, f[s])
                = VectorOf(lists, vectors, tags, first, s)
  PROVE  ByTag(lists2, vectors2, tags2, first2) = ByTag(lists, vectors, tags, first)
<1> DEFINE P == DOMAIN tags \cup {first}
           P2 == DOMAIN tags2 \cup {first2}
           entry(s) == <<NameOf(tags, s), VectorOf(lists, vectors, tags, first, s),
                         EdgesOf(lists, tags, first, s)>>
           entry2(n) == <<NameOf(tags2, n), VectorOf(lists2, vectors2, tags2, first2, n),
                          EdgesOf(lists2, tags2, first2, n)>>
<1>1. ByTag(lists, vectors, tags, first) = {entry(s) : s \in P}
  BY ByTagIs
<1>2. ByTag(lists2, vectors2, tags2, first2) = {entry2(n) : n \in P2}
  BY ByTagIs
<1>3. \A s \in P : f[s] \in P2 /\ entry2(f[s]) = entry(s)
  OBVIOUS
<1>4. \A n \in P2 : \E s \in P : f[s] = n
  OBVIOUS
<1> HIDE DEF P, P2, entry, entry2
<1> QED BY <1>1, <1>2, <1>3, <1>4

\* An index is known by what it holds for its points.
LEMMA ByTagSame ==
  ASSUME NEW lists, NEW vectors, NEW tags, NEW first,
         NEW lists2, NEW vectors2, NEW tags2,
         DOMAIN tags2 = DOMAIN tags, \A n \in DOMAIN tags : tags2[n] = tags[n],
         \A n \in DOMAIN tags \cup {first} : lists2[n] = lists[n] /\ vectors2[n] = vectors[n]
  PROVE  ByTag(lists2, vectors2, tags2, first) = ByTag(lists, vectors, tags, first)
<1> DEFINE f == [s \in DOMAIN tags \cup {first} |-> s]
<1>1. \A n : NameOf(tags2, n) = NameOf(tags, n)
  BY DEF NameOf
<1>2. ASSUME NEW s \in DOMAIN tags \cup {first}
      PROVE  /\ EdgesOf(lists2, tags2, first, s) = EdgesOf(lists, tags, first, s)
             /\ vectors2[s] = vectors[s]
  BY <1>1 DEF EdgesOf
<1>3. ASSUME NEW s \in DOMAIN tags \cup {first}
      PROVE  VectorOf(lists2, vectors2, tags2, first, s) = VectorOf(lists, vectors, tags, first, s)
  BY <1>2 DEF VectorOf
<1>4. /\ \A s \in DOMAIN tags \cup {first} : f[s] \in DOMAIN tags2 \cup {first}
      /\ \A n \in DOMAIN tags2 \cup {first} : \E s \in DOMAIN tags \cup {first} : f[s] = n
      /\ \A s \in DOMAIN tags \cup {first} :
           /\ NameOf(tags2, f[s]) = NameOf(tags, s)
           /\ EdgesOf(lists2, tags2, first, f[s]) = EdgesOf(lists, tags, first, s)
           /\ VectorOf(lists2, vectors2, tags2, first, f[s])
                = VectorOf(lists, vectors, tags, first, s)
  BY <1>1, <1>2, <1>3
<1> HIDE DEF f
<1> QED BY ONLY <1>4, SameByTag

\* The frozen point moves, behind the others or back to the end.
LEMMA FrozenMoves ==
  ASSUME NEW m \in 0..(MaxPoints - 1), NEW tags, DOMAIN tags = 0..(m - 1),
         NEW lists \in [Nodes -> SUBSET Nodes], NEW vectors \in [Nodes -> Int],
         NEW old, NEW new, <<old, new>> \in {<<m, Frozen>>, <<Frozen, m>>},
         lists[old] \cap {m, Frozen} = {},
         old = Frozen => \A n \in 0..(m - 1) : m \notin lists[n]
  PROVE  ByTag(Moved(lists, m, old, new), MovedVector(vectors, old, new), tags, new)
           = ByTag(lists, vectors, tags, old)
<1> DEFINE lists2 == Moved(lists, m, old, new)
           vectors2 == MovedVector(vectors, old, new)
           f == [s \in DOMAIN tags \cup {old} |-> IF s = old THEN new ELSE s]
<1>1. /\ m \in Nat /\ m \in Nodes /\ Frozen \in Nodes /\ m # Frozen /\ Frozen \in Int
      /\ \A s \in 0..(m - 1) : s \in Nodes /\ s \in Int /\ s < m /\ s # m /\ s # Frozen
      /\ m \notin DOMAIN tags /\ Frozen \notin DOMAIN tags
  BY SlotsFinite, Sizes DEF Frozen
<1>2. \/ old = m /\ new = Frozen
      \/ old = Frozen /\ new = m
  OBVIOUS
<1>3. /\ lists2[new] = lists[old]
      /\ \A s \in 0..(m - 1) : lists2[s] = {IF k = old THEN new ELSE k : k \in lists[s]}
  BY <1>1, <1>2 DEF Moved
<1>4. vectors2[new] = vectors[old] /\ \A s \in 0..(m - 1) : vectors2[s] = vectors[s]
  BY <1>1, <1>2 DEF MovedVector
<1> HIDE DEF lists2, vectors2
<1>5. /\ \A s \in DOMAIN tags \cup {old} : f[s] \in DOMAIN tags \cup {new}
      /\ \A n \in DOMAIN tags \cup {new} : \E s \in DOMAIN tags \cup {old} : f[s] = n
  BY <1>1, <1>2
<1>6. /\ f[old] = new /\ \A s \in 0..(m - 1) : f[s] = s
      /\ \A s \in DOMAIN tags \cup {old} : s = old <=> f[s] = new
  BY <1>1, <1>2
<1>7. NameOf(tags, m) = NoTag /\ NameOf(tags, Frozen) = NoTag
  BY <1>1 DEF NameOf
<1>8. ASSUME NEW s \in 0..(m - 1)
      PROVE  EdgesOf(lists2, tags, new, s) = EdgesOf(lists, tags, old, s)
  <2> DEFINE S == lists[s] \cap (DOMAIN tags \cup {old, Frozen})
             T == lists2[s] \cap (DOMAIN tags \cup {new, Frozen})
  <2>1. ASSUME NEW k \in S PROVE \E j \in T : NameOf(tags, k) = NameOf(tags, j)
    <3>1. CASE k = old
      BY <1>2, <1>3, <1>7, <3>1
    <3>2. CASE k # old
      <4>1. k \in lists2[s]
        BY <1>3, <3>2
      <4> QED BY <3>2, <4>1
    <3> QED BY <3>1, <3>2
  <2>2. ASSUME NEW j \in T PROVE \E k \in S : NameOf(tags, k) = NameOf(tags, j)
    <3>1. PICK k \in lists[s] : j = IF k = old THEN new ELSE k
      BY <1>3
    <3>2. CASE k = old
      BY <1>2, <1>7, <3>1, <3>2
    <3>3. CASE k # old
      <4>1. j = k /\ k \in DOMAIN tags \cup {new, Frozen}
        BY <3>1, <3>3
      <4>2. k # m
        BY <1>1, <1>2, <3>3
      <4>3. k \in S
        BY <1>2, <4>1, <4>2
      <4> QED BY <4>1, <4>3
    <3> QED BY <3>2, <3>3
  <2> QED BY <2>1, <2>2, SameEdges
<1>9. EdgesOf(lists2, tags, new, new) = EdgesOf(lists, tags, old, old)
  <2>1. lists2[new] \cap (DOMAIN tags \cup {new, Frozen})
          = lists[old] \cap (DOMAIN tags \cup {old, Frozen})
    BY <1>2, <1>3
  <2> QED BY <2>1 DEF EdgesOf
<1>10. ASSUME NEW s \in DOMAIN tags \cup {old}
       PROVE  /\ NameOf(tags, f[s]) = NameOf(tags, s)
              /\ EdgesOf(lists2, tags, new, f[s]) = EdgesOf(lists, tags, old, s)
              /\ VectorOf(lists2, vectors2, tags, new, f[s]) = VectorOf(lists, vectors, tags, old, s)
  <2>1. CASE s = old
    <3> HIDE DEF f
    <3> QED BY <1>2, <1>4, <1>6, <1>7, <1>9, <2>1 DEF VectorOf
  <2>2. CASE s # old
    <3>1. s \in 0..(m - 1) /\ f[s] = s /\ s # new
      BY <1>1, <1>2, <1>6, <2>2
    <3> HIDE DEF f
    <3> QED BY <1>4, <1>8, <2>2, <3>1 DEF VectorOf
  <2> QED BY <2>1, <2>2
<1> HIDE DEF f
<1>11. ByTag(lists2, vectors2, tags, new) = ByTag(lists, vectors, tags, old)
  <2>1. \A s \in DOMAIN tags \cup {old} :
          /\ NameOf(tags, f[s]) = NameOf(tags, s)
          /\ EdgesOf(lists2, tags, new, f[s]) = EdgesOf(lists, tags, old, s)
          /\ VectorOf(lists2, vectors2, tags, new, f[s]) = VectorOf(lists, vectors, tags, old, s)
    BY <1>10
  <2> QED BY ONLY <1>5, <2>1, SameByTag
<1> QED BY <1>11 DEF lists2, vectors2

\* Without neighbours the frozen point is only said to be behind the others.
LEMMA FirstChanges ==
  ASSUME NEW m \in 0..(MaxPoints - 1), NEW tags, DOMAIN tags = 0..(m - 1),
         NEW lists, NEW vectors, lists[Frozen] = {}, lists[m] = {},
         \A n \in 0..(m - 1) : m \notin lists[n]
  PROVE  ByTag(lists, vectors, tags, m) = ByTag(lists, vectors, tags, Frozen)
<1> DEFINE f == [s \in DOMAIN tags \cup {Frozen} |-> IF s = Frozen THEN m ELSE s]
<1>1. /\ m # Frozen /\ m \notin DOMAIN tags /\ Frozen \notin DOMAIN tags
      /\ \A s \in 0..(m - 1) : s # m /\ s # Frozen
  BY Sizes DEF Frozen
<1>2. /\ \A s \in DOMAIN tags \cup {Frozen} : f[s] \in DOMAIN tags \cup {m}
      /\ \A n \in DOMAIN tags \cup {m} : \E s \in DOMAIN tags \cup {Frozen} : f[s] = n
  BY <1>1
<1>3. f[Frozen] = m /\ \A s \in DOMAIN tags : f[s] = s
  BY <1>1
<1>4. ASSUME NEW s \in DOMAIN tags
      PROVE  EdgesOf(lists, tags, m, s) = EdgesOf(lists, tags, Frozen, s)
  <2>1. lists[s] \cap (DOMAIN tags \cup {m, Frozen})
          = lists[s] \cap (DOMAIN tags \cup {Frozen, Frozen})
    OBVIOUS
  <2> QED BY <2>1 DEF EdgesOf
<1>5. EdgesOf(lists, tags, m, m) = {} /\ EdgesOf(lists, tags, Frozen, Frozen) = {}
  BY DEF EdgesOf
<1>6. NameOf(tags, m) = NameOf(tags, Frozen)
  BY <1>1 DEF NameOf
<1>7. ASSUME NEW s \in DOMAIN tags \cup {Frozen}
      PROVE  /\ NameOf(tags, f[s]) = NameOf(tags, s)
             /\ EdgesOf(lists, tags, m, f[s]) = EdgesOf(lists, tags, Frozen, s)
             /\ VectorOf(lists, vectors, tags, m, f[s]) = VectorOf(lists, vectors, tags, Frozen, s)
  <2> HIDE DEF f
  <2>1. CASE s = Frozen
    BY <1>3, <1>5, <1>6, <2>1 DEF VectorOf
  <2>2. CASE s # Frozen
    <3>1. s \in DOMAIN tags /\ f[s] = s /\ s # m
      BY <1>1, <1>3, <2>2
    <3> QED BY <1>4, <2>2, <3>1 DEF VectorOf
  <2> QED BY <2>1, <2>2
<1> HIDE DEF f
<1>8. \A s \in DOMAIN tags \cup {Frozen} :
        /\ NameOf(tags, f[s]) = NameOf(tags, s)
        /\ EdgesOf(lists, tags, m, f[s]) = EdgesOf(lists, tags, Frozen, s)
        /\ VectorOf(lists, vectors, tags, m, f[s]) = VectorOf(lists, vectors, tags, Frozen, s)
  BY <1>7
<1> QED BY ONLY <1>2, <1>8, SameByTag

\* Compaction takes every point to its new place.
LEMMA CompactContents ==
  ASSUME IInv, EdgeInv, NEW c \in Threads, compact_data(c)
  PROVE  Contents' = Contents
<1>1. pc[c] = "compact" /\ pc[c] \in Saves
  BY DEF compact_data, At, Saves
<1>2. start = Frozen
  BY <1>1, WhileSaving DEF FreezesOver
<1>3. CASE data_compacted \/ delete_set # {}
  BY <1>3 DEF compact_data, Contents, slots
<1>4. CASE ~data_compacted /\ delete_set = {}
  <2> DEFINE P == Live \cup {Frozen}
             tags == location_to_tag
             tags2 == location_to_tag'
             lists == final_graph
             lists2 == final_graph'
             f == [s \in DOMAIN tags \cup {Frozen} |-> new_location(s)]
  <2>1. /\ nd < MaxPoints /\ nd \in Nat /\ start' = start
        /\ final_graph' = compacted(final_graph)
        /\ data' = [n \in Nodes |->
             IF \E s \in Live : new_location(s) = n
             THEN data[CHOOSE s \in Live : new_location(s) = n] ELSE data[n]]
        /\ \A s \in Live : new_location(s) \in 0..(nd - 1)
        /\ \A s, t \in Live : new_location(s) = new_location(t) => s = t
        /\ {new_location(s) : s \in Live} = 0..(nd - 1)
        /\ \A s \in Live : (CHOOSE x \in Live : new_location(x) = new_location(s)) = s
        /\ Live' = 0..(nd - 1)
        /\ \A s \in Live : location_to_tag'[new_location(s)] = location_to_tag[s]
    BY <1>4, CompactFacts
  <2>2. /\ Live \subseteq Slots /\ DOMAIN tags = Live /\ DOMAIN tags2 = 0..(nd - 1)
        /\ 0..(nd - 1) \subseteq Nodes /\ Frozen \in Nodes
        /\ Frozen \notin Live /\ Frozen \notin 0..(nd - 1)
    BY <2>1, SlotsFinite, Sizes DEF IInv, TypeOK, Live, Frozen
  <2>3. new_location(Frozen) = Frozen
    BY DEF new_location
  <2>4. \A s, t \in P : new_location(s) = new_location(t) => s = t
    BY <2>1, <2>2, <2>3
  <2>5. /\ \A s \in DOMAIN tags \cup {Frozen} : f[s] \in DOMAIN tags2 \cup {Frozen}
        /\ \A n \in DOMAIN tags2 \cup {Frozen} : \E s \in DOMAIN tags \cup {Frozen} : f[s] = n
    BY <2>1, <2>2, <2>3
  <2>6. ASSUME NEW s \in P PROVE NameOf(tags2, new_location(s)) = NameOf(tags, s)
    BY <2>1, <2>2, <2>3 DEF NameOf
  <2>7. ASSUME NEW s \in P
        PROVE  /\ new_location(s) \in Nodes
               /\ lists2[new_location(s)] = {new_location(m) : m \in lists[s] \cap P}
    <3> DEFINE n == new_location(s)
               S == {x \in Live \cup {Frozen} : new_location(x) = n}
    <3>1. n \in Nodes
      BY <2>1, <2>2, <2>3
    <3>2. S = {s}
      BY <2>4
    <3>3. UNION {final_graph[x] : x \in S} = final_graph[s]
      BY <3>2
    <3>4. lists2[n] = {new_location(m) : m \in (UNION {final_graph[x] : x \in S}) \cap P}
      BY <2>1, <3>1 DEF compacted
    <3> HIDE DEF S
    <3> QED BY <3>1, <3>3, <3>4
  <2>8. ASSUME NEW s \in P
        PROVE  EdgesOf(lists2, tags2, Frozen, new_location(s)) = EdgesOf(lists, tags, Frozen, s)
    <3>1. \A m \in lists[s] \cap (DOMAIN tags \cup {Frozen, Frozen}) :
            \E k \in lists2[new_location(s)] \cap (DOMAIN tags2 \cup {Frozen, Frozen}) :
              NameOf(tags, m) = NameOf(tags2, k)
      BY <2>1, <2>2, <2>3, <2>6, <2>7
    <3>2. \A k \in lists2[new_location(s)] \cap (DOMAIN tags2 \cup {Frozen, Frozen}) :
            \E m \in lists[s] \cap (DOMAIN tags \cup {Frozen, Frozen}) :
              NameOf(tags, m) = NameOf(tags2, k)
      BY <2>2, <2>6, <2>7
    <3> QED BY ONLY <3>1, <3>2, SameEdges
  <2>9. ASSUME NEW s \in P PROVE data'[new_location(s)] = data[s]
    <3>1. CASE s \in Live
      BY <2>1, <2>7, <3>1
    <3>2. CASE s = Frozen
      <4>1. ~ \E x \in Live : new_location(x) = Frozen
        BY <2>1, <2>2
      <4> QED BY <2>1, <2>2, <2>3, <3>2, <4>1
    <3> QED BY <3>1, <3>2
  <2>10. \A s \in DOMAIN tags \cup {Frozen} :
           /\ NameOf(tags2, f[s]) = NameOf(tags, s)
           /\ EdgesOf(lists2, tags2, Frozen, f[s]) = EdgesOf(lists, tags, Frozen, s)
           /\ VectorOf(lists2, data', tags2, Frozen, f[s]) = VectorOf(lists, data, tags, Frozen, s)
    <3> SUFFICES ASSUME NEW s \in P
                 PROVE  /\ NameOf(tags2, f[s]) = NameOf(tags, s)
                        /\ EdgesOf(lists2, tags2, Frozen, f[s]) = EdgesOf(lists, tags, Frozen, s)
                        /\ VectorOf(lists2, data', tags2, Frozen, f[s])
                             = VectorOf(lists, data, tags, Frozen, s)
      BY <2>2
    <3>1. f[s] = new_location(s) /\ (f[s] = Frozen <=> s = Frozen)
      BY <2>2, <2>3, <2>4
    <3> HIDE DEF f, lists, lists2, tags, tags2
    <3> QED BY <2>6, <2>8, <2>9, <3>1 DEF VectorOf
  <2> HIDE DEF f
  <2>11. ByTag(lists2, data', tags2, Frozen) = ByTag(lists, data, tags, Frozen)
    BY ONLY <2>5, <2>10, SameByTag
  <2> QED BY <1>2, <2>1, <2>11 DEF Contents
<1> QED BY <1>3, <1>4

\* The frozen point goes behind the points: no edge leads to where it goes.
LEMMA FreezeContents ==
  ASSUME IInv, EdgeInv, NEW c \in Threads, compact_frozen_point(c)
  PROVE  Contents' = Contents
<1>1. /\ pc[c] = "freeze" /\ pc[c] \in Saves
      /\ start' = IF nd < MaxPoints THEN nd ELSE start
      /\ IF nd < MaxPoints /\ final_graph[Frozen] # {}
           THEN /\ final_graph' = Moved(final_graph, nd, Frozen, nd)
                /\ data' = MovedVector(data, Frozen, nd)
           ELSE UNCHANGED <<final_graph, data>>
      /\ location_to_tag' = location_to_tag
  BY DEF compact_frozen_point, At, Saves, slots
<1>2. /\ data_compacted /\ nd \in 0..MaxPoints
      /\ final_graph \in [Nodes -> SUBSET Nodes] /\ data \in [Nodes -> Int]
  BY <1>1, SaverFacts DEF IInv, TypeOK, SaveInv
<1>3. /\ Unseen = Unused /\ start = Frozen /\ Live = 0..(nd - 1)
      /\ \A x : x \in Unused <=> x \in nd..(MaxPoints - 1) /\ x # start
  BY <1>1, <1>2, WhileSaving DEF FreezesOver
<1>4. CASE nd = MaxPoints
  BY <1>1, <1>4, Sizes DEF Contents
<1>5. CASE nd < MaxPoints
  <2>1. nd \in 0..(MaxPoints - 1) /\ DOMAIN location_to_tag = 0..(nd - 1)
    BY <1>2, <1>3, <1>5, Sizes DEF Live
  <2>2. nd \in Unseen /\ final_graph[nd] = {} /\ nd # Frozen
    BY <1>2, <1>3, <1>5, <2>1, Sizes DEF EdgeInv, GraphInv, Frozen
  <2>3. ASSUME NEW n \in 0..(nd - 1) PROVE nd \notin final_graph[n]
    <3>1. n \in Nodes /\ n \notin Unseen
      BY <1>3, <2>1, SlotsFinite, Sizes
    <3> QED BY <2>2, <3>1 DEF EdgeInv, GraphInv
  <2>4. final_graph[Frozen] \cap {nd, Frozen} = {}
    <3>1. Frozen \in Nodes /\ Frozen \notin Unseen
      BY <1>3, SlotsFinite
    <3> QED BY <1>3, <2>2, <3>1 DEF EdgeInv, GraphInv
  <2>5. CASE final_graph[Frozen] # {}
    <3>1. ByTag(Moved(final_graph, nd, Frozen, nd), MovedVector(data, Frozen, nd),
                location_to_tag, nd)
            = ByTag(final_graph, data, location_to_tag, Frozen)
      BY ONLY <1>2, <2>1, <2>3, <2>4, FrozenMoves
    <3> QED BY <1>1, <1>3, <1>5, <2>5, <3>1 DEF Contents
  <2>6. CASE final_graph[Frozen] = {}
    <3>1. ByTag(final_graph, data, location_to_tag, nd)
            = ByTag(final_graph, data, location_to_tag, Frozen)
      BY ONLY <2>1, <2>2, <2>3, <2>6, FirstChanges
    <3> QED BY <1>1, <1>3, <1>5, <2>6, <3>1 DEF Contents
  <2> QED BY <2>5, <2>6
<1> QED BY <1>2, <1>4, <1>5, Sizes

\* And back.
LEMMA RepositionContents ==
  ASSUME IInv, EdgeInv, NEW c \in Threads, reposition_frozen_point_to_end(c)
  PROVE  Contents' = Contents
<1>1. /\ pc[c] = "saved" /\ pc[c] \in Saves
      /\ IF nd = MaxPoints THEN UNCHANGED <<final_graph, data, start>>
         ELSE /\ final_graph' = Moved(final_graph, nd, nd, Frozen)
              /\ data' = MovedVector(data, nd, Frozen)
              /\ start' = Frozen
      /\ location_to_tag' = location_to_tag
  BY DEF reposition_frozen_point_to_end, At, Saves, slots, graph
<1>2. /\ data_compacted /\ nd \in 0..MaxPoints
      /\ final_graph \in [Nodes -> SUBSET Nodes] /\ data \in [Nodes -> Int]
  BY <1>1, SaverFacts DEF IInv, TypeOK, SaveInv
<1>3. start = nd /\ Live = 0..(nd - 1)
  BY <1>1, <1>2, WhileSaving DEF FreezesOver
<1>4. CASE nd = MaxPoints
  BY <1>1, <1>4 DEF Contents
<1>5. CASE nd # MaxPoints
  <2>1. nd \in 0..(MaxPoints - 1) /\ DOMAIN location_to_tag = 0..(nd - 1)
    BY <1>2, <1>3, <1>5, Sizes DEF Live
  <2>2. final_graph[nd] \cap {nd, Frozen} = {}
    BY <1>3 DEF EdgeInv, GraphInv
  <2>3. nd # Frozen
    BY <1>5 DEF Frozen
  <2>4. ByTag(Moved(final_graph, nd, nd, Frozen), MovedVector(data, nd, Frozen),
              location_to_tag, Frozen)
          = ByTag(final_graph, data, location_to_tag, nd)
    BY ONLY <1>2, <2>1, <2>2, <2>3, FrozenMoves
  <2> QED BY <1>1, <1>3, <1>5, <2>4 DEF Contents
<1> QED BY <1>4, <1>5

\* What save leaves in the files is the index.
LEMMA FilesContents ==
  ASSUME IInv, EdgeInv, WrittenInv, NEW c \in Threads, pc[c] = "saved"
  PROVE  FileContents = Contents
<1>1. pc[c] \in Saves
  BY DEF Saves
<1>2. data_compacted /\ nd \in 0..MaxPoints /\ nd \in Int
  BY <1>1, SaverFacts, Sizes DEF IInv, TypeOK, SaveInv
<1>3. start = nd /\ Live = 0..(nd - 1)
  BY <1>1, <1>2, WhileSaving DEF FreezesOver
<1>4. /\ files["start"] = nd
      /\ files["graph"] = [n \in 0..nd |-> final_graph[n]]
      /\ files["data"] = [n \in 0..nd |-> data[n]]
      /\ files["tags"] = [n \in 0..nd |-> IF n \in Live THEN location_to_tag[n] ELSE NoTag]
  BY <1>3 DEF WrittenInv
<1> DEFINE tags == [n \in DOMAIN files["tags"] \ {files["start"]} |-> files["tags"][n]]
<1>5. DOMAIN tags = 0..(nd - 1) /\ \A n \in 0..(nd - 1) : tags[n] = location_to_tag[n]
  BY <1>2, <1>3, <1>4
<1>6. 0..(nd - 1) \cup {nd} = 0..nd
  BY <1>2
<1>7. DOMAIN tags = DOMAIN location_to_tag
  BY <1>3, <1>5 DEF Live
<1>8. \A n \in DOMAIN location_to_tag \cup {nd} :
        files["graph"][n] = final_graph[n] /\ files["data"][n] = data[n]
  BY <1>3, <1>4, <1>6 DEF Live
<1>9. \A n \in DOMAIN location_to_tag : tags[n] = location_to_tag[n]
  BY <1>5, <1>7
<1>10. FileContents = ByTag(files["graph"], files["data"], tags, nd)
  BY <1>4 DEF FileContents
<1> HIDE DEF tags
<1>11. ByTag(files["graph"], files["data"], tags, nd)
         = ByTag(final_graph, data, location_to_tag, nd)
  BY ONLY <1>7, <1>8, <1>9, ByTagSame
<1> QED BY <1>3, <1>10, <1>11 DEF Contents

\* A load brings back what the files say.
LEMMA LoadContents ==
  ASSUME IInv, EdgeInv, WrittenInv, load, failure' = "none"
  PROVE  Contents' = FileContents
<1>1. DOMAIN files = {"graph", "start", "data", "tags"}
  BY DEF load
<1>2. PICK m \in 0..MaxPoints : Loaded(m)
  BY <1>1, LoadFacts
<1>3. /\ m < MaxPoints /\ m \in Nat /\ m \in Nodes /\ 0..(m - 1) \subseteq Slots
      /\ final_graph' = Moved(load_graph, m, m, Frozen) /\ start' = Frozen
      /\ data' = MovedVector(load_data, m, Frozen)
      /\ Live' = 0..(m - 1) /\ DOMAIN files["data"] = 0..m /\ DOMAIN files["tags"] = 0..m
      /\ \A s \in 0..(m - 1) : location_to_tag'[s] = files["tags"][s]
  BY <1>2 DEF Loaded
<1>4. PICK k \in 0..MaxPoints :
        DOMAIN files["graph"] = 0..k /\ files["graph"][k] \cap {k, Frozen} = {}
  BY <1>1 DEF EdgeInv, GraphFileInv
<1>5. k = m
  <2>1. 0..k = 0..m
    BY <1>1, <1>3, <1>4 DEF EdgeInv, GraphFileInv
  <2>2. k \in Nat /\ k \in 0..k /\ m \in 0..m
    BY <1>3, <1>4, Sizes
  <2> QED BY <1>3, <2>1, <2>2
<1>6. files["start"] = m
  BY <1>1, <1>2, <1>4, <1>5 DEF WrittenInv
<1>7. /\ load_graph \in [Nodes -> SUBSET Nodes] /\ load_data \in [Nodes -> Int]
  <2>1. /\ \A n \in DOMAIN files["graph"] : files["graph"][n] \in SUBSET Nodes
        /\ \A n \in DOMAIN files["data"] : files["data"][n] \in Int
    BY <1>1 DEF IInv, FilesInv
  <2>2. NoTag \in Int
    BY DEF NoTag
  <2> QED BY ONLY <2>1, <2>2 DEF load_graph, load_data
<1>8. \A n \in 0..m : /\ n \in Nodes
                      /\ load_graph[n] = files["graph"][n] /\ load_data[n] = files["data"][n]
  BY <1>3, <1>4, <1>5, SlotsFinite, Sizes DEF load_graph, load_data
<1> DEFINE tags == [n \in DOMAIN files["tags"] \ {files["start"]} |-> files["tags"][n]]
<1>9. DOMAIN tags = 0..(m - 1) /\ \A n \in 0..(m - 1) : tags[n] = files["tags"][n]
  BY <1>3, <1>6
<1>10. ByTag(Moved(load_graph, m, m, Frozen), MovedVector(load_data, m, Frozen),
             location_to_tag', Frozen)
         = ByTag(load_graph, load_data, location_to_tag', m)
  <2>1. m \in 0..(MaxPoints - 1) /\ DOMAIN location_to_tag' = 0..(m - 1)
    BY <1>3, Sizes DEF Live
  <2>2. load_graph[m] \cap {m, Frozen} = {} /\ m # Frozen
    BY <1>3, <1>4, <1>5, <1>8, Sizes DEF Frozen
  <2> QED BY ONLY <1>7, <2>1, <2>2, FrozenMoves
<1>11. ByTag(files["graph"], files["data"], tags, m)
         = ByTag(load_graph, load_data, location_to_tag', m)
  <2>1. DOMAIN tags = DOMAIN location_to_tag'
        /\ \A n \in DOMAIN location_to_tag' : tags[n] = location_to_tag'[n]
    BY <1>3, <1>9 DEF Live
  <2>2. \A n \in DOMAIN location_to_tag' \cup {m} :
          files["graph"][n] = load_graph[n] /\ files["data"][n] = load_data[n]
    BY <1>3, <1>8 DEF Live
  <2> HIDE DEF tags
  <2> QED BY ONLY <2>1, <2>2, ByTagSame
<1> QED BY <1>3, <1>6, <1>10, <1>11 DEF Contents, FileContents

\* While a thread is in save, nothing else is done: but the process may stop and
\* a new one load.
LEMMA SaverMoves ==
  ASSUME IInv, [Next]_vars, NEW c \in Threads, pc[c] \in Saves
  PROVE  \/ UNCHANGED vars \/ load
         \/ compact_data(c) \/ compact_frozen_point(c)
         \/ save_graph(c) \/ save_data(c) \/ save_tags(c) \/ reposition_frozen_point_to_end(c)
<1>1. \A d \in Threads : d # c => pc[d] = "idle"
  BY SaverFacts
<1>2. \A d \in Threads : pc[d] \in Saves \cup {"idle"}
  BY <1>1
<1>3. ASSUME NEW d \in Threads, Calls(d), update_writer = Nobody PROVE FALSE
  <2>1. /\ pc[d] = "idle" /\ pc[d] \notin Saves
        /\ \A e \in Threads : pc[e] \notin {"compact", "freeze", "save"}
    BY <1>3 DEF Calls, Saves
  <2> QED BY <1>3, <2>1, NobodySaves
<1>4. ASSUME NEW d \in Threads,
             enable_delete(d) \/ \E tags \in (SUBSET Tags) \ {{}} : lazy_delete(d, tags)
      PROVE  FALSE
  BY <1>3, <1>4 DEF enable_delete, lazy_delete
<1>5. ASSUME NEW d \in Threads, Insertion(d) PROVE FALSE
  <2>1. ASSUME NEW t \in Tags, insert_point(d, t) PROVE FALSE
    BY <1>3, <2>1 DEF insert_point
  <2>2. ASSUME NEW n \in Nodes, LinkBack(d, n) PROVE FALSE
    BY <1>2, <2>2 DEF LinkBack, At, Saves
  <2>3. CASE Reserve(d) \/ ReserveFull(d) \/ ReserveDuplicate(d)
    BY <1>2, <2>3 DEF Reserve, ReserveFull, ReserveDuplicate, At, Saves
  <2>4. CASE WriteVector(d) \/ FindNeighbors(d) \/ LinkPoint(d) \/ PruneBack(d) \/ ReturnInsert(d)
    BY <1>2, <2>4 DEF WriteVector, FindNeighbors, LinkPoint, PruneBack, ReturnInsert, At, Saves
  <2> QED BY <1>5, <2>1, <2>2, <2>3, <2>4 DEF Insertion
<1>6. ASSUME NEW d \in Threads, Consolidation(d) PROVE FALSE
  <2>1. CASE consolidate_deletes(d)
    BY <1>3, <2>1 DEF consolidate_deletes
  <2>2. ASSUME NEW n \in Nodes, ProcessDelete(d, n) PROVE FALSE
    BY <1>2, <2>2 DEF ProcessDelete, At, Saves
  <2>3. CASE ExcludeUpdates(d) \/ TryConsolidate(d) \/ TakeDeleted(d) \/ ReleaseDeleted(d)
    BY <1>2, <2>3 DEF ExcludeUpdates, TryConsolidate, TakeDeleted, ReleaseDeleted, At, Saves
  <2> QED BY <1>6, <2>1, <2>2, <2>3 DEF Consolidation
<1>7. ASSUME NEW d \in Threads, Saving(d)
      PROVE  /\ d = c
             /\ \/ compact_data(d) \/ compact_frozen_point(d)
                \/ save_graph(d) \/ save_data(d) \/ save_tags(d)
                \/ reposition_frozen_point_to_end(d)
  <2>1. ASSUME NEW b \in BOOLEAN, save(d, b) PROVE FALSE
    BY <2>1 DEF save, Saves
  <2>2. CASE \/ compact_data(d) \/ compact_frozen_point(d)
             \/ save_graph(d) \/ save_data(d) \/ save_tags(d)
             \/ reposition_frozen_point_to_end(d)
    <3>1. pc[d] # "idle"
      BY <2>2 DEF compact_data, compact_frozen_point, save_graph, save_data, save_tags,
                  reposition_frozen_point_to_end, At
    <3> QED BY <1>1, <2>2, <3>1
  <2> QED BY <1>7, <2>1, <2>2 DEF Saving
<1> QED BY <1>4, <1>5, <1>6, <1>7 DEF Next, Stopped

\* Who is writing files has been in save before.
Writes == {"save_data", "save_tags", "saved"}
LEMMA QuietStep ==
  ASSUME IInv, [Next]_vars, \A d \in Threads : pc[d] \notin Saves
  PROVE  files' = files /\ \A d \in Threads : pc'[d] \notin Writes
<1> USE DEF Writes, Saves, Goto, stored
<1>1. pc \in [Threads -> Places] /\ \A d \in Threads : pc[d] \notin Writes
  BY DEF IInv, TypeOK
<1>2. ASSUME NEW c \in Threads, NEW place, place \notin Writes,
             pc' = [pc EXCEPT ![c] = place]
      PROVE  \A d \in Threads : pc'[d] \notin Writes
  BY <1>1, <1>2
<1>3. ASSUME NEW c \in Threads, Return(c) PROVE \A d \in Threads : pc'[d] \notin Writes
  BY <1>2, <1>3 DEF Return
<1>4. ASSUME UNCHANGED <<pc, files>>
      PROVE  files' = files /\ \A d \in Threads : pc'[d] \notin Writes
  BY <1>1, <1>4
<1>5. ASSUME NEW c \in Threads, Insertion(c)
      PROVE  files' = files /\ \A d \in Threads : pc'[d] \notin Writes
  <2>1. ASSUME NEW t \in Tags, insert_point(c, t)
        PROVE  files' = files /\ \A d \in Threads : pc'[d] \notin Writes
    BY <1>2, <2>1 DEF insert_point
  <2>2. ASSUME NEW n \in Nodes, LinkBack(c, n)
        PROVE  files' = files /\ \A d \in Threads : pc'[d] \notin Writes
    <3>1. pc' = pc \/ pc' = [pc EXCEPT ![c] = "prune"]
      BY <2>2 DEF LinkBack
    <3>2. files' = files
      BY <2>2 DEF LinkBack
    <3> QED BY <1>1, <1>2, <3>1, <3>2
  <2>3. CASE Reserve(c)
    <3>1. Return(c) \/ pc' = [pc EXCEPT ![c] = "write"]
      BY <2>3 DEF Reserve, Fail
    <3>2. files' = files
      BY <2>3 DEF Reserve
    <3> QED BY <1>2, <1>3, <3>1, <3>2
  <2>4. CASE ReserveFull(c) \/ ReserveDuplicate(c) \/ ReturnInsert(c)
    <3>1. Return(c)
      BY <2>4 DEF ReserveFull, ReserveDuplicate, ReturnInsert, Fail
    <3>2. files' = files
      BY <2>4 DEF ReserveFull, ReserveDuplicate, ReturnInsert
    <3> QED BY <1>3, <3>1, <3>2
  <2>5. CASE WriteVector(c) \/ FindNeighbors(c) \/ LinkPoint(c) \/ PruneBack(c)
    <3>1. \/ pc' = [pc EXCEPT ![c] = "search"] \/ pc' = [pc EXCEPT ![c] = "link"]
          \/ pc' = [pc EXCEPT ![c] = "back"]
      BY <2>5 DEF WriteVector, FindNeighbors, LinkPoint, PruneBack
    <3>2. files' = files
      BY <2>5 DEF WriteVector, FindNeighbors, LinkPoint, PruneBack
    <3> QED BY <1>2, <3>1, <3>2
  <2> QED BY <1>5, <2>1, <2>2, <2>3, <2>4, <2>5 DEF Insertion
<1>6. ASSUME NEW c \in Threads, Consolidation(c)
      PROVE  files' = files /\ \A d \in Threads : pc'[d] \notin Writes
  <2>1. ASSUME NEW n \in Nodes, ProcessDelete(c, n)
        PROVE  files' = files /\ \A d \in Threads : pc'[d] \notin Writes
    BY <1>4, <2>1 DEF ProcessDelete
  <2>2. CASE consolidate_deletes(c) \/ TryConsolidate(c)
    <3>1. \/ Return(c)
          \/ pc' = [pc EXCEPT ![c] = "try"] \/ pc' = [pc EXCEPT ![c] = "exclude"]
          \/ pc' = [pc EXCEPT ![c] = "swap"]
      BY <2>2 DEF consolidate_deletes, TryConsolidate, Fail
    <3>2. files' = files
      BY <2>2 DEF consolidate_deletes, TryConsolidate
    <3> QED BY <1>2, <1>3, <3>1, <3>2
  <2>3. CASE ExcludeUpdates(c) \/ TakeDeleted(c)
    <3>1. pc' = [pc EXCEPT ![c] = "try"] \/ pc' = [pc EXCEPT ![c] = "scan"]
      BY <2>3 DEF ExcludeUpdates, TakeDeleted
    <3>2. files' = files
      BY <2>3 DEF ExcludeUpdates, TakeDeleted
    <3> QED BY <1>2, <3>1, <3>2
  <2>4. CASE ReleaseDeleted(c)
    <3>1. Return(c)
      BY <2>4 DEF ReleaseDeleted, Fail
    <3>2. files' = files
      BY <2>4 DEF ReleaseDeleted
    <3> QED BY <1>3, <3>1, <3>2
  <2> QED BY <1>6, <2>1, <2>2, <2>3, <2>4 DEF Consolidation
<1>7. ASSUME NEW c \in Threads, Saving(c)
      PROVE  files' = files /\ \A d \in Threads : pc'[d] \notin Writes
  <2>1. ASSUME NEW b \in BOOLEAN, save(c, b)
        PROVE  files' = files /\ \A d \in Threads : pc'[d] \notin Writes
    <3>1. \/ pc' = [pc EXCEPT ![c] = "compact"] \/ pc' = [pc EXCEPT ![c] = "save"]
          \/ pc' = [pc EXCEPT ![c] = "idle"]
      BY <2>1 DEF save
    <3>2. files' = files
      BY <2>1 DEF save
    <3> QED BY <1>2, <3>1, <3>2
  <2>2. CASE \/ compact_data(c) \/ compact_frozen_point(c)
             \/ save_graph(c) \/ save_data(c) \/ save_tags(c)
             \/ reposition_frozen_point_to_end(c)
    BY <2>2 DEF compact_data, compact_frozen_point, save_graph, save_data, save_tags,
                reposition_frozen_point_to_end, At
  <2> QED BY <1>7, <2>1, <2>2 DEF Saving
<1>8. ASSUME load PROVE files' = files /\ \A d \in Threads : pc'[d] \notin Writes
  <2>1. pc' = pc \/ pc' = [c \in Threads |-> "idle"]
    BY <1>8 DEF load
  <2>2. files' = files
    BY <1>8 DEF load
  <2> QED BY <1>1, <2>1, <2>2
<1>9. ASSUME NEW c \in Threads,
             enable_delete(c) \/ \E tags \in (SUBSET Tags) \ {{}} : lazy_delete(c, tags)
      PROVE  UNCHANGED <<pc, files>>
  BY <1>9 DEF enable_delete, lazy_delete
<1>10. UNCHANGED vars => UNCHANGED <<pc, files>>
  BY DEF vars
<1> QED BY <1>4, <1>5, <1>6, <1>7, <1>8, <1>9, <1>10 DEF Next, Stopped

\* The files as they were say where the frozen point is.
StartFileInv ==
  {"start", "graph"} \subseteq DOMAIN files =>
    \A m \in 0..MaxPoints : DOMAIN files["graph"] = 0..m => files["start"] = m

\* A saving thread writes what the index holds.
LEMMA WriteWritten ==
  ASSUME IInv, EdgeInv, WrittenInv, NEW c \in Threads,
         save_graph(c) \/ save_data(c) \/ save_tags(c)
  PROVE  WrittenInv'
<1> USE DEF At, Goto
<1>1. pc[c] \in Saves /\ pc[c] \in {"save", "save_data", "save_tags"} /\ TypeOK
  BY DEF save_graph, save_data, save_tags, Saves, IInv
<1>2. /\ \A d \in Threads : d # c => pc[d] = "idle"
      /\ data_compacted /\ Live = 0..(nd - 1) /\ start = nd /\ nd \in 0..MaxPoints /\ nd \in Int
  BY <1>1, SaverFacts, WhileSaving, Sizes DEF SaveInv, TypeOK, FreezesOver
<1>3. /\ UNCHANGED <<slots, graph>> /\ Live' = Live
  BY DEF save_graph, save_data, save_tags, slots, Live
<1>4. \A d \in Threads : d # c => pc'[d] = "idle"
  BY <1>1, <1>2 DEF save_graph, save_data, save_tags, TypeOK
<1>5. nd \in 0..nd
  BY <1>2, Sizes
<1>6. \A m \in 0..MaxPoints : 0..nd = 0..m => nd = m
  <2> SUFFICES ASSUME NEW m \in 0..MaxPoints, 0..nd = 0..m PROVE nd = m
    OBVIOUS
  <2>1. m \in Nat /\ nd \in Nat /\ m \in 0..m /\ nd \in 0..m /\ m \in 0..nd
    BY <1>2, <1>5, Sizes
  <2> QED BY <2>1
<1> DEFINE G == [n \in 0..nd |-> final_graph[n]]
           D == [n \in 0..nd |-> data[n]]
           T == [n \in 0..nd |-> IF n \in Live THEN location_to_tag[n] ELSE NoTag]
<1>7. G' = G /\ D' = D /\ T' = T /\ start' = start
  BY <1>3 DEF slots, graph
<1>8. /\ DOMAIN G = 0..nd
      /\ WrittenInv <=>
           /\ \A d \in Threads :
                /\ pc[d] \in {"save_data", "save_tags", "saved"} =>
                     files["start"] = start /\ files["graph"] = G
                /\ pc[d] \in {"save_tags", "saved"} => files["data"] = D
                /\ pc[d] = "saved" => files["tags"] = T
           /\ StartFileInv
  BY DEF WrittenInv, StartFileInv
<1>9. WrittenInv' <=>
            /\ \A d \in Threads :
                 /\ pc'[d] \in {"save_data", "save_tags", "saved"} =>
                      files'["start"] = start' /\ files'["graph"] = G'
                 /\ pc'[d] \in {"save_tags", "saved"} => files'["data"] = D'
                 /\ pc'[d] = "saved" => files'["tags"] = T'
            /\ StartFileInv'
  BY DEF WrittenInv, StartFileInv
<1>10. ASSUME files'["graph"] = G, files'["start"] = start PROVE StartFileInv'
  BY <1>2, <1>6, <1>8, <1>10 DEF StartFileInv
<1>11. CASE save_graph(c)
  <2>1. /\ pc[c] = "save" /\ pc' = [pc EXCEPT ![c] = "save_data"] /\ files = << >>
        /\ files' = With(With(files, "start", start), "graph", G)
    BY <1>11 DEF save_graph, IInv, FilesInv
  <2> HIDE DEF G, D, T
  <2>2. /\ files'["start"] = start /\ files'["graph"] = G
    BY <2>1 DEF With
  <2>3. pc'[c] = "save_data"
    BY <1>1, <2>1 DEF TypeOK
  <2> QED BY <1>4, <1>7, <1>9, <1>10, <2>2, <2>3
<1>12. CASE save_data(c)
  <2>1. /\ pc[c] = "save_data" /\ pc' = [pc EXCEPT ![c] = "save_tags"]
        /\ DOMAIN files = {"start", "graph"}
        /\ files' = With(files, "data", D)
    BY <1>12 DEF save_data, IInv, FilesInv
  <2> HIDE DEF G, D, T
  <2>2. /\ files'["start"] = files["start"] /\ files'["graph"] = files["graph"]
        /\ files'["data"] = D
    BY ONLY <2>1 DEF With
  <2>3. pc'[c] = "save_tags"
    BY <1>1, <2>1 DEF TypeOK
  <2>4. files["start"] = start /\ files["graph"] = G
    BY ONLY <1>8, <2>1, WrittenInv, c \in Threads
  <2> QED BY <1>4, <1>7, <1>9, <1>10, <2>2, <2>3, <2>4
<1>13. CASE save_tags(c)
  <2>1. /\ pc[c] = "save_tags" /\ pc' = [pc EXCEPT ![c] = "saved"]
        /\ DOMAIN files = {"start", "graph", "data"}
        /\ files' = With(files, "tags", T)
    BY <1>13 DEF save_tags, IInv, FilesInv
  <2> HIDE DEF G, D, T
  <2>2. /\ files'["start"] = files["start"] /\ files'["graph"] = files["graph"]
        /\ files'["data"] = files["data"]
        /\ files'["tags"] = T
    BY ONLY <2>1 DEF With
  <2>3. pc'[c] = "saved"
    BY <1>1, <2>1 DEF TypeOK
  <2>4. /\ files["start"] = start /\ files["graph"] = G
        /\ files["data"] = D
    BY ONLY <1>8, <2>1, WrittenInv, c \in Threads
  <2> QED BY <1>4, <1>7, <1>9, <1>10, <2>2, <2>3, <2>4
<1> QED BY <1>11, <1>12, <1>13

\* Every step keeps the files and the index together.
LEMMA NextWritten ==
  ASSUME IInv, EdgeInv, WrittenInv, [Next]_vars
  PROVE  WrittenInv'
<1>1. StartFileInv
  BY DEF WrittenInv, StartFileInv
<1>2. ASSUME UNCHANGED files, \A d \in Threads : pc'[d] \notin Writes PROVE WrittenInv'
  BY <1>1, <1>2 DEF WrittenInv, StartFileInv, Writes
<1>3. CASE \A d \in Threads : pc[d] \notin Saves
  BY <1>2, <1>3, QuietStep
<1>4. ASSUME NEW c \in Threads, pc[c] \in Saves PROVE WrittenInv'
  <2>1. \A d \in Threads : d # c => pc[d] = "idle"
    BY <1>4, SaverFacts
  <2>2. CASE UNCHANGED vars
    BY <2>2 DEF vars, slots, graph, stored, WrittenInv, Live
  <2>3. CASE load
    <3>1. files' = files /\ (pc' = [d \in Threads |-> "idle"] \/ UNCHANGED <<slots, graph, pc>>)
      BY <2>3 DEF load
    <3>2. CASE pc' = [d \in Threads |-> "idle"]
      BY <1>2, <3>1, <3>2 DEF Writes
    <3>3. CASE UNCHANGED <<slots, graph, pc>>
      BY <3>1, <3>3 DEF slots, graph, WrittenInv, Live
    <3> QED BY <3>1, <3>2, <3>3
  <2>4. CASE compact_data(c)
    <3>1. files' = files /\ (pc' = [pc EXCEPT ![c] = "freeze"] \/ pc' = [pc EXCEPT ![c] = "idle"])
      BY <2>4 DEF compact_data, Goto, stored
    <3>2. \A d \in Threads : pc'[d] \notin Writes
      BY <2>1, <3>1 DEF IInv, TypeOK, Writes
    <3> QED BY <1>2, <3>1, <3>2
  <2>5. CASE compact_frozen_point(c)
    <3>1. files' = files /\ pc' = [pc EXCEPT ![c] = "save"]
      BY <2>5 DEF compact_frozen_point, Goto, stored
    <3>2. \A d \in Threads : pc'[d] \notin Writes
      BY <2>1, <3>1 DEF IInv, TypeOK, Writes
    <3> QED BY <1>2, <3>1, <3>2
  <2>6. CASE reposition_frozen_point_to_end(c)
    <3>1. files' = files /\ pc' = [pc EXCEPT ![c] = "idle"]
      BY <2>6 DEF reposition_frozen_point_to_end, Return, Goto, stored
    <3>2. \A d \in Threads : pc'[d] \notin Writes
      BY <2>1, <3>1 DEF IInv, TypeOK, Writes
    <3> QED BY <1>2, <3>1, <3>2
  <2> QED BY <1>4, <2>2, <2>3, <2>4, <2>5, <2>6, SaverMoves, WriteWritten
<1> QED BY <1>3, <1>4

\* Only a load counts a restart.
LEMMA RestartStep ==
  ASSUME restarts \in Nat, [Next]_vars
  PROVE  restarts' \in Nat /\ (load <=> restarts' # restarts)
<1> USE DEF stored
<1>1. ASSUME load PROVE restarts' \in Nat /\ restarts' # restarts
  <2>1. restarts' = restarts + 1
    BY <1>1 DEF load
  <2> QED BY <2>1
<1>2. ASSUME NEW c \in Threads, Insertion(c) PROVE restarts' = restarts
  <2>1. ASSUME NEW n \in Nodes, LinkBack(c, n) PROVE restarts' = restarts
    BY <2>1 DEF LinkBack
  <2>2. ASSUME NEW t \in Tags, insert_point(c, t) PROVE restarts' = restarts
    BY <2>2 DEF insert_point
  <2> QED BY <1>2, <2>1, <2>2 DEF Insertion, Reserve, ReserveFull, ReserveDuplicate, WriteVector,
             FindNeighbors, LinkPoint, PruneBack, ReturnInsert
<1>3. ASSUME NEW c \in Threads, Consolidation(c) PROVE restarts' = restarts
  <2>1. ASSUME NEW n \in Nodes, ProcessDelete(c, n) PROVE restarts' = restarts
    BY <2>1 DEF ProcessDelete
  <2> QED BY <1>3, <2>1 DEF Consolidation, consolidate_deletes, ExcludeUpdates, TryConsolidate,
             TakeDeleted, ReleaseDeleted
<1>4. ASSUME NEW c \in Threads, Saving(c) PROVE restarts' = restarts
  BY <1>4 DEF Saving, save, compact_data, compact_frozen_point, save_graph, save_data, save_tags,
     reposition_frozen_point_to_end
<1> QED BY <1>1, <1>2, <1>3, <1>4 DEF Next, enable_delete, lazy_delete, Stopped, vars

\* A step of the index that keeps what it holds, and what is saved of it.
SavedStep ==
  UsedAsMeant =>
    /\ (\E c \in Threads : pc[c] \in {"compact", "freeze", "saved"}) /\ restarts' = restarts
         => Contents' = Contents
    /\ (\E c \in Threads : pc[c] = "saved") /\ restarts' = restarts => FileContents = Contents
    /\ restarts' # restarts /\ failure' = "none" => Contents' = FileContents

LEMMA StepsAreSaved ==
  ASSUME IInv, EdgeInv, WrittenInv, restarts \in Nat, [Next]_vars
  PROVE  SavedStep
<1>1. ASSUME NEW c \in Threads, pc[c] \in {"compact", "freeze", "saved"}, restarts' = restarts
      PROVE  Contents' = Contents
  <2>1. pc[c] \in Saves
    BY <1>1 DEF Saves
  <2>2. ~ load
    BY <1>1, RestartStep
  <2>3. ~ (save_graph(c) \/ save_data(c) \/ save_tags(c))
    BY <1>1 DEF save_graph, save_data, save_tags, At
  <2>4. CASE UNCHANGED vars
    BY <2>4 DEF vars, slots, graph, Contents
  <2> QED BY <2>1, <2>2, <2>3, <2>4, SaverMoves, CompactContents, FreezeContents,
             RepositionContents
<1>2. ASSUME NEW c \in Threads, pc[c] = "saved" PROVE FileContents = Contents
  BY <1>2, FilesContents
<1>3. ASSUME restarts' # restarts, failure' = "none" PROVE Contents' = FileContents
  <2>1. load
    BY <1>3, RestartStep
  <2> QED BY <1>3, <2>1, LoadContents
<1> QED BY <1>1, <1>2, <1>3 DEF SavedStep

\* Without concurrent consolidation: renumbering the slots, for a compaction and
\* for the frozen point, changes nothing that a search could see; what save
\* leaves in its files is what the index holds; and a load brings it back,
\* wherever the process was stopped (compact_data, compact_frozen_point,
\* save, load and reposition_frozen_point_to_end of src/index.cpp).
THEOREM SavedIndexStaysKept ==
  ASSUME BuiltClean, ~SavesWithHoles, FewTogether
  PROVE  Spec /\ ~conc_consolidate => SavedIndexKept
<1> DEFINE WInv == UsedAsMeant => /\ IInv /\ VectorsKept /\ EdgesKept /\ WrittenInv
                                 /\ ~conc_consolidate /\ restarts \in Nat
           Kept == (UsedAsMeant => IInv) /\ (UsedAsMeant => VectorsKept)
<1>1. Init /\ ~conc_consolidate /\ Kept => WInv
  <2> SUFFICES ASSUME Init, ~conc_consolidate, Kept, UsedAsMeant PROVE WInv
    OBVIOUS
  <2>1. WrittenInv
    BY DEF Init, WrittenInv
  <2>2. restarts \in Nat
    BY DEF Init
  <2> QED BY <2>1, <2>2, InitEdges DEF EdgesKept
<1>2. WInv /\ [Next]_vars /\ Kept' => WInv'
  <2> SUFFICES ASSUME WInv, [Next]_vars, Kept', UsedAsMeant' PROVE WInv'
    OBVIOUS
  <2>1. UsedAsMeant
    BY WhileUsedAsMeant
  <2>2. conc_consolidate' = conc_consolidate
    BY NextMode
  <2>3. EdgesKept'
    BY <2>1, NextEdges
  <2>4. WrittenInv'
    BY <2>1, NextWritten DEF EdgesKept
  <2>5. restarts' \in Nat
    BY <2>1, RestartStep
  <2> QED BY <2>1, <2>2, <2>3, <2>4, <2>5
<1>3. WInv /\ [Next]_vars => SavedStep
  BY StepsAreSaved DEF EdgesKept, SavedStep
<1>4. Spec => []Kept
  BY Invariance, VectorsInvariance, PTL
<1> HIDE DEF WInv, Kept
<1>5. Spec /\ ~conc_consolidate => [][SavedStep]_vars
  BY <1>1, <1>2, <1>3, <1>4, PTL DEF Spec
<1> QED BY <1>5 DEF SavedIndexKept, SavedStep
=============================================================================
