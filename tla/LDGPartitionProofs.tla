------------------------- MODULE LDGPartitionProofs -------------------------
(***************************************************************************)
(* Proofs about LDGPartition for every index, command line and number of   *)
(* threads: no partition outgrows a page, nobody waits for ever for one    *)
(* with room, and the file saved names a partition that holds each node.   *)
(***************************************************************************)
EXTENDS LDGPartition, FiniteSetTheorems, SequenceTheorems, TLAPS

Primaries == 0..(n_primary_partition - 1)
Secondary == Nodes \ Primaries
Shared == n_primary_partition..(partition_number - 1)
Members(p) == ToSet(partition[p])
Placed(n) == id2pid[n] \in Pids /\ n \in Members(id2pid[n])

Planned == pc \notin {"load", "plan", "exit"}

\* The partitions of primary nodes are full after replication or not; the others
\* are for the other nodes.  A fill, and with it the rounds, only comes where no
\* node is primary: there are as many partitions then as the constructor made
\* mutexes.
SizeInv ==
  /\ pc \notin {"load", "exit"} /\ freq # NoFreq => Len(freq.list) = Index.nd
  /\ pc = "plan" => partition_number = CeilDiv(Index.nd, C) /\ pmutex = partition_number
  /\ pc \in {"load", "plan"} =>
       /\ vis = {} /\ lock_pids = {} /\ lock_nodes = {} /\ cur = <<0, 1>>
       /\ partition = <<>> /\ free_q = <<>>
       /\ fill = [i |-> 1, j |-> 0, pid |-> 0, lock_nums |-> job.lock_nums]
       /\ n_primary_partition = 0
  /\ Planned =>
       /\ n_primary_partition <= Index.nd /\ n_primary_partition <= partition_number
       /\ n_primary_partition * C + (Index.nd - n_primary_partition) <= partition_number * C
       /\ filled_nodes = Primaries
       /\ \A n \in Primaries : id2pid[n] = n /\ n \in Members(n)
       /\ job.scale = 1 => n_primary_partition = 0
       /\ pc \in {"fill", "round", "ldg"} =>
            n_primary_partition = 0 /\ partition_number = pmutex
       /\ n_primary_partition > 0 => freq = NoFreq
       /\ pc \in {"fill", "round", "ldg"} => n_primary_partition < Index.nd
       /\ pc = "save" => n_primary_partition = Index.nd

\* Until the fill begins the other partitions are empty.
ReplicationInv ==
  pc = "replicate" =>
    /\ \A p \in Shared : partition[p] = <<>>
    /\ \A n \in Secondary : id2pid[n] = INF
    /\ vis = {} /\ lock_pids = {} /\ lock_nodes = {}
    /\ cur[1] <= n_primary_partition /\ cur[2] >= 1
    /\ fill = [i |-> 1, j |-> 0, pid |-> n_primary_partition, lock_nums |-> job.lock_nums]

\* The fill has come to partition p: those before it are full, those behind it are
\* empty, and they hold the nodes it has visited.
FillAt(p) ==
  /\ p \in Shared
  /\ \A r \in Shared : r < p => Full(r)
  /\ \A r \in Shared : r > p => partition[r] = <<>>
  /\ Cardinality(vis) = (p - n_primary_partition) * C + Len(partition[p])

Visited ==
  /\ vis \subseteq Secondary
  /\ \A n \in vis : id2pid[n] \in Shared /\ n \in Members(id2pid[n])
  /\ \A p \in Shared : Members(p) \subseteq vis

Streamed ==
  /\ fill.i <= Len(init_stream) + 1 /\ (fill.j > 0 => fill.i <= Len(init_stream))
  /\ \A i \in 1..Len(init_stream) :
       i < fill.i \/ (i = fill.i /\ fill.j > 0) => init_stream[i] \in vis

\* The locked partitions are the first; while lock_nums lasts, all that have nodes.
LockedTo(p) ==
  /\ lock_pids \subseteq Shared
  /\ \A r \in lock_pids : r <= p
  /\ \A r \in lock_pids, s \in Shared : s < r => s \in lock_pids
  /\ fill.lock_nums > 0 =>
       \A r \in Shared : r < p \/ partition[r] # <<>> => r \in lock_pids

FillInv ==
  pc = "fill" =>
    /\ FillAt(fill.pid) /\ Visited /\ Streamed /\ LockedTo(fill.pid)
    /\ fill.j > 0 => partition[fill.pid] # <<>>

\* A node outside the primary ones is in one partition, in one place.
HomeInv ==
  pc \in {"fill", "round", "ldg", "saved"} /\ n_primary_partition < Index.nd =>
    \A p \in Shared : /\ \A n \in Members(p) : id2pid[n] = p
                      /\ IsInjective(partition[p])

\* The nodes that a round still has to place.
Moving == {"count", "score", "pop", "check", "insert"}
Held == {th[t].node : t \in {u \in Threads : th[u].pc \in Moving}}
Waiting == IF pc = "ldg" THEN (stream \ lock_nodes) \cup Held ELSE {}

\* The nodes that are not locked fit into the partitions that are not; the nodes
\* in locked partitions, which are full unless every node is locked, stay.
RoundInv ==
  pc \in {"round", "ldg"} =>
    /\ lock_pids \subseteq Shared /\ lock_nodes \subseteq Secondary
    /\ \A n \in lock_nodes : id2pid[n] \in lock_pids
    /\ \A p \in lock_pids : Members(p) \subseteq lock_nodes
    /\ \A p \in lock_pids : Full(p) \/ lock_nodes = Secondary
    /\ Cardinality(Secondary \ lock_nodes) <= Cardinality(Unlocked \X (1..C))
    /\ n_primary_partition = 0
    /\ \A n \in Nodes \ Waiting : Placed(n)
    /\ \A n \in Waiting : n \notin lock_nodes /\ \A p \in Pids : n \notin Members(p)

\* A node is moved by one thread; between the rounds none is.
ThreadInv ==
  /\ pc # "ldg" => \A t \in Threads : th[t] = Idle
  /\ pc = "ldg" => n_primary_partition = 0
  /\ \A t \in Threads :
       /\ th[t].pc = "idle" => th[t] = Idle
       /\ th[t].pc \in Moving =>
            /\ th[t].node \notin stream
            /\ \A u \in Threads : th[u].pc \in Moving /\ th[u].node = th[t].node => u = t
       /\ th[t].pc \in {"check", "insert", "push"} => th[t].pid \in Pids

SavedInv == pc \in {"save", "saved"} => \A n \in Nodes : Placed(n)

PartInv ==
  /\ TypeOK /\ WithinCapacity /\ SizeInv /\ ReplicationInv /\ FillInv /\ HomeInv
  /\ RoundInv /\ ThreadInv /\ SavedInv /\ RoomOffered /\ MutexExists
-----------------------------------------------------------------------------
\* The constants, as the proofs need them.
LEMMA Sizes ==
  /\ Index.nd \in Nat \ {0} /\ Nodes = 0..(Index.nd - 1) /\ 0 \in Nodes
  /\ IsFiniteSet(Nodes) /\ Cardinality(Nodes) = Index.nd
  /\ Idle \in [pc : Places, node : Nodes, pid : Pids \cup {INF},
               pcount : SUBSET (Pids \X Nat), best : Int]
<1>1. Index.nd \in Nat \ {0}
  BY PartitionAssumption
<1>2. IsFiniteSet(Nodes) /\ Cardinality(Nodes) = Index.nd
  <2> DEFINE m == Index.nd - 1
  <2>1. m \in Int /\ 0 \in Int /\ 0 <= m /\ m - 0 + 1 = Index.nd
    BY <1>1
  <2>2. Nodes = 0..m
    BY DEF Nodes
  <2> HIDE DEF m
  <2> QED BY <2>1, <2>2, FS_Interval
<1>3. 0 \in Nodes
  BY <1>1 DEF Nodes
<1> QED BY <1>1, <1>2, <1>3 DEF Nodes, Idle, Places

\* A thread without a node.
LEMMA IdleFacts ==
  /\ Idle.pc \notin Moving \cup {"check", "insert", "push", "no_mutex"}
  /\ Idle.pc = "idle" /\ Idle.pid = INF /\ Idle.pcount = {}
BY DEF Idle, Moving

\* Division rounds down.
LEMMA Division ==
  ASSUME NEW a \in Nat, NEW b \in Nat \ {0}
  PROVE  /\ a \div b \in Nat /\ (a \div b) * b <= a /\ a < (a \div b) * b + b
OBVIOUS

\* Products are ordered as their factors.
LEMMA ProductOrder ==
  ASSUME NEW a \in Int, NEW b \in Int, NEW c \in Nat \ {0}
  PROVE  /\ a * c \in Int /\ b * c \in Int
         /\ (a + 1) * c = a * c + c
         /\ (a - b) * c = a * c - b * c
         /\ a * c < b * c => a < b
         /\ a <= b => a * c <= b * c
OBVIOUS

LEMMA RoundedUp ==
  ASSUME NEW x \in Nat \ {0}, NEW c \in Nat \ {0}
  PROVE  /\ CeilDiv(x, c) \in Nat \ {0}
         /\ x <= CeilDiv(x, c) * c /\ CeilDiv(x, c) * c < x + c
<1> DEFINE d == (x + c - 1) \div c
<1>1. x + c - 1 \in Nat
  OBVIOUS
<1>2. d \in Nat /\ d * c <= x + c - 1 /\ x + c - 1 < d * c + c
  BY <1>1, Division
<1>3. d # 0
  BY <1>2
<1> QED BY <1>2, <1>3 DEF CeilDiv

\* A page holds a node, and as many as the scale asks for.
LEMMA Capacities ==
  ASSUME TypeOK
  PROVE  /\ C \in Nat \ {0} /\ job.scale \in Nat /\ job.scale <= C
         /\ job.ldg_times \in Nat /\ job.lock_nums \in Nat
         /\ freq # NoFreq => /\ freq.list \in Seq(Nat)
                             /\ ToSet(freq.list) = 0..(Len(freq.list) - 1)
<1>1. job \in Jobs /\ freq \in FreqFiles
  BY DEF TypeOK
<1>2. /\ DimLen \in Nat \ {0} /\ MaxNodeLen \in Nat \ {0} /\ IdLen \in Nat \ {0}
      /\ OutLen \in Nat \ {0} /\ DimLen < MaxNodeLen /\ MaxNodeLen + IdLen <= OutLen
  BY PartitionAssumption
<1>3. job.mode \in {"all", "graph_only", "emb_only", "graph_replica"}
  BY <1>1, PartitionAssumption
<1>4. NodeLen(job) \in Nat \ {0} /\ NodeLen(job) <= OutLen
      /\ (job.mode = "graph_replica" => NodeLen(job) <= OutLen - DimLen)
  BY <1>2, <1>3 DEF NodeLen
<1>5. \A a, b \in Nat \ {0} : b <= a => a \div b \in Nat \ {0}
  <2> SUFFICES ASSUME NEW a \in Nat \ {0}, NEW b \in Nat \ {0}, b <= a
               PROVE  a \div b \in Nat \ {0}
    OBVIOUS
  <2>1. a \div b \in Nat /\ a < (a \div b) * b + b
    BY Division
  <2> QED BY <2>1
<1>6. C \in Nat \ {0}
  <2>1. CASE job.mode = "graph_replica"
    <3>1. OutLen - DimLen \in Nat \ {0}
      BY <1>2
    <3> QED BY <2>1, <3>1, <1>4, <1>5 DEF C, Capacity
  <2>2. CASE job.mode # "graph_replica"
    BY <2>2, <1>2, <1>4, <1>5 DEF C, Capacity
  <2> QED BY <2>1, <2>2
<1> QED BY <1>1, <1>6, PartitionAssumption DEF C

\* A scale that a page holds leaves room for every node: the primary nodes get a
\* partition each, and the others have as many places as they need.
Needed(nd, scale, c) == CeilDiv(nd * scale, c)
Owners(nd, pn, c) == (c * pn - nd) \div (c - 1)

LEMMA PlanSizes ==
  ASSUME NEW nd \in Nat \ {0}, NEW c \in Nat \ {0}, NEW scale \in 2..c
  PROVE  LET pn == Needed(nd, scale, c)
             q == Owners(nd, pn, c)
         IN  /\ pn \in Nat \ {0} /\ q \in 0..nd /\ q <= pn
             /\ q * c + (nd - q) <= pn * c
<1> DEFINE pn == Needed(nd, scale, c)
           q == Owners(nd, pn, c)
           d == c - 1
           rest == c * pn - nd
<1>0. pn = CeilDiv(nd * scale, c) /\ q = (c * pn - nd) \div (c - 1)
  BY DEF Needed, Owners
<1> HIDE DEF pn, q
<1> SUFFICES /\ pn \in Nat \ {0} /\ q \in 0..nd /\ q <= pn
             /\ q * c + (nd - q) <= pn * c
  BY DEF pn, q
<1>1. c \in Nat \ {0} /\ scale \in Nat \ {0} /\ d \in Nat \ {0} /\ scale - 1 <= d
  OBVIOUS
<1>2. /\ nd * scale \in Nat \ {0} /\ nd * scale = nd * (scale - 1) + nd
  BY <1>1
<1>3. /\ pn \in Nat \ {0} /\ nd * scale <= pn * c /\ pn * c < nd * scale + c
  BY <1>0, <1>1, <1>2, RoundedUp
<1>4. pn * c = c * pn /\ nd * (scale - 1) \in Nat
  BY <1>1, <1>3
<1>5. rest \in Nat /\ rest < nd * (scale - 1) + c
  BY <1>2, <1>3, <1>4
<1>6. q = rest \div d
  BY <1>0
<1> HIDE DEF d
<1>7. q \in Nat /\ q * d <= rest /\ rest < q * d + d
  BY <1>1, <1>5, <1>6, Division
<1>8. q * c = q * d + q
  BY <1>7 DEF d
<1>9. q * c + (nd - q) <= pn * c
  <2>1. rest = pn * c - nd /\ rest \in Nat /\ pn * c \in Int
    BY <1>3, <1>4, <1>5
  <2> HIDE DEF rest
  <2>2. q * d \in Int
    BY <1>1, <1>7
  <2> QED BY <1>7, <1>8, <2>1, <2>2
<1>10. CASE scale = c
  <2>1. nd * scale = nd * c /\ (nd + 1) * c = nd * c + c /\ nd * c \in Int
    BY <1>10, <1>1, ProductOrder
  <2>2. pn * c < (nd + 1) * c
    BY <2>1, <1>3
  <2>3. pn < nd + 1
    BY <2>2, <1>3, ProductOrder
  <2>4. nd * c < (pn + 1) * c
    BY <2>1, <1>3, ProductOrder
  <2>5. nd < pn + 1
    BY <2>4, <1>3, ProductOrder
  <2>6. pn = nd
    BY <2>3, <2>5, <1>3
  <2>7. rest = nd * d
    BY <2>6, <1>4 DEF d
  <2>8. q * d < (nd + 1) * d /\ nd * d < (q + 1) * d
    BY <2>7, <1>1, <1>7, ProductOrder
  <2>9. q < nd + 1 /\ nd < q + 1
    BY <2>8, <1>1, <1>7, ProductOrder
  <2> QED BY <2>6, <2>9, <1>3, <1>7, <1>9
<1>11. CASE scale # c
  <2>1. scale - 1 <= d - 1
    BY <1>11, <1>1 DEF d
  <2>2. nd * (scale - 1) <= nd * (d - 1)
    <3>1. (scale - 1) * nd <= (d - 1) * nd
      BY <2>1, <1>1, ProductOrder
    <3> QED BY <3>1, <1>1
  <2>3. nd * (d - 1) = nd * d - nd
    BY <1>1
  <2>4. q * d < (nd + 1) * d
    <3>1. (nd + 1) * d = nd * d + d /\ nd * d \in Int /\ q * d \in Int
      BY <1>1, <1>7, ProductOrder
    <3>2. c = d + 1
      BY DEF d
    <3>3. rest < nd * d - nd + d + 1
      <4> HIDE DEF rest
      <4> QED BY <3>1, <3>2, <2>2, <2>3, <1>1, <1>4, <1>5
    <3> HIDE DEF rest
    <3> QED BY <3>1, <3>3, <1>1, <1>5, <1>7
  <2>5. q <= nd
    BY <2>4, <1>1, <1>7, ProductOrder
  <2>6. q * c < (pn + 1) * c
    BY <2>5, <1>3, <1>7, <1>9, ProductOrder
  <2>7. q <= pn
    BY <2>6, <1>3, <1>7, ProductOrder
  <2> QED BY <2>5, <2>7, <1>3, <1>7, <1>9
<1> QED BY <1>10, <1>11

\* At the start nothing is placed and nobody runs.
LEMMA InitPart == Init => PartInv
<1> SUFFICES ASSUME Init PROVE PartInv
  OBVIOUS
<1>1. job \in Jobs /\ freq \in FreqFiles /\ job.lock_nums \in Nat /\ job.ldg_times \in Nat
  BY PartitionAssumption DEF Init
<1>2. Pids = {}
  BY DEF Init, Pids
<1>3. TypeOK
  BY <1>1, Sizes DEF Init, TypeOK
<1>4. ThreadInv
  BY DEF Init, ThreadInv, Idle, Moving
<1>5. SizeInv
  BY <1>1 DEF Init, SizeInv, Planned
<1>6. MutexExists
  BY DEF Init, MutexExists, Idle
<1> QED BY <1>3, <1>4, <1>5, <1>6
        DEF PartInv, Init, WithinCapacity, ReplicationInv, FillInv, HomeInv, RoundInv,
            SavedInv, RoomOffered

\* A list ordered by a frequency file is a list of nodes.
LEMMA Relaid ==
  ASSUME freq \in FreqFiles, Len(freq.list) = Index.nd,
         NEW n \in Nodes, NEW g \in relayout_adj(n)
  PROVE  g \in Seq(Nodes)
<1>1. PICK p \in ByFrequency(n), s \in InOrder(Others(n)) :
        g = [i \in DOMAIN p |-> Counted(n)[p[i]][1]] \o [i \in DOMAIN s |-> SlotOf(n)[s[i]]]
  <2>1. PICK c \in ByFrequency(n) \X InOrder(Others(n)) :
          g = [i \in DOMAIN c[1] |-> Counted(n)[c[1][i]][1]]
                \o [i \in DOMAIN c[2] |-> SlotOf(n)[c[2][i]]]
    BY Zenon DEF relayout_adj
  <2> QED BY <2>1
<1>2. Counted(n) \in Seq(Nodes \X Nat)
  <2>1. freq.nei \in Seq(Seq(Nodes \X Nat)) /\ Len(freq.nei) = Index.nd
    BY PartitionAssumption
  <2>2. n + 1 \in 1..Len(freq.nei)
    BY <2>1, Sizes
  <2> QED BY <2>1, <2>2, ElementOfSeq DEF Counted
<1>3. SlotOf(n) \in Seq(Nodes)
  BY PartitionAssumption
<1>4. [i \in DOMAIN p |-> Counted(n)[p[i]][1]] \in Seq(Nodes)
  <2>1. p \in [DOMAIN Counted(n) -> DOMAIN Counted(n)] /\ DOMAIN Counted(n) = 1..Len(Counted(n))
    BY <1>2, LenProperties DEF ByFrequency
  <2>2. ASSUME NEW i \in 1..Len(Counted(n))
        PROVE  Counted(n)[p[i]][1] \in Nodes
    <3>1. p[i] \in 1..Len(Counted(n))
      BY <2>1
    <3>2. Counted(n)[p[i]] \in Nodes \X Nat
      BY <3>1, <1>2, ElementOfSeq
    <3> QED BY <3>2
  <2>3. Len(Counted(n)) \in Nat /\ DOMAIN p = 1..Len(Counted(n))
    BY <2>1, <1>2, LenProperties
  <2> QED BY <2>2, <2>3, IsASeq
<1>5. [i \in DOMAIN s |-> SlotOf(n)[s[i]]] \in Seq(Nodes)
  <2>1. DOMAIN SlotOf(n) = 1..Len(SlotOf(n)) /\ Len(SlotOf(n)) \in Nat
    BY <1>3, LenProperties
  <2>2. Others(n) \subseteq 1..Len(SlotOf(n))
    BY <2>1 DEF Others
  <2>3. IsFiniteSet(Others(n))
    <3> DEFINE m == Len(SlotOf(n))
    <3>1. m \in Int /\ 1 \in Int
      BY <2>1
    <3> HIDE DEF m
    <3>2. IsFiniteSet(1..m)
      BY <3>1, FS_Interval
    <3> QED BY <3>2, <2>2, FS_Subset DEF m
  <2>4. Cardinality(Others(n)) \in Nat
    BY <2>3, FS_CardinalityType
  <2>5. s \in [1..Cardinality(Others(n)) -> Others(n)]
    BY DEF InOrder
  <2>6. ASSUME NEW i \in 1..Cardinality(Others(n))
        PROVE  SlotOf(n)[s[i]] \in Nodes
    <3>1. s[i] \in 1..Len(SlotOf(n))
      BY <2>2, <2>5
    <3> QED BY <3>1, <1>3, ElementOfSeq
  <2> QED BY <2>4, <2>5, <2>6, IsASeq
<1> QED BY <1>1, <1>4, <1>5, ConcatProperties

LEMMA LoadPart ==
  ASSUME PartInv, Load
  PROVE  PartInv'
<1>1. /\ TypeOK /\ SizeInv /\ ThreadInv /\ MutexExists /\ pc = "load"
  BY DEF PartInv, Load
<1>2. C \in Nat \ {0} /\ C' = C /\ Index.nd \in Nat \ {0}
  BY <1>1, Capacities, Sizes DEF Load, input, C
<1>3. partition_number' \in Nat
  BY <1>2, RoundedUp DEF Load
<1>4. full_graph' \in [Nodes -> Seq(Nodes)]
  <2>1. load_disk_index \in [Nodes -> Seq(Nodes)]
    BY PartitionAssumption DEF load_disk_index
  <2>2. CASE full_graph' = load_disk_index
    BY <2>1, <2>2
  <2>3. CASE full_graph' # load_disk_index
    <3>1. /\ Len(freq.list) = Index.nd /\ freq \in FreqFiles
          /\ \A n \in Nodes : full_graph'[n] \in relayout_adj(n)
          /\ full_graph' = [n \in Nodes |-> full_graph'[n]]
      BY <2>3, <1>1 DEF Load, TypeOK
    <3>2. \A n \in Nodes : full_graph'[n] \in Seq(Nodes)
      BY <3>1, Relaid
    <3> QED BY <3>1, <3>2
  <2> QED BY <2>2, <2>3
<1>5. \A t \in Threads : th'[t] = Idle
  BY <1>1 DEF Load, ThreadInv
<1>6. TypeOK'
  <2>1. th' \in [Threads -> [pc : Places, node : Nodes, pid : Pids' \cup {INF},
                             pcount : SUBSET (Pids' \X Nat), best : Int]]
    <3>1. th' = [t \in Threads |-> th'[t]]
      BY <1>1 DEF Load, TypeOK
    <3>2. Idle \in [pc : Places, node : Nodes, pid : Pids' \cup {INF},
                    pcount : SUBSET (Pids' \X Nat), best : Int]
      BY Sizes DEF Idle, Places
    <3> QED BY <3>1, <3>2, <1>5
  <2>2. lock_pids' = {} /\ free_q' = <<>>
    BY <1>1 DEF Load, SizeInv, locks, queues
  <2> QED BY <1>1, <1>3, <1>4, <2>1, <2>2
          DEF TypeOK, Load, input, replication, filling, locks, queues
<1>7. SizeInv'
  BY <1>1, <1>2 DEF SizeInv, Load, Planned, input, layout, replication, filling, locks, queues
<1>8. ThreadInv' /\ MutexExists'
  BY <1>1, <1>5, IdleFacts DEF ThreadInv, Load, MutexExists
<1>9. WithinCapacity'
  BY <1>1 DEF SizeInv, Load, WithinCapacity, layout
<1> QED BY <1>6, <1>7, <1>8, <1>9
        DEF PartInv, Load, ReplicationInv, FillInv, HomeInv, RoundInv, SavedInv, RoomOffered

\* The empty partition, and one with a node.
LEMMA SmallPartitions ==
  /\ <<>> \in Seq(Nodes) /\ Len(<<>>) = 0 /\ ToSet(<<>>) = {} /\ IsInjective(<<>>)
  /\ \A n \in Nodes : <<n>> \in Seq(Nodes) /\ Len(<<n>>) = 1 /\ ToSet(<<n>>) = {n}
<1>1. DOMAIN <<>> = {}
  OBVIOUS
<1>2. ToSet(<<>>) = {} /\ IsInjective(<<>>)
  BY <1>1 DEF ToSet, IsInjective
<1>3. ASSUME NEW n \in Nodes
      PROVE  <<n>> \in Seq(Nodes) /\ Len(<<n>>) = 1 /\ ToSet(<<n>>) = {n}
  BY DEF ToSet
<1> QED BY <1>2, <1>3

\* Where the fill begins: the partitions behind the primary ones are empty.
LEMMA FillBegins ==
  ASSUME C' \in Nat \ {0}, n_primary_partition' \in Nat, partition_number' \in Nat,
         n_primary_partition' < Index.nd,
         n_primary_partition' * C' + (Index.nd - n_primary_partition') <= partition_number' * C',
         vis' = {}, lock_pids' = {},
         \A p \in Shared' : partition'[p] = <<>>,
         fill' = [i |-> 1, j |-> 0, pid |-> n_primary_partition', lock_nums |-> job'.lock_nums],
         freq' # NoFreq => freq'.list \in Seq(Nat)
  PROVE  /\ FillInv' /\ HomeInv' /\ fill'.pid \in Shared'
<1> DEFINE q == n_primary_partition'
<1>1. q < partition_number'
  <2>1. q * C' < partition_number' * C'
    <3>1. q * C' \in Int /\ partition_number' * C' \in Int
      BY ProductOrder
    <3>2. q < Index.nd /\ q * C' + (Index.nd - q) <= partition_number' * C'
      OBVIOUS
    <3>3. q \in Int /\ Index.nd \in Int
      BY Sizes
    <3> QED BY ONLY <3>1, <3>2, <3>3
  <2> QED BY <2>1, ProductOrder
<1>2. fill'.pid = q /\ q \in Shared' /\ fill'.i = 1 /\ fill'.j = 0
  BY <1>1 DEF Shared
<1>3. Cardinality(vis') = 0 /\ (fill'.pid - q) * C' = 0 /\ Len(partition'[fill'.pid]) = 0
  <2>1. Cardinality(vis') = 0 /\ Len(partition'[fill'.pid]) = 0
    BY <1>2, FS_EmptySet, SmallPartitions
  <2>2. fill'.pid - q = 0
    BY <1>2
  <2> QED BY <2>1, <2>2
<1>4. Len(init_stream') \in Nat
  <2>1. CASE freq' # NoFreq
    BY <2>1, LenProperties DEF init_stream
  <2>2. CASE freq' = NoFreq
    <3> DEFINE m == Index.nd - q
               s == [i \in 1..m |-> q + i - 1]
    <3>1. m \in Nat /\ init_stream' = s
      BY <2>2, Sizes DEF init_stream
    <3> HIDE DEF m
    <3>2. s \in Seq(Int)
      BY <3>1, IsASeq
    <3> QED BY <3>1, <3>2, LenProperties
  <2> QED BY <2>1, <2>2
<1>5. FillInv'
  <2>1. \A p \in Shared' : Members(p)' = {}
    BY SmallPartitions DEF Members
  <2>2. \A p \in Shared' : ~(p < fill'.pid)
    BY <1>2 DEF Shared
  <2>3. \A i \in 1..Len(init_stream') : ~(i < fill'.i) /\ ~(i = fill'.i /\ fill'.j > 0)
    BY <1>2
  <2>4. fill'.i <= Len(init_stream') + 1 /\ ~(fill'.j > 0)
    BY <1>2, <1>4
  <2>5. FillAt(fill.pid)'
    <3>1. Cardinality(vis') = (fill'.pid - n_primary_partition') * C' + Len(partition'[fill'.pid])
      BY <1>3
    <3>2. \A p \in Shared' : /\ p < fill'.pid => Full(p)'
                             /\ p > fill'.pid => partition'[p] = <<>>
      BY <2>2
    <3> QED BY ONLY <3>1, <3>2, <1>2 DEF FillAt
  <2>6. Visited' /\ Streamed'
    BY <2>1, <2>3, <2>4 DEF Visited, Streamed
  <2>7. LockedTo(fill.pid)'
    BY <2>2 DEF LockedTo
  <2> QED BY <2>4, <2>5, <2>6, <2>7 DEF FillInv
<1>6. HomeInv'
  BY SmallPartitions DEF HomeInv, Members
<1> QED BY <1>2, <1>5, <1>6

LEMMA PlanPart ==
  ASSUME PartInv, Plan
  PROVE  PartInv'
<1> DEFINE scale == IF job.scale = 0 THEN C ELSE job.scale
           pn == partition_number'
           q == n_primary_partition'
<1>1. /\ TypeOK /\ SizeInv /\ ThreadInv /\ MutexExists /\ pc = "plan"
  BY DEF PartInv, Plan
<1>2. /\ C \in Nat \ {0} /\ C' = C /\ Index.nd \in Nat \ {0}
      /\ job.scale \in Nat /\ job.scale <= C
      /\ freq # NoFreq => freq.list \in Seq(Nat)
  BY <1>1, Capacities, Sizes DEF Plan, input, C
<1>3. scale \in 1..C
  BY <1>2
<1>4. /\ pn = IF scale = 1 THEN CeilDiv(Index.nd, C) ELSE CeilDiv(Index.nd * scale, C)
      /\ q = IF scale = 1 THEN 0 ELSE (C * pn - Index.nd) \div (C - 1)
  BY <1>1 DEF Plan, SizeInv
<1> HIDE DEF scale, pn, q
<1>5. /\ pn \in Nat \ {0} /\ q \in 0..Index.nd /\ q <= pn
      /\ q * C + (Index.nd - q) <= pn * C
      /\ scale = 1 => q = 0
      /\ scale = 1 => pn = partition_number
  <2>1. CASE scale = 1
    <3>1. pn \in Nat \ {0} /\ Index.nd <= pn * C /\ q = 0 /\ pn = partition_number
      BY <2>1, <1>1, <1>2, <1>4, RoundedUp DEF SizeInv
    <3>2. q * C = 0
      BY <3>1, <1>2
    <3> QED BY <3>1, <3>2, <1>2, <2>1
  <2>2. CASE scale # 1
    <3>1. scale \in 2..C
      BY <2>2, <1>2, <1>3
    <3>2. /\ pn = Needed(Index.nd, scale, C)
          /\ q = Owners(Index.nd, pn, C)
      BY <2>2, <1>4 DEF Needed, Owners
    <3>3. /\ pn \in Nat \ {0} /\ q \in 0..Index.nd /\ q <= pn
          /\ q * C + (Index.nd - q) <= pn * C
      <4>1. Index.nd \in Nat \ {0} /\ C \in Nat \ {0}
        BY <1>2
      <4> QED BY ONLY <3>1, <3>2, <4>1, PlanSizes
    <3> QED BY <3>3, <2>2, <1>1 DEF SizeInv
  <2> QED BY <2>1, <2>2
<1>7. job.scale = 1 => q = 0
  BY <1>5 DEF scale
<1>8. /\ partition' = [p \in 0..(pn - 1) |-> IF p < q THEN <<p>> ELSE <<>>]
      /\ id2pid' = [n \in Nodes |-> IF n < q THEN n ELSE INF]
      /\ store_cnt' = [n \in Nodes |-> IF n < q THEN 1 ELSE 0]
      /\ filled_nodes' = 0..(q - 1)
      /\ pc' = IF scale = 1 THEN "fill" ELSE IF freq # NoFreq THEN "exit" ELSE "replicate"
      /\ job' = job /\ freq' = freq /\ full_graph' = full_graph /\ pmutex' = pmutex
      /\ cur' = cur /\ vis' = vis /\ lock_pids' = lock_pids /\ lock_nodes' = lock_nodes
      /\ round' = round /\ stream' = stream /\ free_q' = free_q /\ th' = th
      /\ fill' = [i |-> 1, j |-> 0, pid |-> q, lock_nums |-> job.lock_nums]
  BY <1>1 DEF q, pn, scale, Plan, SizeInv, input, locks, queues
<1>9. /\ vis = {} /\ lock_pids = {} /\ lock_nodes = {} /\ cur = <<0, 1>> /\ free_q = <<>>
      /\ pmutex = partition_number /\ pmutex \in Nat
      /\ \A t \in Threads : th[t] = Idle
  BY <1>1 DEF SizeInv, ThreadInv, TypeOK
<1>10. /\ n_primary_partition' = q /\ partition_number' = pn /\ Pids' = 0..(pn - 1)
       /\ Shared' = q..(pn - 1) /\ Primaries' = 0..(q - 1)
  BY DEF q, pn, Pids, Shared, Primaries
<1>11. /\ \A p \in Shared' : partition'[p] = <<>>
       /\ \A p \in Primaries' : partition'[p] = <<p>> /\ p \in Pids' /\ p \in Nodes
  BY <1>5, <1>8, <1>10, Sizes
<1>12. TypeOK'
  <2>1. partition' \in [Pids' -> Seq(Nodes)]
    <3>1. \A p \in Pids' : partition'[p] \in Seq(Nodes)
      <4>1. \A p \in Pids' : p \in Shared' \/ p \in Primaries'
        BY <1>5, <1>10
      <4> QED BY <4>1, <1>11, SmallPartitions
    <3> QED BY <3>1, <1>8, <1>10
  <2>2. id2pid' \in [Nodes -> Pids' \cup {INF}]
    BY <1>5, <1>8, <1>10, Sizes
  <2>3. th' \in [Threads -> [pc : Places, node : Nodes, pid : Pids' \cup {INF},
                             pcount : SUBSET (Pids' \X Nat), best : Int]]
    <3>1. th' = [t \in Threads |-> Idle]
      BY <1>1, <1>8, <1>9 DEF TypeOK
    <3>2. Idle \in [pc : Places, node : Nodes, pid : Pids' \cup {INF},
                    pcount : SUBSET (Pids' \X Nat), best : Int]
      BY Sizes DEF Idle, Places
    <3> QED BY <3>1, <3>2
  <2>4. /\ fill' \in [i : Nat \ {0}, j : Nat, pid : Nat, lock_nums : Int]
        /\ cur' \in Nat \X Nat /\ store_cnt' \in [Nodes -> Nat]
        /\ filled_nodes' \subseteq Nodes
    <3>1. job.lock_nums \in Nat /\ q \in Nat
      BY <1>1, <1>5, Capacities
    <3>2. fill' \in [i : Nat \ {0}, j : Nat, pid : Nat, lock_nums : Int]
      BY <3>1, <1>8
    <3>3. filled_nodes' \subseteq Nodes
      BY <1>5, <1>8, Sizes
    <3> QED BY <3>2, <3>3, <1>8, <1>9
  <2>5. /\ job' \in Jobs /\ freq' \in FreqFiles
        /\ pc' \in {"fill", "exit", "replicate"}
        /\ {pmutex', partition_number', n_primary_partition'} \subseteq Nat
        /\ full_graph' \in [Nodes -> Seq(Nodes)]
        /\ vis' \subseteq Nodes /\ lock_pids' \subseteq Pids' /\ lock_nodes' \subseteq Nodes
        /\ round' \in 0..job'.ldg_times /\ stream' \subseteq Nodes /\ free_q' \in Seq(Pids')
    <3>1. free_q' \in Seq(Pids')
      BY <1>8, <1>9
    <3>2. {pmutex', partition_number', n_primary_partition'} \subseteq Nat
      BY <1>5, <1>8, <1>9, <1>10
    <3> QED BY <3>1, <3>2, <1>1, <1>8, <1>9 DEF TypeOK
  <2> QED BY <2>1, <2>2, <2>3, <2>4, <2>5 DEF TypeOK
<1>13. WithinCapacity'
  <2>1. \A p \in Pids' : Len(partition'[p]) <= 1
    <3> SUFFICES ASSUME NEW p \in Pids' PROVE Len(partition'[p]) <= 1
      OBVIOUS
    <3>1. CASE p \in Primaries'
      <4>1. partition'[p] = <<p>> /\ Len(<<p>>) = 1
        BY <3>1, <1>11, SmallPartitions
      <4> QED BY <4>1
    <3>2. CASE p \in Shared'
      <4>1. partition'[p] = <<>>
        BY <3>2, <1>11
      <4> QED BY <4>1
    <3>3. p \in Shared' \/ p \in Primaries'
      BY <1>5, <1>10
    <3> QED BY <3>1, <3>2, <3>3
  <2> QED BY <2>1, <1>2, <1>12 DEF WithinCapacity
<1>14. SizeInv'
  <2>1. \A n \in Primaries' : id2pid'[n] = n /\ n \in Members(n)'
    BY <1>5, <1>8, <1>10, <1>11, SmallPartitions DEF Members
  <2>2. filled_nodes' = Primaries'
    BY <1>8, <1>10
  <2>3. pc' \in {"fill", "exit", "replicate"} /\ (pc' # "exit" => (q > 0 => freq' = NoFreq))
    BY <1>5, <1>8
  <2>4. pc' = "fill" => /\ n_primary_partition' < Index.nd
                        /\ n_primary_partition' = 0 /\ partition_number' = pmutex'
    BY <1>2, <1>5, <1>8, <1>9, <1>10
  <2>5. /\ n_primary_partition' <= Index.nd /\ n_primary_partition' <= partition_number'
        /\ n_primary_partition' * C' + (Index.nd - n_primary_partition') <= partition_number' * C'
        /\ job'.scale = 1 => n_primary_partition' = 0
    BY <1>2, <1>5, <1>7, <1>8, <1>10
  <2>6. freq' # NoFreq => Len(freq'.list) = Index.nd
    BY <1>1, <1>8 DEF SizeInv
  <2> QED BY <2>1, <2>2, <2>3, <2>4, <2>5, <2>6, <1>10 DEF SizeInv, Planned
<1>15. ReplicationInv'
  <2>1. \A n \in Secondary' : id2pid'[n] = INF
    BY <1>5, <1>8, <1>10, Sizes DEF Secondary
  <2> QED BY <2>1, <1>5, <1>8, <1>9, <1>10, <1>11 DEF ReplicationInv
<1>16. FillInv' /\ HomeInv' /\ (pc' = "fill" => fill'.pid \in Shared')
  <2>1. CASE pc' = "fill"
    <3>1. q < Index.nd /\ q \in Nat
      BY <2>1, <1>2, <1>5, <1>8
    <3>2. /\ C' \in Nat \ {0} /\ n_primary_partition' \in Nat /\ partition_number' \in Nat
          /\ n_primary_partition' < Index.nd
          /\ n_primary_partition' * C' + (Index.nd - n_primary_partition') <= partition_number' * C'
          /\ vis' = {} /\ lock_pids' = {}
          /\ fill' = [i |-> 1, j |-> 0, pid |-> n_primary_partition', lock_nums |-> job'.lock_nums]
          /\ freq' # NoFreq => freq'.list \in Seq(Nat)
      BY <3>1, <1>2, <1>5, <1>8, <1>9, <1>10
    <3> QED BY <3>2, <1>11, FillBegins
  <2>2. CASE pc' # "fill"
    BY <2>2, <1>8 DEF FillInv, HomeInv
  <2> QED BY <2>1, <2>2
<1>17. RoundInv' /\ SavedInv' /\ RoomOffered'
  BY <1>8 DEF RoundInv, SavedInv, RoomOffered
<1>18. ThreadInv' /\ MutexExists'
  BY <1>8, <1>9, IdleFacts DEF ThreadInv, MutexExists
<1> QED BY <1>12, <1>13, <1>14, <1>15, <1>16, <1>17, <1>18 DEF PartInv

\* A longer partition holds what it held.
LEMMA Appended ==
  ASSUME NEW s \in Seq(Nodes), NEW n \in Nodes
  PROVE  /\ Append(s, n) \in Seq(Nodes) /\ Len(Append(s, n)) = Len(s) + 1
         /\ ToSet(Append(s, n)) = ToSet(s) \cup {n}
         /\ IsInjective(s) /\ n \notin ToSet(s) => IsInjective(Append(s, n))
<1> DEFINE r == Append(s, n)
<1>1. /\ r \in Seq(Nodes) /\ Len(r) = Len(s) + 1 /\ Len(s) \in Nat
      /\ DOMAIN s = 1..Len(s) /\ DOMAIN r = 1..(Len(s) + 1)
      /\ \A i \in 1..Len(s) : r[i] = s[i]
      /\ r[Len(s) + 1] = n
  BY AppendProperties
<1> HIDE DEF r
<1>2. ToSet(r) = ToSet(s) \cup {n}
  <2>1. ASSUME NEW x \in ToSet(r) PROVE x \in ToSet(s) \cup {n}
    <3>1. PICK i \in 1..(Len(s) + 1) : r[i] = x
      BY <1>1 DEF ToSet
    <3>2. CASE i = Len(s) + 1
      BY <3>1, <3>2, <1>1
    <3>3. CASE i # Len(s) + 1
      <4>1. i \in 1..Len(s)
        BY <3>3, <1>1
      <4> QED BY <3>1, <4>1, <1>1 DEF ToSet
    <3> QED BY <3>2, <3>3
  <2>2. ASSUME NEW x \in ToSet(s) PROVE x \in ToSet(r)
    <3>1. PICK i \in 1..Len(s) : s[i] = x
      BY <1>1 DEF ToSet
    <3>2. i \in 1..(Len(s) + 1) /\ r[i] = x
      BY <3>1, <1>1
    <3> QED BY <3>2, <1>1 DEF ToSet
  <2>3. n \in ToSet(r)
    <3>1. Len(s) + 1 \in 1..(Len(s) + 1)
      BY <1>1
    <3> QED BY <3>1, <1>1 DEF ToSet
  <2> QED BY <2>1, <2>2, <2>3
<1>3. ASSUME IsInjective(s), n \notin ToSet(s) PROVE IsInjective(r)
  <2> SUFFICES ASSUME NEW i \in 1..(Len(s) + 1), NEW j \in 1..(Len(s) + 1), r[i] = r[j]
               PROVE  i = j
    BY <1>1 DEF IsInjective
  <2>1. \A x \in 1..Len(s) : s[x] # n
    BY <1>3, <1>1 DEF ToSet
  <2>2. CASE i \in 1..Len(s) /\ j \in 1..Len(s)
    BY <2>2, <1>1, <1>3 DEF IsInjective
  <2>3. CASE i \notin 1..Len(s) \/ j \notin 1..Len(s)
    <3>1. i = Len(s) + 1 \/ j = Len(s) + 1
      BY <2>3, <1>1
    <3>2. CASE i = Len(s) + 1 /\ j # Len(s) + 1
      <4>1. j \in 1..Len(s)
        BY <3>2, <1>1
      <4> QED BY <3>2, <4>1, <2>1, <1>1
    <3>3. CASE j = Len(s) + 1 /\ i # Len(s) + 1
      <4>1. i \in 1..Len(s)
        BY <3>3, <1>1
      <4> QED BY <3>3, <4>1, <2>1, <1>1
    <3> QED BY <3>1, <3>2, <3>3
  <2> QED BY <2>2, <2>3
<1> QED BY <1>1, <1>2, <1>3 DEF r

\* The copies for a partition are nodes, and no more than asked for.
LEMMA CopiesFacts ==
  ASSUME full_graph \in [Nodes -> Seq(Nodes)], NEW p, partition[p] \in Seq(Nodes),
         NEW i \in 1..Len(partition[p]), NEW k \in Nat, NEW copies \in Copies(p, i, k)
  PROVE  copies \in Seq(Nodes) /\ Len(copies) <= k
<1> DEFINE light == n_primary_partition = Index.nd
           c_nbrs == UNION {{x} \X DOMAIN full_graph[partition[p][x]] :
                              x \in (IF light THEN 1 ELSE i)..i}
           node(c) == full_graph[partition[p][c[1]]][c[2]]
<1>1. PICK m \in 0..k : \E s \in [1..m -> c_nbrs] : copies = [x \in DOMAIN s |-> node(s[x])]
  <2>1. PICK s \in UNION {[1..m -> c_nbrs] : m \in 0..k} :
          copies = [x \in DOMAIN s |-> node(s[x])]
    BY Zenon DEF Copies
  <2> QED BY <2>1
<1>2. PICK s \in [1..m -> c_nbrs] : copies = [x \in DOMAIN s |-> node(s[x])]
  BY <1>1
<1>3. ASSUME NEW c \in c_nbrs PROVE node(c) \in Nodes
  <2>1. PICK x \in (IF light THEN 1 ELSE i)..i :
          c \in {x} \X DOMAIN full_graph[partition[p][x]]
    OBVIOUS
  <2>2. x \in 1..Len(partition[p])
    BY LenProperties
  <2>3. partition[p][x] \in Nodes
    BY <2>2, ElementOfSeq
  <2>4. full_graph[partition[p][x]] \in Seq(Nodes)
    BY <2>3
  <2>5. c[1] = x /\ c[2] \in 1..Len(full_graph[partition[p][x]])
    BY <2>1, <2>4, LenProperties
  <2> QED BY <2>4, <2>5, ElementOfSeq
<1> HIDE DEF c_nbrs, node
<1>4. m \in Nat /\ m <= k /\ copies = [x \in 1..m |-> node(s[x])]
  BY <1>2
<1>5. \A x \in 1..m : node(s[x]) \in Nodes
  BY <1>2, <1>3
<1>6. copies \in Seq(Nodes) /\ Len(copies) = m
  BY <1>4, <1>5, IsASeq
<1> QED BY <1>4, <1>6

\* What replication leaves alone.
LEMMA ReplicateKeeps ==
  ASSUME PartInv, Replicate
  PROVE  /\ UNCHANGED <<job, freq, full_graph, pmutex, partition_number, n_primary_partition,
                        id2pid, filled_nodes, vis, fill, lock_pids, lock_nodes, round, stream,
                        free_q, th, Pids, Shared, Primaries, Secondary, C>>
         /\ ThreadInv' /\ MutexExists' /\ pc' \in {"replicate", "save", "crashed"}
         /\ TypeOK /\ SizeInv /\ WithinCapacity /\ ReplicationInv /\ pc = "replicate"
         /\ C \in Nat \ {0}
<1>1. UNCHANGED <<job, freq, full_graph, pmutex, partition_number, n_primary_partition,
                  id2pid, filled_nodes, vis, fill, lock_pids, lock_nodes, round, stream,
                  free_q, th>>
  BY DEF Replicate, input, sizes, filling, locks, queues
<1>2. /\ pc = "replicate" /\ pc' \in {"replicate", "save", "crashed"}
      /\ TypeOK /\ SizeInv /\ WithinCapacity /\ ReplicationInv /\ ThreadInv /\ MutexExists
  BY DEF Replicate, PartInv
<1>3. UNCHANGED <<Pids, Shared, Primaries, Secondary, C>>
  BY <1>1 DEF Pids, Shared, Primaries, Secondary, C
<1>4. ThreadInv' /\ MutexExists'
  BY <1>1, <1>2, IdleFacts DEF ThreadInv, MutexExists
<1> QED BY <1>1, <1>2, <1>3, <1>4, Capacities

LEMMA ReplicatePart ==
  ASSUME PartInv, Replicate
  PROVE  PartInv'
<1> DEFINE q == n_primary_partition
<1>1. /\ UNCHANGED <<job, freq, full_graph, pmutex, partition_number, n_primary_partition,
                     id2pid, filled_nodes, vis, fill, lock_pids, lock_nodes, round, stream,
                     free_q, th, Pids, Shared, Primaries, Secondary, C>>
      /\ ThreadInv' /\ MutexExists' /\ pc' \in {"replicate", "save", "crashed"}
      /\ TypeOK /\ SizeInv /\ WithinCapacity /\ ReplicationInv /\ pc = "replicate"
      /\ C \in Nat \ {0}
  BY ReplicateKeeps
<1>2. /\ partition \in [Pids -> Seq(Nodes)] /\ full_graph \in [Nodes -> Seq(Nodes)]
      /\ cur \in Nat \X Nat /\ store_cnt \in [Nodes -> Nat]
      /\ q \in Nat /\ partition_number \in Nat
  BY <1>1 DEF TypeOK
<1>3. /\ q <= Index.nd /\ q <= partition_number
      /\ q * C + (Index.nd - q) <= partition_number * C
      /\ cur[1] <= q /\ cur[2] >= 1 /\ Index.nd \in Nat \ {0}
  BY <1>1, Sizes DEF SizeInv, Planned, ReplicationInv
<1>4. Primaries \subseteq Pids /\ partition # <<>> /\ \A p \in Shared : p \notin Primaries
  <2>1. 0 \in Pids /\ Primaries \subseteq Pids
    <3>1. ASSUME partition_number = 0 PROVE FALSE
      <4>1. q = 0 /\ q * C = 0 /\ partition_number * C = 0
        BY <3>1, <1>1, <1>2, <1>3
      <4> QED BY <4>1, <1>3
    <3> QED BY <3>1, <1>2, <1>3 DEF Pids, Primaries
  <2>2. partition # <<>>
    <3>1. DOMAIN partition = Pids /\ DOMAIN <<>> = {}
      BY <1>2
    <3> QED BY <3>1, <2>1
  <2> QED BY <2>1, <2>2, <1>2 DEF Shared, Primaries
<1>5. CASE cur[1] = q
  <2>1. /\ UNCHANGED <<partition, store_cnt, cur>>
        /\ pc' = IF q = Index.nd THEN "save" ELSE "crashed"
    BY <1>5 DEF Replicate
  <2>2. TypeOK' /\ WithinCapacity'
    <3>1. WithinCapacity'
      BY <1>1, <2>1 DEF WithinCapacity
    <3> QED BY <3>1, <1>1, <1>2, <2>1 DEF TypeOK
  <2>3. SizeInv'
    <3>1. \A n \in Primaries' : id2pid'[n] = n /\ n \in Members(n)'
      BY <1>1, <2>1 DEF SizeInv, Planned, Members
    <3>2. /\ n_primary_partition' * C' + (Index.nd - n_primary_partition')
               <= partition_number' * C'
          /\ pc' \in {"fill", "round", "ldg"} => n_primary_partition' < Index.nd
          /\ pc' = "save" => n_primary_partition' = Index.nd
      <4>1. pc' = "save" <=> q = Index.nd
        BY <2>1
      <4> QED BY <4>1, <1>1, <1>2, <1>3
    <3> QED BY <3>1, <3>2, <1>1, <1>3, <2>1 DEF SizeInv, Planned
  <2>4. FillInv' /\ HomeInv'
    BY <2>1 DEF FillInv, HomeInv
  <2>5. SavedInv'
    <3>1. ASSUME q = Index.nd, NEW n \in Nodes PROVE Placed(n)'
      <4>1. n \in Primaries
        BY <3>1, Sizes DEF Primaries
      <4>2. id2pid'[n] = n /\ n \in Members(n)' /\ n \in Pids'
        BY <4>1, <1>1, <1>4, <2>1 DEF SizeInv, Planned, Members
      <4> QED BY <4>2 DEF Placed, Members
    <3> QED BY <3>1, <2>1 DEF SavedInv
  <2>6. ReplicationInv' /\ RoundInv' /\ RoomOffered'
    BY <2>1 DEF ReplicationInv, RoundInv, RoomOffered
  <2> QED BY <1>1, <2>2, <2>3, <2>4, <2>5, <2>6 DEF PartInv
<1>6. CASE cur[1] # q /\ pc' = "replicate" /\ UNCHANGED <<partition, store_cnt>>
           /\ cur' = <<cur[1] + 1, 1>>
  <2>1. cur[1] + 1 <= q /\ cur' \in Nat \X Nat /\ cur'[1] <= q /\ cur'[2] >= 1
    BY <1>2, <1>3, <1>6
  <2>2. TypeOK' /\ WithinCapacity'
    <3>1. WithinCapacity'
      BY <1>1, <1>6 DEF WithinCapacity
    <3> QED BY <3>1, <2>1, <1>1, <1>2, <1>6 DEF TypeOK
  <2>3. SizeInv'
    <3>1. \A n \in Primaries' : id2pid'[n] = n /\ n \in Members(n)'
      BY <1>1, <1>6 DEF SizeInv, Planned, Members
    <3> QED BY <3>1, <1>1, <1>6 DEF SizeInv, Planned
  <2>4. ReplicationInv'
    BY <2>1, <1>1, <1>6 DEF ReplicationInv
  <2>5. FillInv' /\ HomeInv' /\ RoundInv' /\ SavedInv' /\ RoomOffered'
    BY <1>6 DEF FillInv, HomeInv, RoundInv, SavedInv, RoomOffered
  <2> QED BY <1>1, <2>2, <2>3, <2>4, <2>5 DEF PartInv
<1>7. ASSUME cur[1] # q, ~(cur[2] > Len(partition[cur[1]]) \/ Full(cur[1])), pc' = "replicate",
             NEW copies \in Copies(cur[1], cur[2], C - Len(partition[cur[1]])),
             partition' = [partition EXCEPT ![cur[1]] = @ \o copies],
             store_cnt' = [n \in Nodes |-> store_cnt[n]
                                + Cardinality({x \in DOMAIN copies : copies[x] = n})],
             cur' = <<cur[1], cur[2] + 1>>
      PROVE  PartInv'
  <2> DEFINE p == cur[1]
  <2>1. p \in Primaries /\ p \in Pids
    BY <1>2, <1>3, <1>4, <1>7 DEF Primaries
  <2>2. partition[p] \in Seq(Nodes) /\ Len(partition[p]) \in Nat /\ Len(partition[p]) < C
    <3>1. partition[p] \in Seq(Nodes)
      BY <2>1, <1>2
    <3>2. Len(partition[p]) <= C /\ Len(partition[p]) # C
      BY <2>1, <1>1, <1>4, <1>7 DEF WithinCapacity, Full
    <3> QED BY <3>1, <3>2, <1>1, LenProperties
  <2>3. copies \in Seq(Nodes) /\ Len(copies) <= C - Len(partition[p])
    <3>1. cur[2] \in 1..Len(partition[p]) /\ C - Len(partition[p]) \in Nat
      <4>1. ~(cur[2] > Len(partition[p])) /\ cur[2] \in Nat /\ cur[2] >= 1
        BY <1>2, <1>3, <1>7
      <4> HIDE DEF p
      <4> QED BY <4>1, <2>2, <1>1
    <3> DEFINE i == cur[2]
               k == C - Len(partition[p])
    <3>2. copies \in Copies(p, i, k)
      BY <1>7
    <3> HIDE DEF p, i, k
    <3>3. i \in 1..Len(partition[p]) /\ k \in Nat
      BY <3>1 DEF i, k
    <3>4. copies \in Seq(Nodes) /\ Len(copies) <= k
      BY <3>2, <3>3, <2>2, <1>2, CopiesFacts
    <3> QED BY <3>4 DEF k
  <2> DEFINE r == partition[p] \o copies
  <2>4. /\ r \in Seq(Nodes) /\ Len(r) <= C /\ ToSet(partition[p]) \subseteq ToSet(r)
    <3>1. /\ r \in Seq(Nodes) /\ Len(r) = Len(partition[p]) + Len(copies)
          /\ \A i \in 1..Len(partition[p]) : r[i] = partition[p][i]
      BY <2>2, <2>3, ConcatProperties
    <3>2. Len(copies) \in Nat
      BY <2>3, LenProperties
    <3>3. Len(r) <= C
      BY <3>1, <3>2, <2>2, <2>3, <1>1
    <3>4. ASSUME NEW x \in ToSet(partition[p]) PROVE x \in ToSet(r)
      <4>1. PICK i \in 1..Len(partition[p]) : partition[p][i] = x
        BY <2>2, LenProperties DEF ToSet
      <4>2. i \in 1..Len(r) /\ DOMAIN r = 1..Len(r)
        BY <3>1, <3>2, <2>2, LenProperties
      <4>3. r[i] = x
        BY <3>1, <4>1
      <4> QED BY <4>2, <4>3 DEF ToSet
    <3> QED BY <3>1, <3>3, <3>4
  <2> HIDE DEF r
  <2>5. /\ partition' = [partition EXCEPT ![p] = r]
        /\ partition' \in [Pids -> Seq(Nodes)] /\ partition'[p] = r
        /\ \A x \in Pids : x # p => partition'[x] = partition[x]
    <3>1. partition' = [partition EXCEPT ![p] = r]
      BY <1>7, <1>2, <2>1 DEF r
    <3> QED BY <3>1, <2>1, <2>4, <1>2
  <2>6. WithinCapacity'
    <3>1. \A x \in Pids : Len(partition'[x]) <= C
      <4> SUFFICES ASSUME NEW x \in Pids PROVE Len(partition'[x]) <= C
        OBVIOUS
      <4>1. CASE x = p
        BY <4>1, <2>4, <2>5
      <4>2. CASE x # p
        BY <4>2, <2>5, <1>1, <1>4 DEF WithinCapacity
      <4> QED BY <4>1, <4>2
    <3> QED BY <3>1, <1>1 DEF WithinCapacity
  <2>7. TypeOK'
    <3>1. store_cnt' \in [Nodes -> Nat]
      <4> DEFINE times(n) == Cardinality({x \in DOMAIN copies : copies[x] = n})
      <4>1. ASSUME NEW n \in Nodes PROVE times(n) \in Nat
        <5> DEFINE m == Len(copies)
        <5>1. m \in Nat /\ DOMAIN copies = 1..m
          BY <2>3, LenProperties
        <5> HIDE DEF m
        <5>2. IsFiniteSet(1..m)
          BY <5>1, FS_Interval
        <5>3. IsFiniteSet({x \in 1..m : copies[x] = n})
          BY <5>2, FS_Subset
        <5> QED BY <5>1, <5>3, FS_CardinalityType
      <4>2. store_cnt' = [n \in Nodes |-> store_cnt[n] + times(n)]
        BY <1>7
      <4> HIDE DEF times
      <4> QED BY <4>1, <4>2, <1>2
    <3>2. cur' \in Nat \X Nat
      BY <1>2, <1>7
    <3> QED BY <3>1, <3>2, <2>5, <1>1, <1>2, <1>7 DEF TypeOK
  <2>8. SizeInv'
    <3>1. \A n \in Primaries : id2pid[n] = n /\ n \in ToSet(partition[n])
      BY <1>1 DEF SizeInv, Planned, Members
    <3>2. \A n \in Primaries' : id2pid'[n] = n /\ n \in Members(n)'
      BY <3>1, <1>1, <1>4, <2>1, <2>4, <2>5 DEF Members
    <3> QED BY <3>2, <1>1, <1>7 DEF SizeInv, Planned
  <2>9. ReplicationInv'
    <3>1. \A x \in Shared : x \in Pids /\ x # p
      BY <2>1, <1>2, <1>4 DEF Shared, Pids
    <3>2. \A x \in Shared' : partition'[x] = <<>>
      BY <3>1, <2>5, <1>1 DEF ReplicationInv
    <3>3. cur'[1] <= q /\ cur'[2] >= 1
      BY <1>2, <1>3, <1>7
    <3> QED BY <3>2, <3>3, <1>1 DEF ReplicationInv
  <2>10. FillInv' /\ HomeInv' /\ RoundInv' /\ SavedInv' /\ RoomOffered'
    BY <1>7 DEF FillInv, HomeInv, RoundInv, SavedInv, RoomOffered
  <2> QED BY <1>1, <2>6, <2>7, <2>8, <2>9, <2>10 DEF PartInv
<1>8. \/ cur[1] = q
      \/ cur[1] # q /\ pc' = "replicate" /\ UNCHANGED <<partition, store_cnt>>
         /\ cur' = <<cur[1] + 1, 1>>
      \/ /\ cur[1] # q /\ ~(cur[2] > Len(partition[cur[1]]) \/ Full(cur[1])) /\ pc' = "replicate"
         /\ \E copies \in Copies(cur[1], cur[2], C - Len(partition[cur[1]])) :
              /\ partition' = [partition EXCEPT ![cur[1]] = @ \o copies]
              /\ store_cnt' = [n \in Nodes |-> store_cnt[n]
                                 + Cardinality({x \in DOMAIN copies : copies[x] = n})]
              /\ cur' = <<cur[1], cur[2] + 1>>
  BY <1>1 DEF Replicate
<1> QED BY <1>5, <1>6, <1>7, <1>8

\* The nodes of the fill.
LEMMA SecondaryFacts ==
  ASSUME TypeOK, SizeInv, Planned
  PROVE  /\ Secondary = n_primary_partition..(Index.nd - 1)
         /\ n_primary_partition \in Nat /\ n_primary_partition <= Index.nd
         /\ IsFiniteSet(Secondary) /\ Cardinality(Secondary) = Index.nd - n_primary_partition
         /\ \A n \in Secondary : n \in Nodes /\ n \notin Primaries
         /\ Shared \subseteq Pids /\ \A p \in Shared : p \notin Primaries /\ p \in Nat
<1>1. n_primary_partition \in Nat /\ n_primary_partition <= Index.nd /\ Index.nd \in Nat \ {0}
      /\ partition_number \in Nat
  BY Sizes DEF TypeOK, SizeInv
<1>2. Secondary = n_primary_partition..(Index.nd - 1)
  <2>1. \A n : n \in Secondary <=> n \in n_primary_partition..(Index.nd - 1)
    BY <1>1, Sizes DEF Secondary, Primaries
  <2> QED BY <2>1
<1>3. IsFiniteSet(Secondary) /\ Cardinality(Secondary) = Index.nd - n_primary_partition
  <2> DEFINE a == n_primary_partition
             b == Index.nd - 1
  <2>1. a \in Int /\ b \in Int /\ Secondary = a..b
        /\ (IF a > b THEN 0 ELSE b - a + 1) = Index.nd - n_primary_partition
    BY <1>1, <1>2
  <2> HIDE DEF a, b
  <2>2. IsFiniteSet(a..b) /\ Cardinality(a..b) = IF a > b THEN 0 ELSE b - a + 1
    BY <2>1, FS_Interval
  <2> QED BY <2>1, <2>2
<1> QED BY <1>1, <1>2, <1>3 DEF Secondary, Shared, Pids, Primaries

LEMMA StreamFacts ==
  ASSUME TypeOK, SizeInv, Planned
  PROVE  /\ Len(init_stream) \in Nat
         /\ \A i \in 1..Len(init_stream) : init_stream[i] \in Secondary
         /\ \A n \in Secondary : \E i \in 1..Len(init_stream) : init_stream[i] = n
<1>1. /\ Secondary = n_primary_partition..(Index.nd - 1)
      /\ n_primary_partition \in Nat /\ n_primary_partition <= Index.nd /\ Index.nd \in Nat \ {0}
  BY SecondaryFacts, Sizes
<1>2. CASE freq # NoFreq
  <2>1. init_stream = freq.list /\ freq.list \in Seq(Nat)
        /\ ToSet(freq.list) = 0..(Index.nd - 1) /\ n_primary_partition = 0
    BY <1>1, <1>2, Capacities DEF init_stream, SizeInv, Planned
  <2>2. Len(init_stream) \in Nat /\ DOMAIN init_stream = 1..Len(init_stream)
    BY <2>1, LenProperties
  <2>3. \A n : n \in Secondary <=> \E i \in 1..Len(init_stream) : init_stream[i] = n
    BY <1>1, <2>1, <2>2 DEF ToSet
  <2> QED BY <2>2, <2>3
<1>3. CASE freq = NoFreq
  <2> DEFINE m == Index.nd - n_primary_partition
  <2>1. m \in Nat /\ init_stream = [i \in 1..m |-> n_primary_partition + i - 1]
    BY <1>1, <1>3 DEF init_stream
  <2>2. Len(init_stream) = m
    <3> HIDE DEF m
    <3>1. \A i \in 1..m : n_primary_partition + i - 1 \in Int
      BY <1>1, <2>1
    <3>2. init_stream \in Seq(Int)
      BY <2>1, <3>1, IsASeq
    <3> QED BY <2>1, <3>2, LenProperties
  <2>3. \A i \in 1..Len(init_stream) : init_stream[i] \in Secondary
    BY <1>1, <2>1, <2>2
  <2>4. ASSUME NEW n \in Secondary
        PROVE  \E i \in 1..Len(init_stream) : init_stream[i] = n
    <3> DEFINE i == n - n_primary_partition + 1
    <3>1. i \in 1..Len(init_stream) /\ init_stream[i] = n
      BY <1>1, <2>1, <2>2
    <3> QED BY <3>1
  <2> QED BY <2>1, <2>2, <2>3, <2>4
<1> QED BY <1>2, <1>3

\* There is room behind a full partition for a node without a place.
LEMMA Advance ==
  ASSUME TypeOK, SizeInv, Planned, Visited, NEW p, FillAt(p), LockedTo(p), Full(p),
         NEW n \in Secondary \ vis
  PROVE  FillAt(p + 1) /\ LockedTo(p + 1) /\ ~Full(p + 1)
<1> DEFINE q == n_primary_partition
<1>1. /\ q \in Nat /\ q <= Index.nd /\ Index.nd \in Nat \ {0} /\ partition_number \in Nat
      /\ q * C + (Index.nd - q) <= partition_number * C
      /\ C \in Nat \ {0} /\ p \in Shared /\ p \in Nat /\ p \in Pids
      /\ IsFiniteSet(Secondary) /\ Cardinality(Secondary) = Index.nd - q
  BY SecondaryFacts, Capacities, Sizes DEF FillAt, TypeOK, SizeInv
<1> HIDE DEF q
<1>2. partition[p] \in Seq(Nodes) /\ Len(partition[p]) = C /\ Len(<<>>) = 0
  BY <1>1 DEF TypeOK, Planned, Full
<1>3. Cardinality(vis) < Index.nd - q
  <2>1. vis \in SUBSET Secondary /\ vis # Secondary
    BY DEF Visited
  <2>2. /\ IsFiniteSet(vis) /\ Cardinality(vis) <= Cardinality(Secondary)
        /\ Cardinality(vis) # Cardinality(Secondary)
    BY <2>1, <1>1, FS_Subset
  <2>3. Cardinality(vis) \in Nat
    BY <2>2, FS_CardinalityType
  <2> QED BY <2>2, <2>3, <1>1
<1>4. Cardinality(vis) = (p + 1 - q) * C
  <2> DEFINE d == p - q
  <2>1. d \in Int /\ p + 1 - q = d + 1
    BY <1>1
  <2>2. Cardinality(vis) = d * C + C
    BY <1>2 DEF FillAt, q
  <2> HIDE DEF d
  <2>3. (d + 1) * C = d * C + C
    BY <2>1, <1>1, ProductOrder
  <2> QED BY <2>1, <2>2, <2>3
<1>5. p + 1 < partition_number
  <2>1. (p + 1 - q) * C = (p + 1) * C - q * C
    BY <1>1, ProductOrder
  <2>2. (p + 1) * C \in Int /\ q * C \in Int /\ partition_number * C \in Int
    BY <1>1, ProductOrder
  <2>3. (p + 1) * C < partition_number * C
    BY <2>1, <2>2, <1>1, <1>3, <1>4
  <2> QED BY <2>3, <1>1, ProductOrder
<1>6. p + 1 \in Shared
  BY <1>1, <1>5 DEF Shared, q
<1>7. partition[p + 1] = <<>>
  BY <1>1, <1>6 DEF FillAt
<1>8. \A r \in Shared : /\ r < p + 1 => r < p \/ r = p
                        /\ r > p + 1 => r > p
  BY <1>1 DEF Shared, q
<1>9. FillAt(p + 1)
  <2> SUFFICES ASSUME NEW r, r = p + 1 PROVE FillAt(r)
    OBVIOUS
  <2>1. Cardinality(vis) = (r - q) * C + Len(partition[r])
    <3>1. Cardinality(vis) = (r - q) * C
      BY <1>1, <1>4
    <3>3. partition[r] = <<>>
      BY <1>7
    <3>2. (r - q) * C \in Int
      BY <1>1, ProductOrder
    <3> QED BY <3>1, <3>2, <3>3, <1>2
  <2>2. \A x \in Shared : /\ x < r => Full(x)
                          /\ x > r => partition[x] = <<>>
    BY <1>8 DEF FillAt
  <2>3. r \in Shared
    BY <1>6
  <2> QED BY <2>1, <2>2, <2>3, Zenon DEF FillAt, q
<1>10. LockedTo(p + 1)
  <2>1. partition[p] # <<>>
    BY <1>1, <1>2
  <2>2. \A r \in lock_pids : r <= p + 1
    <3>1. \A r \in lock_pids : r \in Nat /\ r <= p
      BY SecondaryFacts DEF LockedTo
    <3> QED BY <3>1, <1>1
  <2>3. fill.lock_nums > 0 => \A r \in Shared : r < p + 1 \/ partition[r] # <<>> => r \in lock_pids
    BY <2>1, <1>8 DEF LockedTo
  <2> QED BY <2>2, <2>3 DEF LockedTo
<1> QED BY <1>1, <1>2, <1>7, <1>9, <1>10 DEF Full

\* A node gets its place.
LEMMA PlacedNode ==
  ASSUME TypeOK, SizeInv, Planned, WithinCapacity, HomeInv, Visited, pc = "fill", pc' = pc,
         UNCHANGED <<job, n_primary_partition, partition_number>>,
         NEW p, FillAt(p), ~Full(p), NEW n \in Secondary \ vis, Place(n, p)
  PROVE  /\ partition' \in [Pids -> Seq(Nodes)] /\ id2pid' \in [Nodes -> Pids \cup {INF}]
         /\ WithinCapacity' /\ HomeInv' /\ Visited' /\ vis' \subseteq Secondary
         /\ \A m \in Primaries : id2pid'[m] = id2pid[m] /\ partition'[m] = partition[m]
         /\ FillAt(p)' /\ partition'[p] # <<>>
         /\ \A r \in Shared : r # p => partition'[r] = partition[r]
         /\ p \in Shared
<1>1. /\ partition \in [Pids -> Seq(Nodes)] /\ id2pid \in [Nodes -> Pids \cup {INF}]
      /\ C \in Nat \ {0} /\ p \in Shared /\ p \in Pids /\ n \in Nodes
      /\ n \notin vis /\ IsFiniteSet(vis) /\ n \notin Primaries /\ p \notin Primaries
      /\ n_primary_partition < Index.nd
  <2>1. n_primary_partition < Index.nd
    BY DEF SizeInv
  <2>2. IsFiniteSet(vis)
    BY SecondaryFacts, FS_Subset DEF Visited
  <2> QED BY <2>1, <2>2, SecondaryFacts, Capacities DEF FillAt, TypeOK, Planned
<1>2. UNCHANGED <<C, Pids, Shared, Primaries, Secondary>>
  BY DEF C, Pids, Shared, Primaries, Secondary
<1> DEFINE s == Append(partition[p], n)
<1>3. /\ partition[p] \in Seq(Nodes) /\ s \in Seq(Nodes) /\ Len(s) = Len(partition[p]) + 1
      /\ Len(partition[p]) \in Nat /\ Len(partition[p]) < C
      /\ ToSet(s) = ToSet(partition[p]) \cup {n}
      /\ IsInjective(partition[p]) /\ n \notin ToSet(partition[p]) => IsInjective(s)
      /\ s # <<>>
  <2>1. partition[p] \in Seq(Nodes)
    BY <1>1
  <2>2. partition # <<>>
    BY <1>1
  <2>3. Len(partition[p]) <= C /\ Len(partition[p]) # C /\ Len(partition[p]) \in Nat
    BY <1>1, <2>1, <2>2, LenProperties DEF WithinCapacity, Full
  <2> QED BY <1>1, <2>1, <2>3, Appended
<1> HIDE DEF s
<1>4. /\ partition' \in [Pids -> Seq(Nodes)] /\ partition'[p] = s
      /\ \A r \in Pids : r # p => partition'[r] = partition[r]
  <2>1. partition' = [partition EXCEPT ![p] = s]
    BY DEF Place, s
  <2> QED BY <2>1, <1>1, <1>3
<1>5. /\ id2pid' \in [Nodes -> Pids \cup {INF}] /\ id2pid'[n] = p
      /\ \A m \in Nodes : m # n => id2pid'[m] = id2pid[m]
      /\ vis' = vis \cup {n} /\ vis' \subseteq Secondary
  BY <1>1 DEF Place, Visited
<1>6. \A m \in Primaries : id2pid'[m] = id2pid[m] /\ partition'[m] = partition[m]
  <2>1. \A m \in Primaries : m \in Nodes /\ m \in Pids
    <3>1. n_primary_partition <= Index.nd /\ n_primary_partition <= partition_number
      BY DEF SizeInv
    <3>2. Index.nd \in Nat /\ n_primary_partition \in Nat /\ partition_number \in Nat
      BY Sizes DEF TypeOK
    <3> QED BY ONLY <3>1, <3>2 DEF Primaries, Pids, Nodes
  <2> QED BY <2>1, <1>1, <1>4, <1>5
<1>7. WithinCapacity'
  <2>1. \A r \in Pids : Len(partition'[r]) <= C
    <3>1. Len(s) <= C
      BY <1>1, <1>3
    <3>2. partition # <<>>
      BY <1>1
    <3> QED BY <3>1, <3>2, <1>4 DEF WithinCapacity
  <2> QED BY <2>1, <1>2 DEF WithinCapacity
<1>8. n \notin ToSet(partition[p]) /\ \A r \in Shared : n \notin ToSet(partition[r])
  BY <1>1 DEF Visited, Members
<1>9. HomeInv'
  <2>1. \A r \in Shared : /\ \A m \in Members(r) : id2pid[m] = r
                          /\ IsInjective(partition[r])
    BY <1>1 DEF HomeInv
  <2>2. ASSUME NEW r \in Shared
        PROVE  /\ \A m \in ToSet(partition'[r]) : id2pid'[m] = r
               /\ IsInjective(partition'[r])
    <3>1. r \in Pids
      BY SecondaryFacts
    <3>2. \A m \in ToSet(partition[r]) : m \in Nodes /\ m # n /\ id2pid'[m] = r
      <4>1. ToSet(partition[r]) \subseteq vis
        BY DEF Visited, Members
      <4> QED BY <4>1, <2>1, <1>1, <1>5, <1>8, SecondaryFacts DEF Members, Visited
    <3>3. CASE r = p
      BY <3>2, <3>3, <2>1, <1>3, <1>4, <1>5, <1>8
    <3>4. CASE r # p
      BY <3>1, <3>2, <3>4, <2>1, <1>4
    <3> QED BY <3>3, <3>4
  <2> QED BY <2>2, <1>2 DEF HomeInv, Members
<1>10. Visited'
  <2>1. ASSUME NEW m \in vis' PROVE id2pid'[m] \in Shared /\ m \in ToSet(partition'[id2pid'[m]])
    <3>1. CASE m = n
      BY <3>1, <1>1, <1>3, <1>4, <1>5
    <3>2. CASE m # n
      <4>1. m \in vis /\ m \in Nodes /\ id2pid[m] \in Shared /\ m \in ToSet(partition[id2pid[m]])
        BY <3>2, <1>5, SecondaryFacts DEF Visited, Members
      <4>2. id2pid'[m] = id2pid[m] /\ id2pid[m] \in Pids
        BY <3>2, <4>1, <1>5, SecondaryFacts
      <4>3. CASE id2pid[m] = p
        BY <4>1, <4>2, <4>3, <1>3, <1>4
      <4>4. CASE id2pid[m] # p
        BY <4>1, <4>2, <4>4, <1>4
      <4> QED BY <4>3, <4>4
    <3> QED BY <3>1, <3>2
  <2>2. ASSUME NEW r \in Shared PROVE ToSet(partition'[r]) \subseteq vis'
    <3>1. r \in Pids /\ ToSet(partition[r]) \subseteq vis
      BY SecondaryFacts DEF Visited, Members
    <3>2. CASE r = p
      BY <3>1, <3>2, <1>3, <1>4, <1>5
    <3>3. CASE r # p
      BY <3>1, <3>3, <1>4, <1>5
    <3> QED BY <3>2, <3>3
  <2> QED BY <2>1, <2>2, <1>2, <1>5 DEF Visited, Members
<1>11. FillAt(p)'
  <2>1. \A r \in Shared : r \in Pids /\ (r < p => r # p) /\ (r > p => r # p)
    BY <1>1, SecondaryFacts
  <2>2. \A r \in Shared' : /\ r < p => Full(r)'
                           /\ r > p => partition'[r] = <<>>
    BY <2>1, <1>2, <1>4 DEF FillAt, Full
  <2>3. Cardinality(vis') = (p - n_primary_partition') * C' + Len(partition'[p])
    <3> DEFINE k == (p - n_primary_partition) * C
    <3>1. k \in Int /\ k = (p - n_primary_partition') * C'
      BY <1>1, <1>2, SecondaryFacts, ProductOrder
    <3>2. Cardinality(vis) = k + Len(partition[p])
      BY DEF FillAt
    <3>3. Cardinality(vis') = Cardinality(vis) + 1 /\ Cardinality(vis) \in Nat
      BY <1>1, <1>5, FS_AddElement, FS_CardinalityType
    <3> HIDE DEF k
    <3>4. Cardinality(vis') = k + Len(partition'[p])
      BY <3>1, <3>2, <3>3, <1>3, <1>4
    <3> QED BY <3>1, <3>4
  <2>4. p \in Shared'
    BY <1>1, <1>2
  <2> QED BY ONLY <2>2, <2>3, <2>4 DEF FillAt
<1>12. \A r \in Shared : r # p => partition'[r] = partition[r]
  BY <1>4, SecondaryFacts
<1> QED BY <1>1, <1>3, <1>4, <1>5, <1>6, <1>7, <1>9, <1>10, <1>11, <1>12

\* What a step of the fill leaves alone, and what is left to show of it.
LEMMA FillStep ==
  ASSUME PartInv, pc = "fill", UNCHANGED <<input, sizes, replication, lock_nodes, queues, pc, th>>,
         partition' \in [Pids -> Seq(Nodes)], id2pid' \in [Nodes -> Pids \cup {INF}],
         fill' \in [i : Nat \ {0}, j : Nat, pid : Nat, lock_nums : Int],
         WithinCapacity', HomeInv', Visited', Streamed',
         FillAt(fill.pid)', LockedTo(fill.pid)', fill'.j > 0 => partition'[fill'.pid] # <<>>,
         \A m \in Primaries : id2pid'[m] = id2pid[m] /\ partition'[m] = partition[m]
  PROVE  PartInv'
<1>1. /\ TypeOK /\ SizeInv /\ ThreadInv /\ MutexExists /\ Planned
  BY DEF PartInv, Planned
<1>2. UNCHANGED <<job, freq, full_graph, pmutex, partition_number, n_primary_partition,
                  filled_nodes, store_cnt, cur, lock_nodes, round, stream, free_q, pc, th>>
  BY DEF input, sizes, replication, queues
<1>3. UNCHANGED <<C, Pids, Shared, Primaries, Secondary>>
  BY <1>2 DEF C, Pids, Shared, Primaries, Secondary
<1>4. TypeOK'
  <2>1. vis' \subseteq Nodes /\ lock_pids' \subseteq Pids
    <3>1. vis' \subseteq Secondary /\ lock_pids' \subseteq Shared
      BY <1>3 DEF Visited, LockedTo
    <3> QED BY <3>1, <1>1, SecondaryFacts
  <2> QED BY <2>1, <1>1, <1>2, <1>3 DEF TypeOK
<1>5. SizeInv'
  <2>1. \A n \in Primaries' : id2pid'[n] = n /\ n \in Members(n)'
    BY <1>1, <1>3 DEF SizeInv, Members
  <2>2. /\ n_primary_partition' * C' + (Index.nd - n_primary_partition')
             <= partition_number' * C'
        /\ n_primary_partition' < Index.nd
    BY <1>1, <1>2, <1>3 DEF SizeInv
  <2> QED BY <2>1, <2>2, <1>1, <1>2, <1>3 DEF SizeInv, Planned
<1>6. FillInv'
  BY DEF FillInv
<1>7. ThreadInv' /\ MutexExists'
  BY <1>1, <1>2, IdleFacts DEF ThreadInv, MutexExists
<1>8. ReplicationInv' /\ RoundInv' /\ SavedInv' /\ RoomOffered'
  BY <1>2 DEF ReplicationInv, RoundInv, SavedInv, RoomOffered
<1> QED BY <1>4, <1>5, <1>6, <1>7, <1>8 DEF PartInv

\* Going on without a place for a node.
LEMMA StillFilling ==
  ASSUME TypeOK, Planned, WithinCapacity, HomeInv, Visited, pc = "fill",
         UNCHANGED <<input, sizes, layout, vis, lock_pids, pc>>,
         FillAt(fill'.pid), LockedTo(fill'.pid),
         fill'.lock_nums > 0 => fill.lock_nums > 0
  PROVE  /\ partition' \in [Pids -> Seq(Nodes)] /\ id2pid' \in [Nodes -> Pids \cup {INF}]
         /\ WithinCapacity' /\ HomeInv' /\ Visited' /\ FillAt(fill.pid)' /\ LockedTo(fill.pid)'
         /\ \A m \in Primaries : id2pid'[m] = id2pid[m] /\ partition'[m] = partition[m]
<1>1. UNCHANGED <<job, freq, full_graph, pmutex, partition_number, n_primary_partition,
                  partition, id2pid, vis, lock_pids, pc>>
  BY DEF input, sizes, layout
<1>2. UNCHANGED <<C, Pids, Shared, Primaries, Secondary>>
  BY <1>1 DEF C, Pids, Shared, Primaries, Secondary
<1>3. WithinCapacity' /\ HomeInv' /\ Visited'
  BY <1>1, <1>2 DEF WithinCapacity, HomeInv, Visited, Members
<1>4. FillAt(fill.pid)' /\ LockedTo(fill.pid)'
  <2> SUFFICES ASSUME NEW p, p = fill'.pid PROVE FillAt(fill.pid)' /\ LockedTo(fill.pid)'
    OBVIOUS
  <2>1. FillAt(p) /\ LockedTo(p)
    OBVIOUS
  <2>2. FillAt(p)' /\ LockedTo(p)'
    BY <2>1, <1>1, <1>2 DEF FillAt, LockedTo, Full
  <2> QED BY <2>2 DEF FillAt, LockedTo
<1> QED BY <1>1, <1>3, <1>4 DEF TypeOK, Planned

\* The place that was found for a node is the one the fill goes on with.
LEMMA PlacedStep ==
  ASSUME PartInv, pc = "fill",
         UNCHANGED <<input, sizes, replication, lock_nodes, queues, pc, th>>,
         fill' \in [i : Nat \ {0}, j : Nat, pid : Nat, lock_nums : Int],
         NEW p, p = fill'.pid, FillAt(p), ~Full(p), NEW n \in Secondary \ vis, Place(n, p),
         Streamed', LockedTo(p)'
  PROVE  PartInv'
<1>1. /\ TypeOK /\ SizeInv /\ Planned /\ WithinCapacity /\ HomeInv /\ Visited
  BY DEF PartInv, Planned, FillInv
<1>2. UNCHANGED <<job, n_primary_partition, partition_number>> /\ pc' = pc
  BY DEF input, sizes
<1>3. /\ partition' \in [Pids -> Seq(Nodes)] /\ id2pid' \in [Nodes -> Pids \cup {INF}]
      /\ WithinCapacity' /\ HomeInv' /\ Visited'
      /\ \A m \in Primaries : id2pid'[m] = id2pid[m] /\ partition'[m] = partition[m]
      /\ FillAt(p)' /\ partition'[p] # <<>>
  BY <1>1, <1>2, PlacedNode
<1>4. FillAt(fill.pid)' /\ LockedTo(fill.pid)'
  BY <1>3 DEF FillAt, LockedTo
<1> QED BY <1>3, <1>4, FillStep

LEMMA FillNodePart ==
  ASSUME PartInv, FillNode
  PROVE  PartInv'
<1> DEFINE n == init_stream[fill.i]
<1>1. /\ TypeOK /\ SizeInv /\ Planned /\ WithinCapacity /\ HomeInv /\ FillInv /\ pc = "fill"
      /\ FillAt(fill.pid) /\ Visited /\ Streamed /\ LockedTo(fill.pid)
      /\ fill.j = 0 /\ fill.i <= Len(init_stream)
  BY DEF PartInv, Planned, FillInv, FillNode
<1>2. /\ UNCHANGED <<input, sizes, replication, lock_nodes, queues, pc, th>>
      /\ fill \in [i : Nat \ {0}, j : Nat, pid : Nat, lock_nums : Int]
  BY <1>1 DEF FillNode, TypeOK
<1>3. /\ fill.i \in 1..Len(init_stream) /\ Len(init_stream) \in Nat /\ n \in Secondary
      /\ init_stream' = init_stream
  <2>1. Len(init_stream) \in Nat /\ fill.i \in 1..Len(init_stream)
    BY <1>1, <1>2, StreamFacts
  <2>2. init_stream' = init_stream
    BY <1>2 DEF init_stream, input, sizes
  <2> QED BY <2>1, <2>2, <1>1, StreamFacts
<1>4. CASE n \in vis
  <2>1. /\ fill' = [fill EXCEPT !.i = @ + 1, !.lock_nums = @ - 1]
        /\ UNCHANGED <<layout, vis, lock_pids>>
    BY <1>4 DEF FillNode
  <2>2. /\ fill' \in [i : Nat \ {0}, j : Nat, pid : Nat, lock_nums : Int]
        /\ fill'.i = fill.i + 1 /\ fill'.j = 0 /\ fill'.pid = fill.pid
        /\ fill'.lock_nums = fill.lock_nums - 1
    <3>1. fill.i + 1 \in Nat \ {0} /\ fill.lock_nums - 1 \in Int
      BY <1>2
    <3>2. fill' = [i |-> fill.i + 1, j |-> fill.j, pid |-> fill.pid,
                   lock_nums |-> fill.lock_nums - 1]
      BY <2>1, <1>2
    <3>3. fill.j \in Nat /\ fill.pid \in Nat
      BY <1>2
    <3> QED BY <3>1, <3>2, <3>3, <1>1
  <2>3. Streamed'
    <3>1. /\ vis' = vis /\ fill.i \in Nat /\ fill'.i <= Len(init_stream) + 1 /\ ~(fill'.j > 0)
      BY <2>1, <2>2, <1>1, <1>2, <1>3
    <3>2. ASSUME NEW i \in 1..Len(init_stream), i < fill'.i PROVE init_stream[i] \in vis
      <4>1. i < fill.i \/ i = fill.i
        BY <3>1, <3>2, <2>2
      <4> QED BY <4>1, <1>1, <1>4 DEF Streamed
    <3> QED BY <3>1, <3>2, <2>2, <1>3 DEF Streamed
  <2>4. fill'.lock_nums > 0 => fill.lock_nums > 0
    BY <2>2, <1>2
  <2>5. FillAt(fill'.pid) /\ LockedTo(fill'.pid) /\ pc' = pc
    BY <2>2, <1>1, <1>2
  <2>6. /\ partition' \in [Pids -> Seq(Nodes)] /\ id2pid' \in [Nodes -> Pids \cup {INF}]
        /\ WithinCapacity' /\ HomeInv' /\ Visited' /\ FillAt(fill.pid)' /\ LockedTo(fill.pid)'
        /\ \A m \in Primaries : id2pid'[m] = id2pid[m] /\ partition'[m] = partition[m]
    BY <2>1, <2>4, <2>5, <1>1, <1>2, StillFilling
  <2>7. ~(fill'.j > 0)
    BY <2>2
  <2> QED BY <2>2, <2>3, <2>6, <2>7, <1>1, <1>2, FillStep
<1>5. CASE n \notin vis
  <2> PICK p : p = IF Full(fill.pid) THEN fill.pid + 1 ELSE fill.pid
    OBVIOUS
  <2>1. /\ Place(n, p) /\ fill' = [fill EXCEPT !.j = 1, !.pid = p]
        /\ lock_pids' = IF fill.lock_nums > 0 THEN lock_pids \cup {p} ELSE lock_pids
    BY <1>5 DEF FillNode
  <2>2. n \in Secondary \ vis
    BY <1>3, <1>5
  <2>3. FillAt(p) /\ LockedTo(p) /\ ~Full(p) /\ p \in Nat
    <3>1. CASE Full(fill.pid)
      <4>1. FillAt(fill.pid + 1) /\ LockedTo(fill.pid + 1) /\ ~Full(fill.pid + 1)
        <5> HIDE DEF n
        <5> QED BY <3>1, <2>2, <1>1, Advance
      <4> QED BY <3>1, <4>1, <1>2
    <3>2. CASE ~Full(fill.pid)
      BY <3>2, <1>1, <1>2
    <3> QED BY <3>1, <3>2
  <2>4. /\ fill' \in [i : Nat \ {0}, j : Nat, pid : Nat, lock_nums : Int]
        /\ fill'.i = fill.i /\ fill'.j = 1 /\ fill'.pid = p /\ fill'.lock_nums = fill.lock_nums
    BY <2>1, <2>3, <1>2
  <2>5. Streamed'
    <3>1. vis' = vis \cup {n}
      BY <2>1 DEF Place
    <3> QED BY <3>1, <2>4, <1>1, <1>2, <1>3 DEF Streamed
  <2>6. LockedTo(p)'
    <3>1. UNCHANGED <<n_primary_partition, partition_number, Shared>>
      BY <1>2 DEF sizes, Shared
    <3>2. /\ p \in Shared
          /\ \A r \in Shared : r # p => partition'[r] = partition[r]
      <4>1. UNCHANGED <<job, n_primary_partition, partition_number>> /\ pc' = pc
        BY <1>2 DEF input, sizes
      <4> HIDE DEF n
      <4> QED BY <4>1, <2>1, <2>2, <2>3, <1>1, PlacedNode
    <3>3. CASE fill.lock_nums > 0
      <4>1. lock_pids' = lock_pids \cup {p}
        BY <2>1, <3>3
      <4>2. \A s \in Shared : s < p => s \in lock_pids
        BY <2>3, <3>3 DEF LockedTo
      <4>3. \A r \in lock_pids' : r <= p
        BY <4>1, <2>3 DEF LockedTo
      <4>4. \A r \in lock_pids', s \in Shared' : s < r => s \in lock_pids'
        BY <4>1, <4>2, <3>1, <2>3 DEF LockedTo
      <4>5. \A r \in Shared' : r < p \/ partition'[r] # <<>> => r \in lock_pids'
        BY <4>1, <4>2, <3>1, <3>2, <3>3, <2>3 DEF LockedTo
      <4>6. lock_pids' \subseteq Shared'
        BY <4>1, <3>1, <3>2, <2>3 DEF LockedTo
      <4> QED BY <4>3, <4>4, <4>5, <4>6 DEF LockedTo
    <3>4. CASE ~(fill.lock_nums > 0)
      <4>1. lock_pids' = lock_pids /\ ~(fill'.lock_nums > 0)
        BY <2>1, <2>4, <3>4
      <4> QED BY <4>1, <2>3, <3>1 DEF LockedTo
    <3> QED BY <3>3, <3>4
  <2> HIDE DEF n
  <2> QED BY <2>1, <2>2, <2>3, <2>4, <2>5, <2>6, <1>1, <1>2, PlacedStep
<1> QED BY <1>4, <1>5

LEMMA FillNeighborPart ==
  ASSUME PartInv, FillNeighbor
  PROVE  PartInv'
<1> DEFINE nbrs == full_graph[init_stream[fill.i]]
           n == nbrs[fill.j]
<1>1. /\ TypeOK /\ SizeInv /\ Planned /\ WithinCapacity /\ HomeInv /\ FillInv /\ pc = "fill"
      /\ FillAt(fill.pid) /\ Visited /\ Streamed /\ LockedTo(fill.pid)
      /\ fill.j > 0 /\ fill.i <= Len(init_stream) /\ partition[fill.pid] # <<>>
      /\ pc' = pc
  BY DEF PartInv, Planned, FillInv, FillNeighbor, Streamed
<1>2. /\ UNCHANGED <<input, sizes, replication, lock_nodes, queues, pc, th, lock_pids>>
      /\ fill \in [i : Nat \ {0}, j : Nat, pid : Nat, lock_nums : Int]
  BY <1>1 DEF FillNeighbor, TypeOK, locks
<1>3. /\ fill.i \in 1..Len(init_stream) /\ Len(init_stream) \in Nat
      /\ init_stream' = init_stream /\ nbrs \in Seq(Nodes)
  <2>1. Len(init_stream) \in Nat /\ fill.i \in 1..Len(init_stream)
    BY <1>1, <1>2, StreamFacts
  <2>2. init_stream' = init_stream
    BY <1>2 DEF init_stream, input, sizes
  <2>3. init_stream[fill.i] \in Nodes
    BY <2>1, <1>1, StreamFacts, SecondaryFacts
  <2> QED BY <2>1, <2>2, <2>3, <1>1 DEF TypeOK
<1>4. ASSUME UNCHANGED <<layout, vis>>,
             fill' \in [i : Nat \ {0}, j : Nat, pid : Nat, lock_nums : Int],
             Streamed', FillAt(fill'.pid), LockedTo(fill'.pid),
             fill'.lock_nums > 0 => fill.lock_nums > 0,
             fill'.j > 0 => fill'.pid = fill.pid
      PROVE  PartInv'
  <2>1. /\ partition' \in [Pids -> Seq(Nodes)] /\ id2pid' \in [Nodes -> Pids \cup {INF}]
        /\ WithinCapacity' /\ HomeInv' /\ Visited' /\ FillAt(fill.pid)' /\ LockedTo(fill.pid)'
        /\ \A m \in Primaries : id2pid'[m] = id2pid[m] /\ partition'[m] = partition[m]
    BY <1>1, <1>2, <1>4, StillFilling
  <2>2. fill'.j > 0 => partition'[fill'.pid] # <<>>
    BY <1>1, <1>4 DEF layout
  <2> QED BY <2>1, <2>2, <1>1, <1>2, <1>4, FillStep
<1>5. ASSUME NEW p, EndNeighbors(p), p \in Nat, UNCHANGED <<layout, vis>>,
             FillAt(p), LockedTo(p)
      PROVE  PartInv'
  <2>1. /\ fill' \in [i : Nat \ {0}, j : Nat, pid : Nat, lock_nums : Int]
        /\ fill'.i = fill.i + 1 /\ fill'.j = 0 /\ fill'.pid = p
        /\ fill'.lock_nums > 0 => fill.lock_nums > 0
    <3> DEFINE k == IF fill.lock_nums = 0 THEN 0 ELSE fill.lock_nums - 1
    <3>1. fill.i + 1 \in Nat \ {0} /\ k \in Int /\ (k > 0 => fill.lock_nums > 0)
      BY <1>2
    <3>2. fill' = [i |-> fill.i + 1, j |-> 0, pid |-> p, lock_nums |-> k]
      BY <1>2, <1>5 DEF EndNeighbors
    <3> HIDE DEF k
    <3> QED BY <3>1, <3>2, <1>5
  <2>2. Streamed'
    <3>1. /\ vis' = vis /\ fill.i \in Nat /\ fill'.i <= Len(init_stream) + 1 /\ ~(fill'.j > 0)
      BY <2>1, <1>1, <1>2, <1>3, <1>5
    <3>2. ASSUME NEW i \in 1..Len(init_stream), i < fill'.i PROVE init_stream[i] \in vis
      <4>1. i < fill.i \/ i = fill.i
        BY <3>1, <3>2, <2>1
      <4> QED BY <4>1, <1>1 DEF Streamed
    <3> QED BY <3>1, <3>2, <2>1, <1>3 DEF Streamed
  <2>3. FillAt(fill'.pid) /\ LockedTo(fill'.pid)
    BY <2>1, <1>5
  <2>4. ~(fill'.j > 0)
    BY <2>1
  <2> QED BY <2>1, <2>2, <2>3, <2>4, <1>4, <1>5
<1>6. CASE fill.j > Len(nbrs)
  <2>1. EndNeighbors(fill.pid) /\ UNCHANGED <<layout, vis>>
    BY <1>6 DEF FillNeighbor
  <2> QED BY <2>1, <1>1, <1>2, <1>5
<1>7. CASE ~(fill.j > Len(nbrs)) /\ n \in vis \cup filled_nodes
  <2>1. fill' = [fill EXCEPT !.j = @ + 1] /\ UNCHANGED <<layout, vis>>
    BY <1>7 DEF FillNeighbor
  <2>2. /\ fill' \in [i : Nat \ {0}, j : Nat, pid : Nat, lock_nums : Int]
        /\ fill'.i = fill.i /\ fill'.j > 0 /\ fill'.pid = fill.pid
        /\ fill'.lock_nums = fill.lock_nums
    BY <2>1, <1>1, <1>2
  <2>3. Streamed'
    BY <2>1, <2>2, <1>1, <1>3 DEF Streamed
  <2>4. FillAt(fill'.pid) /\ LockedTo(fill'.pid)
    BY <2>2, <1>1
  <2> QED BY <2>1, <2>2, <2>3, <2>4, <1>4
<1>8. CASE ~(fill.j > Len(nbrs)) /\ n \notin vis \cup filled_nodes
  <2>1. n \in Secondary \ vis
    <3>1. fill.j \in 1..Len(nbrs)
      BY <1>1, <1>2, <1>3, <1>8, LenProperties
    <3>2. n \in Nodes
      BY <3>1, <1>3, ElementOfSeq
    <3>3. n \notin Primaries
      BY <1>1, <1>8 DEF SizeInv
    <3> QED BY <3>2, <3>3, <1>8 DEF Secondary
  <2>2. CASE Full(fill.pid)
    <3>1. EndNeighbors(fill.pid + 1) /\ UNCHANGED <<layout, vis>>
      BY <2>2, <1>8 DEF FillNeighbor
    <3>2. FillAt(fill.pid + 1) /\ LockedTo(fill.pid + 1)
      <4> HIDE DEF n
      <4> QED BY <2>1, <2>2, <1>1, Advance
    <3>3. fill.pid + 1 \in Nat
      BY <1>2
    <3> QED BY <3>1, <3>2, <3>3, <1>5
  <2>3. CASE ~Full(fill.pid)
    <3>1. Place(n, fill.pid) /\ fill' = [fill EXCEPT !.j = @ + 1]
      BY <2>3, <1>8 DEF FillNeighbor
    <3>2. /\ fill' \in [i : Nat \ {0}, j : Nat, pid : Nat, lock_nums : Int]
          /\ fill'.i = fill.i /\ fill'.j > 0 /\ fill'.pid = fill.pid
          /\ fill'.lock_nums = fill.lock_nums
      BY <3>1, <1>1, <1>2
    <3>3. vis' = vis \cup {n}
      BY <3>1 DEF Place
    <3>4. Streamed'
      BY <3>2, <3>3, <1>1, <1>3 DEF Streamed
    <3> PICK p : p = fill.pid
      OBVIOUS
    <3>5. /\ FillAt(p) /\ LockedTo(p) /\ ~Full(p) /\ p = fill'.pid /\ Place(n, p)
          /\ partition[p] # <<>>
      BY <3>1, <3>2, <2>3, <1>1
    <3>6. LockedTo(p)'
      <4>1. UNCHANGED <<job, n_primary_partition, partition_number, Shared>> /\ pc' = pc
        BY <1>2 DEF input, sizes, Shared
      <4>2. p \in Shared /\ \A r \in Shared : r # p => partition'[r] = partition[r]
        <5> HIDE DEF n
        <5> QED BY <4>1, <3>5, <2>1, <1>1, PlacedNode
      <4>3. fill'.lock_nums > 0 =>
              \A r \in Shared' : r < p \/ partition'[r] # <<>> => r \in lock_pids'
        BY <4>1, <4>2, <3>2, <3>5, <1>2 DEF LockedTo
      <4> QED BY <4>1, <4>3, <3>5, <1>2 DEF LockedTo
    <3> HIDE DEF n
    <3> QED BY <3>2, <3>4, <3>5, <3>6, <2>1, <1>1, <1>2, PlacedStep
  <2> QED BY <2>2, <2>3
<1> QED BY <1>6, <1>7, <1>8

\* Nodes that have places in a set of partitions are no more than the places are.
LEMMA PlacesBound ==
  ASSUME NEW P, IsFiniteSet(P), NEW c \in Nat, NEW S, NEW part, NEW home,
         \A p \in P : part[p] \in Seq(Nodes) /\ Len(part[p]) <= c,
         \A n \in S : home[n] \in P /\ n \in ToSet(part[home[n]])
  PROVE  Cardinality(S) <= Cardinality(P \X (1..c))
<1> DEFINE place(n) == CHOOSE i \in 1..c : part[home[n]][i] = n
           f == [n \in S |-> <<home[n], place(n)>>]
<1>1. \A n \in S : place(n) \in 1..c /\ part[home[n]][place(n)] = n
  <2> SUFFICES ASSUME NEW n \in S PROVE \E i \in 1..c : part[home[n]][i] = n
    OBVIOUS
  <2>1. home[n] \in P /\ part[home[n]] \in Seq(Nodes) /\ Len(part[home[n]]) <= c
        /\ Len(part[home[n]]) \in Nat /\ DOMAIN part[home[n]] = 1..Len(part[home[n]])
    BY LenProperties
  <2>2. PICK i \in DOMAIN part[home[n]] : part[home[n]][i] = n
    BY DEF ToSet
  <2>3. i \in 1..c
    BY <2>1, <2>2
  <2> QED BY <2>2, <2>3
<1> HIDE DEF place
<1>2. f \in [S -> P \X (1..c)]
  BY <1>1
<1>3. IsInjective(f)
  <2> SUFFICES ASSUME NEW a \in S, NEW b \in S, f[a] = f[b] PROVE a = b
    BY DEF IsInjective
  <2>1. home[a] = home[b] /\ place(a) = place(b)
    OBVIOUS
  <2> QED BY <2>1, <1>1
<1>4. f \in Injection(S, P \X (1..c))
  BY <1>2, <1>3 DEF Injection
<1> HIDE DEF f
<1>5. IsFiniteSet(1..c)
  <2>1. 1 \in Int /\ c \in Int
    OBVIOUS
  <2> QED BY <2>1, FS_Interval
<1>6. IsFiniteSet(P \X (1..c))
  BY <1>5, FS_Product
<1> QED BY <1>4, <1>6, FS_Injection

\* Partitions that are full hold as many nodes as they have places.
LEMMA NodesBound ==
  ASSUME NEW P, NEW c \in Nat, NEW S, IsFiniteSet(S), NEW part,
         \A p \in P : /\ part[p] \in Seq(Nodes) /\ Len(part[p]) = c /\ IsInjective(part[p])
                      /\ ToSet(part[p]) \subseteq S
                      /\ \A r \in P : ToSet(part[p]) \cap ToSet(part[r]) # {} => p = r
  PROVE  Cardinality(P \X (1..c)) <= Cardinality(S)
<1> DEFINE T == P \X (1..c)
           f == [x \in T |-> part[x[1]][x[2]]]
<1>1. \A x \in T : x[1] \in P /\ x[2] \in DOMAIN part[x[1]] /\ f[x] \in ToSet(part[x[1]])
                   /\ f[x] = part[x[1]][x[2]]
  <2> SUFFICES ASSUME NEW x \in T
               PROVE  x[1] \in P /\ x[2] \in DOMAIN part[x[1]] /\ f[x] \in ToSet(part[x[1]])
                      /\ f[x] = part[x[1]][x[2]]
    OBVIOUS
  <2>1. x[1] \in P /\ x[2] \in 1..c /\ DOMAIN part[x[1]] = 1..c
    BY LenProperties
  <2> QED BY <2>1 DEF ToSet
<1>2. f \in [T -> S]
  BY <1>1
<1>3. IsInjective(f)
  <2> SUFFICES ASSUME NEW x \in T, NEW y \in T, f[x] = f[y] PROVE x = y
    BY DEF IsInjective
  <2>1. x[1] = y[1]
    BY <1>1
  <2>2. x[2] = y[2]
    BY <2>1, <1>1 DEF IsInjective
  <2> QED BY <2>1, <2>2
<1>4. f \in Injection(T, S)
  BY <1>2, <1>3 DEF Injection
<1> HIDE DEF f
<1> QED BY <1>4, FS_Injection

\* What stays of the plan while main goes on.
LEMMA SizesKept ==
  ASSUME TypeOK, SizeInv, Planned, pc \notin {"replicate", "save"},
         UNCHANGED <<input, sizes, replication, id2pid>>,
         \A m \in Primaries : partition'[m] = partition[m],
         pc' \in {"fill", "round", "ldg", "saved"}, pc \in {"fill", "round", "ldg"}
  PROVE  /\ SizeInv'
         /\ UNCHANGED <<job, freq, full_graph, pmutex, partition_number, n_primary_partition,
                        filled_nodes, store_cnt, cur, C, Pids, Shared, Primaries, Secondary>>
<1>1. UNCHANGED <<job, freq, full_graph, pmutex, partition_number, n_primary_partition,
                  filled_nodes, store_cnt, cur>>
  BY DEF input, sizes, replication
<1>2. UNCHANGED <<C, Pids, Shared, Primaries, Secondary>>
  BY <1>1 DEF C, Pids, Shared, Primaries, Secondary
<1>3. SizeInv'
  <2>1. \A n \in Primaries' : id2pid'[n] = n /\ n \in Members(n)'
    BY <1>2 DEF SizeInv, Members
  <2>2. /\ n_primary_partition' * C' + (Index.nd - n_primary_partition')
             <= partition_number' * C'
        /\ n_primary_partition' < Index.nd
    BY <1>1, <1>2 DEF SizeInv
  <2> QED BY <2>1, <2>2, <1>1, <1>2 DEF SizeInv, Planned
<1> QED BY <1>1, <1>2, <1>3

LEMMA EndFillPart ==
  ASSUME PartInv, EndFill
  PROVE  PartInv'
<1> DEFINE leading == {p \in lock_pids : n_primary_partition..p \subseteq lock_pids}
<1>1. /\ TypeOK /\ SizeInv /\ Planned /\ WithinCapacity /\ HomeInv /\ ThreadInv /\ MutexExists
      /\ pc = "fill" /\ pc' = "round"
      /\ FillAt(fill.pid) /\ Visited /\ Streamed /\ LockedTo(fill.pid)
      /\ fill.j = 0 /\ fill.i > Len(init_stream)
      /\ lock_nodes' = UNION {ToSet(partition[p]) : p \in leading}
      /\ UNCHANGED <<input, sizes, layout, replication, filling, lock_pids, queues, th>>
      /\ n_primary_partition < Index.nd
  BY DEF PartInv, Planned, FillInv, EndFill, SizeInv
<1>2. /\ SizeInv'
      /\ UNCHANGED <<job, freq, full_graph, pmutex, partition_number, n_primary_partition,
                     filled_nodes, store_cnt, cur, C, Pids, Shared, Primaries, Secondary>>
      /\ UNCHANGED <<partition, id2pid, vis, fill, lock_pids, round, stream, free_q, th>>
  BY <1>1, SizesKept DEF layout, filling, queues
<1>3. /\ partition \in [Pids -> Seq(Nodes)] /\ id2pid \in [Nodes -> Pids \cup {INF}]
      /\ C \in Nat \ {0} /\ Shared \subseteq Pids /\ n_primary_partition \in Nat
      /\ fill.pid \in Shared /\ fill.pid \in Nat /\ \A p \in Shared : p \in Nat
  BY <1>1, SecondaryFacts, Capacities DEF TypeOK, FillAt
<1>4. vis = Secondary
  <2>1. ASSUME NEW n \in Secondary PROVE n \in vis
    <3>1. PICK i \in 1..Len(init_stream) : init_stream[i] = n
      BY <1>1, StreamFacts
    <3>2. i < fill.i
      BY <1>1, StreamFacts DEF TypeOK
    <3> QED BY <3>1, <3>2, <1>1 DEF Streamed
  <2> QED BY <2>1, <1>1 DEF Visited
<1>5. lock_nodes' = UNION {Members(p) : p \in lock_pids}
  <2>1. \A p \in lock_pids : n_primary_partition..p \subseteq lock_pids
    <3> SUFFICES ASSUME NEW p \in lock_pids, NEW r \in n_primary_partition..p
                 PROVE  r \in lock_pids
      OBVIOUS
    <3>1. p \in Shared /\ r \in Shared /\ (r < p \/ r = p)
      BY <1>1, <1>3 DEF LockedTo, Shared, TypeOK
    <3> QED BY <3>1, <1>1 DEF LockedTo
  <2>2. leading = lock_pids
    BY <2>1
  <2> QED BY <2>2, <1>1 DEF Members
<1> HIDE DEF leading
<1>6. lock_nodes' \subseteq Secondary /\ lock_pids \subseteq Shared
  BY <1>1, <1>4, <1>5 DEF Visited, LockedTo
<1>7. \A n \in Secondary : /\ n \in Nodes /\ id2pid[n] \in Shared /\ n \in Members(id2pid[n])
                           /\ n \in lock_nodes' <=> id2pid[n] \in lock_pids
  <2> SUFFICES ASSUME NEW n \in Secondary
               PROVE  /\ n \in Nodes /\ id2pid[n] \in Shared /\ n \in Members(id2pid[n])
                      /\ n \in lock_nodes' <=> id2pid[n] \in lock_pids
    OBVIOUS
  <2>1. n \in Nodes /\ id2pid[n] \in Shared /\ n \in Members(id2pid[n])
    BY <1>1, <1>4, SecondaryFacts DEF Visited
  <2>2. ASSUME n \in lock_nodes' PROVE id2pid[n] \in lock_pids
    <3>1. PICK p \in lock_pids : n \in Members(p)
      BY <2>2, <1>5
    <3> QED BY <3>1, <1>1, <1>6 DEF HomeInv
  <2>3. ASSUME id2pid[n] \in lock_pids PROVE n \in lock_nodes'
    BY <2>1, <2>3, <1>5
  <2> QED BY <2>1, <2>2, <2>3
<1>8. \A p \in lock_pids : Full(p) \/ lock_nodes' = Secondary
  <2> SUFFICES ASSUME NEW p \in lock_pids, ~Full(p) PROVE lock_nodes' = Secondary
    OBVIOUS
  <2>1. p = fill.pid
    BY <1>1, <1>3, <1>6 DEF FillAt, LockedTo
  <2>2. ASSUME NEW n \in Secondary PROVE n \in lock_nodes'
    <3>1. id2pid[n] \in Shared /\ n \in Members(id2pid[n])
      BY <1>7
    <3>2. partition[id2pid[n]] # <<>>
      BY <3>1, SmallPartitions DEF Members
    <3>3. ~(id2pid[n] > p)
      BY <2>1, <3>1, <3>2, <1>1 DEF FillAt
    <3>4. id2pid[n] \in lock_pids
      <4>1. id2pid[n] < p \/ id2pid[n] = p
        BY <3>1, <3>3, <2>1, <1>3
      <4> QED BY <4>1, <3>1, <1>1 DEF LockedTo
    <3> QED BY <3>4, <1>7
  <2> QED BY <2>2, <1>6
<1>9. Cardinality(Secondary \ lock_nodes') <= Cardinality(Unlocked \X (1..C))
  <2>1. IsFiniteSet(Unlocked)
    <3> DEFINE m == partition_number - 1
    <3>1. m \in Int /\ 0 \in Int /\ Unlocked \subseteq 0..m
      BY <1>1 DEF Unlocked, Pids, TypeOK
    <3> HIDE DEF m
    <3> QED BY <3>1, FS_Interval, FS_Subset
  <2>2. \A p \in Unlocked : partition[p] \in Seq(Nodes) /\ Len(partition[p]) <= C
    <3>1. partition # <<>>
      BY <1>3
    <3> QED BY <3>1, <1>1, <1>3 DEF Unlocked, WithinCapacity
  <2>3. \A n \in Secondary \ lock_nodes' :
           id2pid[n] \in Unlocked /\ n \in ToSet(partition[id2pid[n]])
    BY <1>3, <1>7 DEF Unlocked, Members, Shared, TypeOK, Pids
  <2>4. C \in Nat
    BY <1>3
  <2> QED BY <2>1, <2>2, <2>3, <2>4, PlacesBound
<1>10. \A n \in Nodes : Placed(n)
  <2> SUFFICES ASSUME NEW n \in Nodes PROVE Placed(n)
    OBVIOUS
  <2>1. CASE n \in Secondary
    BY <2>1, <1>3, <1>7 DEF Placed
  <2>2. CASE n \notin Secondary
    <3>1. n \in Primaries
      BY <2>2 DEF Secondary
    <3>2. n \in Pids
      <4>1. n_primary_partition <= partition_number /\ partition_number \in Nat
        BY <1>1 DEF SizeInv, TypeOK
      <4> QED BY <3>1, <4>1, <1>3 DEF Primaries, Pids
    <3> QED BY <3>1, <3>2, <1>1 DEF SizeInv, Placed
  <2> QED BY <2>1, <2>2
<1>11. RoundInv'
  <2>1. UNCHANGED Unlocked
    BY <1>2 DEF Unlocked
  <2>2. Waiting' = {}
    BY <1>1 DEF Waiting
  <2>3. \A n \in Nodes : Placed(n)'
    BY <1>2, <1>10 DEF Placed, Members
  <2>4. \A p \in lock_pids' : Members(p)' \subseteq lock_nodes'
    BY <1>2, <1>5 DEF Members
  <2>5. \A p \in lock_pids' : Full(p)' \/ lock_nodes' = Secondary'
    BY <1>2, <1>8 DEF Full
  <2>6. \A n \in lock_nodes' : id2pid'[n] \in lock_pids'
    BY <1>2, <1>6, <1>7
  <2>7. n_primary_partition' = 0
    <3>1. n_primary_partition # Index.nd
      BY <1>1, <1>3, Sizes
    <3> QED BY <3>1, <1>1, <1>2 DEF SizeInv
  <2>8. Cardinality(Secondary' \ lock_nodes') <= Cardinality(Unlocked' \X (1..C'))
    BY <1>2, <1>9, <2>1
  <2>9. lock_pids' \subseteq Shared' /\ lock_nodes' \subseteq Secondary'
    BY <1>2, <1>6
  <2> QED BY <2>2, <2>3, <2>4, <2>5, <2>6, <2>7, <2>8, <2>9 DEF RoundInv
<1>12. TypeOK'
  <2>1. lock_nodes' \subseteq Nodes
    BY <1>6 DEF Secondary
  <2> QED BY <2>1, <1>1, <1>2 DEF TypeOK
<1>13. WithinCapacity' /\ HomeInv'
  BY <1>1, <1>2 DEF WithinCapacity, HomeInv, Members
<1>14. ThreadInv' /\ MutexExists'
  BY <1>1, <1>2, IdleFacts DEF ThreadInv, MutexExists
<1>15. ReplicationInv' /\ FillInv' /\ SavedInv' /\ RoomOffered'
  BY <1>1 DEF ReplicationInv, FillInv, SavedInv, RoomOffered
<1> QED BY <1>2, <1>11, <1>12, <1>13, <1>14, <1>15 DEF PartInv

\* A shuffled list of a set has all of it.
LEMMA Shuffled ==
  ASSUME NEW S, IsFiniteSet(S), NEW s \in SetToSeqs(S)
  PROVE  s \in Seq(S) /\ ToSet(s) = S
<1> DEFINE m == Cardinality(S)
<1>1. m \in Nat /\ s \in [1..m -> S] /\ \A i, j \in 1..m : i # j => s[i] # s[j]
  BY FS_CardinalityType DEF SetToSeqs
<1>2. s \in Injection(1..m, S)
  BY <1>1 DEF Injection, IsInjective
<1>3. Cardinality(1..m) = m
  <2>1. 1 \in Int /\ m \in Int
    BY <1>1
  <2> HIDE DEF m
  <2>2. Cardinality(1..m) = IF 1 > m THEN 0 ELSE m - 1 + 1
    BY <2>1, FS_Interval
  <2> QED BY <2>2, <1>1
<1>4. s \in Surjection(1..m, S)
  BY <1>2, <1>3, FS_Injection
<1>5. s \in Seq(S) /\ DOMAIN s = 1..m
  <2> HIDE DEF m
  <2>1. s \in Seq(S)
    BY <1>1, IsASeq
  <2> QED BY <1>1, <2>1
<1> HIDE DEF m
<1>6. \A x : x \in ToSet(s) <=> x \in S
  BY <1>1, <1>4, <1>5 DEF ToSet, Surjection
<1> QED BY <1>5, <1>6

\* The partitions that rounds fill.
LEMMA UnlockedFacts ==
  ASSUME TypeOK
  PROVE  /\ Unlocked \subseteq Pids /\ IsFiniteSet(Pids) /\ IsFiniteSet(Unlocked)
         /\ \A p \in Pids : p \in Nat
<1> DEFINE m == partition_number - 1
<1>1. m \in Int /\ 0 \in Int /\ Pids = 0..m /\ Unlocked \subseteq Pids
  BY DEF Unlocked, Pids, TypeOK
<1> HIDE DEF m
<1>2. IsFiniteSet(0..m) /\ \A p \in 0..m : p \in Nat
  BY <1>1, FS_Interval
<1> QED BY <1>1, <1>2, FS_Subset

LEMMA StartRoundPart ==
  ASSUME PartInv, StartRound
  PROVE  PartInv'
<1>1. /\ TypeOK /\ SizeInv /\ Planned /\ WithinCapacity /\ HomeInv /\ ThreadInv /\ MutexExists
      /\ RoundInv /\ pc = "round" /\ pc' = "ldg" /\ round < job.ldg_times
      /\ partition' = [p \in Pids |-> IF p \in Unlocked THEN <<>> ELSE partition[p]]
      /\ free_q' \in SetToSeqs(Unlocked)
      /\ stream' = n_primary_partition..(Index.nd - 1)
      /\ round' = round + 1
      /\ UNCHANGED <<input, sizes, id2pid, replication, filling, locks, th>>
  BY DEF PartInv, Planned, StartRound
<1>2. /\ partition \in [Pids -> Seq(Nodes)] /\ id2pid \in [Nodes -> Pids \cup {INF}]
      /\ C \in Nat \ {0} /\ Shared \subseteq Pids /\ job.ldg_times \in Nat
      /\ round \in 0..job.ldg_times
      /\ Unlocked \subseteq Pids /\ IsFiniteSet(Unlocked)
  BY <1>1, SecondaryFacts, Capacities, UnlockedFacts DEF TypeOK
<1>3. n_primary_partition = 0 /\ Primaries = {} /\ Secondary = Nodes /\ Shared = Pids
  <2>1. n_primary_partition = 0
    BY <1>1, <1>2 DEF RoundInv
  <2> QED BY <2>1 DEF Primaries, Secondary, Shared, Pids
<1>4. /\ SizeInv'
      /\ UNCHANGED <<job, freq, full_graph, pmutex, partition_number, n_primary_partition,
                     filled_nodes, store_cnt, cur, C, Pids, Shared, Primaries, Secondary>>
      /\ UNCHANGED <<id2pid, vis, fill, lock_pids, lock_nodes, th, Unlocked>>
  <2>1. \A m \in Primaries : partition'[m] = partition[m]
    BY <1>3
  <2>2. UNCHANGED <<vis, fill, lock_pids, lock_nodes>>
    BY <1>1 DEF filling, locks
  <2>3. /\ SizeInv'
        /\ UNCHANGED <<job, freq, full_graph, pmutex, partition_number, n_primary_partition,
                     filled_nodes, store_cnt, cur, C, Pids, Shared, Primaries, Secondary>>
    BY <2>1, <1>1, SizesKept
  <2>4. UNCHANGED Unlocked
    BY <2>2, <2>3 DEF Unlocked
  <2> QED BY <2>2, <2>3, <2>4, <1>1
<1>5. /\ stream' = Nodes /\ free_q' \in Seq(Pids) /\ ToSet(free_q') = Unlocked
      /\ round' \in 0..job.ldg_times
  <2>1. free_q' \in Seq(Unlocked) /\ ToSet(free_q') = Unlocked
    BY <1>1, <1>2, Shuffled
  <2>2. round' \in 0..job.ldg_times
    BY <1>1, <1>2
  <2>3. free_q' \in Seq(Pids)
    BY <2>1, <1>2
  <2> QED BY <2>1, <2>2, <2>3, <1>1, <1>3, Sizes
<1>6. \A p \in Pids : /\ partition'[p] \in Seq(Nodes)
                      /\ p \in Unlocked => partition'[p] = <<>>
                      /\ p \notin Unlocked => partition'[p] = partition[p]
  BY <1>1, <1>2, SmallPartitions
<1>7. TypeOK'
  <2>1. partition' \in [Pids' -> Seq(Nodes)]
    BY <1>1, <1>4, <1>6
  <2> QED BY <2>1, <1>1, <1>4, <1>5 DEF TypeOK
<1>8. WithinCapacity'
  <2>1. partition # <<>> \/ Pids = {}
    BY <1>2
  <2>2. \A p \in Pids : Len(partition'[p]) <= C
    BY <2>1, <1>1, <1>2, <1>6, SmallPartitions DEF WithinCapacity
  <2> QED BY <2>2, <1>4 DEF WithinCapacity
<1>9. HomeInv'
  <2>1. \A p \in Pids : /\ \A n \in Members(p) : id2pid[n] = p
                        /\ IsInjective(partition[p])
    BY <1>1, <1>3 DEF HomeInv, SizeInv
  <2>2. \A p \in Pids : /\ \A n \in ToSet(partition'[p]) : id2pid[n] = p
                        /\ IsInjective(partition'[p])
    BY <2>1, <1>6, SmallPartitions DEF Members
  <2> QED BY <2>2, <1>3, <1>4 DEF HomeInv, Members
<1>10. RoundInv'
  <2>1. Waiting' = Nodes \ lock_nodes
    <3>1. Held' = {}
      BY <1>1, <1>4, IdleFacts DEF Held, ThreadInv
    <3> QED BY <3>1, <1>1, <1>4, <1>5 DEF Waiting
  <2>2. ASSUME NEW n \in Nodes \ Waiting' PROVE Placed(n)'
    <3>1. n \in lock_nodes
      BY <2>1
    <3>2. id2pid[n] \in lock_pids /\ id2pid[n] \in Pids /\ id2pid[n] \notin Unlocked
      BY <3>1, <1>1, <1>2 DEF RoundInv, Unlocked
    <3>3. n \in Members(id2pid[n])
      BY <1>1 DEF RoundInv, Waiting, Placed
    <3> QED BY <3>2, <3>3, <1>4, <1>6 DEF Placed, Members
  <2>3. ASSUME NEW n \in Waiting' PROVE n \notin lock_nodes /\ \A p \in Pids : n \notin Members(p)'
    <3>1. n \notin lock_nodes
      BY <2>1
    <3>2. ASSUME NEW p \in Pids PROVE n \notin ToSet(partition'[p])
      <4>1. CASE p \in Unlocked
        BY <4>1, <1>6, SmallPartitions
      <4>2. CASE p \notin Unlocked
        <5>1. p \in lock_pids
          BY <4>2, <1>1, <1>3, UnlockedFacts DEF Unlocked
        <5>2. n \notin ToSet(partition[p])
          BY <5>1, <3>1, <1>1 DEF RoundInv, Members
        <5> QED BY <5>2, <4>2, <1>6
      <4> QED BY <4>1, <4>2
    <3> QED BY <3>1, <3>2, <1>4 DEF Members
  <2>4. \A p \in lock_pids : /\ partition'[p] = partition[p]
                             /\ Members(p) \subseteq lock_nodes
                             /\ Full(p) \/ lock_nodes = Secondary
    BY <1>1, <1>2, <1>6 DEF RoundInv, Unlocked
  <2>5. \A p \in lock_pids' : /\ Members(p)' \subseteq lock_nodes'
                              /\ Full(p)' \/ lock_nodes' = Secondary'
    BY <2>4, <1>4 DEF Members, Full
  <2>6. /\ lock_pids' \subseteq Shared' /\ lock_nodes' \subseteq Secondary'
        /\ \A n \in lock_nodes' : id2pid'[n] \in lock_pids'
        /\ Cardinality(Secondary' \ lock_nodes') <= Cardinality(Unlocked' \X (1..C'))
        /\ n_primary_partition' = 0
    BY <1>1, <1>3, <1>4 DEF RoundInv
  <2> QED BY <2>2, <2>3, <2>5, <2>6, <1>4 DEF RoundInv
<1>11. RoomOffered'
  BY <1>4, <1>5 DEF RoomOffered
<1>12. ThreadInv' /\ MutexExists'
  BY <1>1, <1>3, <1>4, IdleFacts DEF ThreadInv, MutexExists
<1>13. ReplicationInv' /\ FillInv' /\ SavedInv'
  BY <1>1 DEF ReplicationInv, FillInv, SavedInv
<1> QED BY <1>4, <1>7, <1>8, <1>9, <1>10, <1>11, <1>12, <1>13 DEF PartInv

LEMMA EndRoundPart ==
  ASSUME PartInv, EndRound
  PROVE  PartInv'
<1>1. /\ TypeOK /\ SizeInv /\ Planned /\ WithinCapacity /\ HomeInv /\ ThreadInv /\ MutexExists
      /\ RoundInv /\ pc = "ldg" /\ pc' = "round"
      /\ stream = {} /\ \A t \in Threads : th[t] = Idle
      /\ UNCHANGED <<input, sizes, layout, replication, filling, locks, queues, th>>
  BY DEF PartInv, Planned, EndRound, ThreadInv
<1>2. UNCHANGED <<partition, id2pid, vis, fill, lock_pids, lock_nodes, round, stream, free_q>>
  BY <1>1 DEF layout, filling, locks, queues
<1>3. /\ SizeInv'
      /\ UNCHANGED <<job, freq, full_graph, pmutex, partition_number, n_primary_partition,
                     filled_nodes, store_cnt, cur, C, Pids, Shared, Primaries, Secondary>>
  BY <1>1, <1>2, SizesKept
<1>4. TypeOK' /\ WithinCapacity' /\ HomeInv'
  <2>1. WithinCapacity' /\ HomeInv'
    BY <1>1, <1>2, <1>3 DEF WithinCapacity, HomeInv, Members
  <2> QED BY <2>1, <1>1, <1>2, <1>3 DEF TypeOK
<1>5. RoundInv'
  <2>1. Waiting = {} /\ Waiting' = {}
    BY <1>1, IdleFacts DEF Waiting, Held
  <2>2. \A n \in Nodes : Placed(n)'
    BY <2>1, <1>1, <1>2, <1>3 DEF RoundInv, Placed, Members
  <2>3. UNCHANGED Unlocked
    BY <1>2, <1>3 DEF Unlocked
  <2> QED BY <2>1, <2>2, <2>3, <1>1, <1>2, <1>3 DEF RoundInv, Members, Full
<1>6. ThreadInv' /\ MutexExists'
  BY <1>1, IdleFacts DEF ThreadInv, MutexExists
<1>7. ReplicationInv' /\ FillInv' /\ SavedInv' /\ RoomOffered'
  BY <1>1 DEF ReplicationInv, FillInv, SavedInv, RoomOffered
<1> QED BY <1>3, <1>4, <1>5, <1>6, <1>7 DEF PartInv

LEMMA SavePart ==
  ASSUME PartInv, Save
  PROVE  PartInv'
<1>1. /\ TypeOK /\ SizeInv /\ Planned /\ WithinCapacity /\ HomeInv /\ ThreadInv /\ MutexExists
      /\ RoundInv /\ SavedInv /\ pc \in {"save", "round"} /\ pc' = "saved"
      /\ UNCHANGED <<input, sizes, layout, replication, filling, locks, queues, th>>
  BY DEF PartInv, Planned, Save
<1>2. UNCHANGED <<job, freq, full_graph, pmutex, partition_number, n_primary_partition,
                  partition, id2pid, filled_nodes, store_cnt, cur, vis, fill, lock_pids,
                  lock_nodes, round, stream, free_q, th>>
  BY <1>1 DEF input, sizes, layout, replication, filling, locks, queues
<1>3. UNCHANGED <<C, Pids, Shared, Primaries, Secondary>>
  BY <1>2 DEF C, Pids, Shared, Primaries, Secondary
<1>4. SizeInv'
  <2>1. \A n \in Primaries' : id2pid'[n] = n /\ n \in Members(n)'
    BY <1>1, <1>2, <1>3 DEF SizeInv, Members
  <2>2. /\ n_primary_partition' * C' + (Index.nd - n_primary_partition')
             <= partition_number' * C'
    BY <1>1, <1>2, <1>3 DEF SizeInv
  <2> QED BY <2>1, <2>2, <1>1, <1>2, <1>3 DEF SizeInv, Planned
<1>5. TypeOK' /\ WithinCapacity' /\ HomeInv'
  <2>1. WithinCapacity'
    BY <1>1, <1>2, <1>3 DEF WithinCapacity
  <2>2. HomeInv'
    <3>1. CASE pc = "save"
      <4>1. ~(n_primary_partition' < Index.nd)
        BY <3>1, <1>1, <1>2, Sizes DEF SizeInv
      <4> QED BY <4>1 DEF HomeInv
    <3>2. CASE pc = "round"
      BY <3>2, <1>1, <1>2, <1>3 DEF HomeInv, Members
    <3> QED BY <3>1, <3>2, <1>1
  <2> QED BY <2>1, <2>2, <1>1, <1>2, <1>3 DEF TypeOK
<1>6. SavedInv'
  <2>1. \A n \in Nodes : Placed(n)
    <3>1. CASE pc = "save"
      BY <3>1, <1>1 DEF SavedInv
    <3>2. CASE pc = "round"
      BY <3>2, <1>1 DEF RoundInv, Waiting
    <3> QED BY <3>1, <3>2, <1>1
  <2> QED BY <2>1, <1>2, <1>3 DEF SavedInv, Placed, Members
<1>7. ThreadInv' /\ MutexExists'
  BY <1>1, <1>2, IdleFacts DEF ThreadInv, MutexExists
<1>8. ReplicationInv' /\ FillInv' /\ RoundInv' /\ RoomOffered'
  BY <1>1 DEF ReplicationInv, FillInv, RoundInv, RoomOffered
<1> QED BY <1>4, <1>5, <1>6, <1>7, <1>8 DEF PartInv

\* The locals of a thread.
Locals == [pc : Places, node : Nodes, pid : Pids \cup {INF}, pcount : SUBSET (Pids \X Nat),
           best : Int]

\* A thread goes on in a round, where every partition has a mutex.
LEMMA Going ==
  ASSUME PartInv, NEW t \in Threads, NEW locals \in Locals, Goto(t, locals),
         pc = "ldg" \/ th[t].pc # "idle"
  PROVE  /\ TypeOK /\ SizeInv /\ Planned /\ WithinCapacity /\ HomeInv /\ ThreadInv
         /\ MutexExists /\ RoundInv /\ RoomOffered /\ pc = "ldg" /\ pc' = "ldg"
         /\ UNCHANGED <<job, freq, full_graph, pmutex, partition_number, n_primary_partition,
                        filled_nodes, store_cnt, cur, vis, fill, lock_pids, lock_nodes, round,
                        C, Pids, Shared, Primaries, Secondary, Unlocked>>
         /\ n_primary_partition = 0 /\ Primaries = {} /\ Secondary = Nodes /\ Shared = Pids
         /\ \A p \in Pids : p < pmutex /\ p \in Nat
         /\ th' \in [Threads -> Locals] /\ th'[t] = locals
         /\ \A u \in Threads : u # t => th'[u] = th[u]
         /\ C \in Nat \ {0} /\ n_primary_partition < Index.nd
<1>1. /\ TypeOK /\ SizeInv /\ WithinCapacity /\ HomeInv /\ ThreadInv /\ MutexExists
      /\ RoundInv /\ RoomOffered
  BY DEF PartInv
<1>2. pc = "ldg" /\ pc' = "ldg" /\ Planned
  BY <1>1, IdleFacts DEF ThreadInv, Goto, Planned
<1>3. UNCHANGED <<job, freq, full_graph, pmutex, partition_number, n_primary_partition,
                  filled_nodes, store_cnt, cur, vis, fill, lock_pids, lock_nodes, round>>
  BY DEF Goto, input, sizes, replication, filling, locks
<1>4. UNCHANGED <<C, Pids, Shared, Primaries, Secondary, Unlocked>>
  BY <1>3 DEF C, Pids, Shared, Primaries, Secondary, Unlocked
<1>5. n_primary_partition = 0 /\ Primaries = {} /\ Secondary = Nodes /\ Shared = Pids
  <2>1. n_primary_partition = 0
    BY <1>1, <1>2 DEF ThreadInv
  <2> QED BY <2>1 DEF Primaries, Secondary, Shared, Pids
<1>6. \A p \in Pids : p < pmutex /\ p \in Nat
  <2>1. partition_number = pmutex /\ partition_number \in Nat
    BY <1>1, <1>2, <1>5 DEF SizeInv, TypeOK
  <2> QED BY <2>1 DEF Pids
<1>7. /\ th' \in [Threads -> Locals] /\ th'[t] = locals
      /\ \A u \in Threads : u # t => th'[u] = th[u]
  <2>1. th \in [Threads -> Locals]
    BY <1>1 DEF TypeOK, Locals
  <2>2. th' = [th EXCEPT ![t] = locals]
    BY DEF Goto
  <2> QED BY <2>1, <2>2
<1>8. C \in Nat \ {0} /\ n_primary_partition < Index.nd
  BY <1>1, <1>2, <1>5, Capacities, Sizes
<1> QED BY <1>1, <1>2, <1>3, <1>4, <1>5, <1>6, <1>7, <1>8

\* The types and the sizes after such a step.
LEMMA GoingKeeps ==
  ASSUME PartInv, NEW t \in Threads, NEW locals \in Locals, Goto(t, locals),
         pc = "ldg" \/ th[t].pc # "idle",
         partition' \in [Pids -> Seq(Nodes)], id2pid' \in [Nodes -> Pids \cup {INF}],
         stream' \subseteq Nodes, free_q' \in Seq(Pids), locals.pc # "no_mutex"
  PROVE  /\ TypeOK' /\ SizeInv' /\ MutexExists'
         /\ ReplicationInv' /\ FillInv' /\ SavedInv'
<1>1. /\ TypeOK /\ SizeInv /\ Planned /\ MutexExists /\ pc = "ldg" /\ pc' = "ldg"
      /\ UNCHANGED <<job, freq, full_graph, pmutex, partition_number, n_primary_partition,
                     filled_nodes, store_cnt, cur, vis, fill, lock_pids, lock_nodes, round,
                     C, Pids, Shared, Primaries, Secondary, Unlocked>>
      /\ Primaries = {} /\ th' \in [Threads -> Locals] /\ th'[t] = locals
      /\ \A u \in Threads : u # t => th'[u] = th[u]
  BY Going
<1>2. TypeOK'
  <2>1. th' \in [Threads -> [pc : Places, node : Nodes, pid : Pids' \cup {INF},
                             pcount : SUBSET (Pids' \X Nat), best : Int]]
    BY <1>1 DEF Locals
  <2> QED BY <2>1, <1>1 DEF TypeOK
<1>3. SizeInv'
  <2>1. \A n \in Primaries' : id2pid'[n] = n /\ n \in Members(n)'
    BY <1>1
  <2>2. /\ n_primary_partition' * C' + (Index.nd - n_primary_partition')
             <= partition_number' * C'
        /\ n_primary_partition' < Index.nd
    BY <1>1 DEF SizeInv
  <2> QED BY <2>1, <2>2, <1>1 DEF SizeInv, Planned
<1>4. MutexExists'
  BY <1>1 DEF MutexExists
<1> QED BY <1>1, <1>2, <1>3, <1>4 DEF ReplicationInv, FillInv, SavedInv

\* A step in which no node leaves the stream or gets a place.
Offering == {"check", "insert", "push"}

LEMMA QuietStep ==
  ASSUME PartInv, NEW t \in Threads, NEW locals \in Locals, Goto(t, locals),
         UNCHANGED <<layout, stream>>, free_q' \in Seq(Pids),
         th[t].pc # "idle", locals.pc # "no_mutex", locals.pc = "idle" => locals = Idle,
         locals.pc \in Moving <=> th[t].pc \in Moving,
         locals.pc \in Moving => locals.node = th[t].node,
         locals.pc \in Offering => locals.pid \in Pids,
         \A p \in Pids :
           p \in ToSet(free_q) \/ (th[t].pid = p /\ th[t].pc \in Offering) =>
             Full(p) \/ p \in ToSet(free_q') \/ (locals.pid = p /\ locals.pc \in Offering)
  PROVE  PartInv'
<1>1. /\ TypeOK /\ SizeInv /\ Planned /\ WithinCapacity /\ HomeInv /\ ThreadInv
      /\ MutexExists /\ RoundInv /\ RoomOffered /\ pc = "ldg" /\ pc' = "ldg"
      /\ UNCHANGED <<job, freq, full_graph, pmutex, partition_number, n_primary_partition,
                     filled_nodes, store_cnt, cur, vis, fill, lock_pids, lock_nodes, round,
                     C, Pids, Shared, Primaries, Secondary, Unlocked>>
      /\ n_primary_partition = 0
      /\ th' \in [Threads -> Locals] /\ th'[t] = locals
      /\ \A u \in Threads : u # t => th'[u] = th[u]
  BY Going
<1>2. UNCHANGED <<partition, id2pid, stream>>
  BY DEF layout
<1>3. /\ TypeOK' /\ SizeInv' /\ MutexExists' /\ ReplicationInv' /\ FillInv' /\ SavedInv'
  <2>1. /\ partition' \in [Pids -> Seq(Nodes)] /\ id2pid' \in [Nodes -> Pids \cup {INF}]
        /\ stream' \subseteq Nodes
    BY <1>1, <1>2 DEF TypeOK, Planned
  <2> QED BY <2>1, <1>1, GoingKeeps
<1>4. WithinCapacity' /\ HomeInv'
  BY <1>1, <1>2 DEF WithinCapacity, HomeInv, Members
<1>5. \A u \in Threads : /\ th'[u].pc \in Moving <=> th[u].pc \in Moving
                         /\ th'[u].pc \in Moving => th'[u].node = th[u].node
  BY <1>1
<1>6. ThreadInv'
  <2>1. ASSUME NEW u \in Threads, th'[u].pc \in Moving
        PROVE  /\ th'[u].node \notin stream'
               /\ \A v \in Threads : th'[v].pc \in Moving /\ th'[v].node = th'[u].node => v = u
    BY <2>1, <1>1, <1>2, <1>5 DEF ThreadInv
  <2>2. ASSUME NEW u \in Threads
        PROVE  /\ th'[u].pc \in {"check", "insert", "push"} => th'[u].pid \in Pids'
               /\ th'[u].pc = "idle" => th'[u] = Idle
    BY <1>1 DEF ThreadInv, Offering
  <2> QED BY <2>1, <2>2, <1>1 DEF ThreadInv
<1>7. RoundInv'
  <2>1. Held' = Held
    BY <1>1, <1>5 DEF Held
  <2>2. Waiting' = Waiting
    BY <2>1, <1>1, <1>2 DEF Waiting
  <2> QED BY <2>2, <1>1, <1>2 DEF RoundInv, Members, Full, Placed
<1>8. RoomOffered'
  <2>1. ASSUME NEW p \in Unlocked
        PROVE  \/ Full(p) \/ p \in ToSet(free_q')
               \/ \E u \in Threads : th'[u].pid = p /\ th'[u].pc \in {"check", "insert", "push"}
    <3>1. p \in Pids
      BY <1>1, UnlockedFacts
    <3>2. CASE Full(p) \/ p \in ToSet(free_q)
               \/ (th[t].pid = p /\ th[t].pc \in Offering)
      BY <3>1, <3>2, <1>1 DEF Offering
    <3>3. CASE \E u \in Threads : u # t /\ th[u].pid = p /\ th[u].pc \in Offering
      BY <3>3, <1>1 DEF Offering
    <3>4. \/ Full(p) \/ p \in ToSet(free_q)
          \/ \E u \in Threads : th[u].pid = p /\ th[u].pc \in Offering
      BY <1>1 DEF RoomOffered, Offering
    <3> QED BY <3>2, <3>3, <3>4
  <2> QED BY <2>1, <1>1, <1>2 DEF RoomOffered, Full
<1> QED BY <1>3, <1>4, <1>6, <1>7, <1>8 DEF PartInv

\* The locals of a thread are what they should be.
LEMMA LocalsOf ==
  ASSUME TypeOK, NEW t \in Threads
  PROVE  /\ th[t] \in Locals /\ Idle \in Locals
         /\ free_q \in Seq(Pids) /\ Len(free_q) \in Nat
<1>1. th[t] \in Locals /\ free_q \in Seq(Pids)
  BY DEF TypeOK, Locals
<1> QED BY <1>1, Sizes, LenProperties DEF Locals

LEMMA TakeNodePart ==
  ASSUME PartInv, NEW t \in Threads, TakeNode(t)
  PROVE  PartInv'
<1>1. PICK n \in stream :
        /\ stream' = stream \ {n}
        /\ Goto(t, IF n \in lock_nodes THEN Idle ELSE [Idle EXCEPT !.pc = "count", !.node = n])
  BY DEF TakeNode
<1> DEFINE locals == IF n \in lock_nodes THEN Idle ELSE [Idle EXCEPT !.pc = "count", !.node = n]
<1>2. TypeOK /\ pc = "ldg" /\ th[t].pc = "idle" /\ UNCHANGED <<layout, free_q>>
  BY DEF PartInv, TakeNode
<1>3. n \in Nodes /\ Idle \in Locals
  BY <1>2, LocalsOf DEF TypeOK
<1>4. /\ locals \in Locals /\ locals.pc \in {"idle", "count"}
      /\ locals.pc = "idle" => locals = Idle /\ n \in lock_nodes
      /\ locals.pc = "count" => locals.node = n /\ n \notin lock_nodes
  BY <1>3 DEF Locals, Places, Idle
<1> HIDE DEF locals
<1>5. Goto(t, locals)
  BY <1>1 DEF locals
<1>6. /\ TypeOK /\ SizeInv /\ Planned /\ WithinCapacity /\ HomeInv /\ ThreadInv
      /\ MutexExists /\ RoundInv /\ RoomOffered /\ pc' = "ldg"
      /\ UNCHANGED <<job, freq, full_graph, pmutex, partition_number, n_primary_partition,
                     filled_nodes, store_cnt, cur, vis, fill, lock_pids, lock_nodes, round,
                     C, Pids, Shared, Primaries, Secondary, Unlocked>>
      /\ n_primary_partition = 0
      /\ th' \in [Threads -> Locals] /\ th'[t] = locals
      /\ \A u \in Threads : u # t => th'[u] = th[u]
  BY <1>2, <1>4, <1>5, Going
<1>7. UNCHANGED <<partition, id2pid, free_q>>
  BY <1>2 DEF layout
<1>8. /\ TypeOK' /\ SizeInv' /\ MutexExists' /\ ReplicationInv' /\ FillInv' /\ SavedInv'
  <2>1. /\ partition' \in [Pids -> Seq(Nodes)] /\ id2pid' \in [Nodes -> Pids \cup {INF}]
        /\ stream' \subseteq Nodes /\ free_q' \in Seq(Pids) /\ locals.pc # "no_mutex"
    BY <1>1, <1>4, <1>6, <1>7 DEF TypeOK, Planned
  <2> QED BY <2>1, <1>2, <1>4, <1>5, GoingKeeps
<1>9. WithinCapacity' /\ HomeInv'
  BY <1>2, <1>6, <1>7 DEF WithinCapacity, HomeInv, Members
<1>10. ThreadInv'
  <2>1. ASSUME NEW u \in Threads, th'[u].pc \in Moving
        PROVE  /\ th'[u].node \notin stream'
               /\ \A v \in Threads : th'[v].pc \in Moving /\ th'[v].node = th'[u].node => v = u
    <3>1. \A v \in Threads : v # t => /\ th'[v] = th[v]
                                      /\ th[v].pc \in Moving => th[v].node # n
      BY <1>6 DEF ThreadInv
    <3>2. th'[t].pc \in Moving => th'[t].node = n
      BY <1>4, <1>6, IdleFacts
    <3>3. CASE u = t
      BY <3>1, <3>2, <3>3, <2>1, <1>1
    <3>4. CASE u # t
      BY <3>1, <3>2, <3>4, <2>1, <1>1, <1>6 DEF ThreadInv
    <3> QED BY <3>3, <3>4
  <2>2. ASSUME NEW u \in Threads
        PROVE  /\ th'[u].pc \in {"check", "insert", "push"} => th'[u].pid \in Pids'
               /\ th'[u].pc = "idle" => th'[u] = Idle
    BY <1>4, <1>6 DEF ThreadInv
  <2>3. pc' = "ldg" /\ n_primary_partition' = 0
    BY <1>6
  <2> QED BY ONLY <2>1, <2>2, <2>3 DEF ThreadInv
<1>11. RoundInv'
  <2>1. \A m : m \in Held' <=> m \in Held \/ (m = n /\ n \notin lock_nodes)
    <3>1. th[t].pc \notin Moving
      BY <1>2, IdleFacts DEF Moving
    <3>2. th'[t].pc \in Moving <=> n \notin lock_nodes
      BY <1>4, <1>6 DEF Moving
    <3>3. n \notin lock_nodes => th'[t].node = n
      BY <1>4, <1>6
    <3>4. ASSUME NEW m \in Held' PROVE m \in Held \/ (m = n /\ n \notin lock_nodes)
      <4>1. PICK u \in Threads : th'[u].pc \in Moving /\ th'[u].node = m
        BY DEF Held
      <4> QED BY <4>1, <3>2, <3>3, <1>6 DEF Held
    <3>5. ASSUME NEW m \in Held PROVE m \in Held'
      <4>1. PICK u \in Threads : th[u].pc \in Moving /\ th[u].node = m
        BY DEF Held
      <4> QED BY <4>1, <3>1, <1>6 DEF Held
    <3>6. ASSUME n \notin lock_nodes PROVE n \in Held'
      BY <3>2, <3>3, <3>6 DEF Held
    <3> QED BY <3>4, <3>5, <3>6
  <2>2. Waiting' = Waiting
    <3>1. \A m : m \in Waiting' <=> m \in Waiting
      BY <2>1, <1>1, <1>2, <1>6 DEF Waiting
    <3> QED BY <3>1 DEF Waiting
  <2> QED BY <2>2, <1>2, <1>6, <1>7 DEF RoundInv, Members, Full, Placed
<1>12. RoomOffered'
  <2>1. ASSUME NEW p \in Unlocked
        PROVE  \/ Full(p) \/ p \in ToSet(free_q)
               \/ \E u \in Threads : th'[u].pid = p /\ th'[u].pc \in {"check", "insert", "push"}
    <3>1. CASE Full(p) \/ p \in ToSet(free_q)
      BY <3>1
    <3>2. CASE \E u \in Threads : th[u].pid = p /\ th[u].pc \in {"check", "insert", "push"}
      BY <3>2, <1>2, <1>6
    <3> QED BY <3>1, <3>2, <1>2, <1>6 DEF RoomOffered
  <2> QED BY <2>1, <1>6, <1>7 DEF RoomOffered, Full
<1> QED BY <1>8, <1>9, <1>10, <1>11, <1>12 DEF PartInv

\* A count is a number.
LEMMA NeighborsType ==
  ASSUME TypeOK, Planned, NEW n \in Nodes, NEW p
  PROVE  Neighbors(n, p) \in Nat
<1>1. full_graph \in [Nodes -> Seq(Nodes)] /\ job \in Jobs /\ job.cut \in Nat
  BY PartitionAssumption DEF TypeOK, Planned
<1> DEFINE A == {i \in DOMAIN direct_graph[n] : id2pid[direct_graph[n][i]] = p}
           B == {e \in Nodes \X (1..job.cut) :
                   /\ e[2] \in DOMAIN direct_graph[e[1]] /\ direct_graph[e[1]][e[2]] = n
                   /\ id2pid[e[1]] = p}
<1>2. IsFiniteSet(B)
  <2> DEFINE k == job.cut
  <2>1. k \in Int /\ 1 \in Int
    BY <1>1
  <2> HIDE DEF k
  <2>2. IsFiniteSet(1..k)
    BY <2>1, FS_Interval
  <2>3. IsFiniteSet(Nodes \X (1..k))
    BY <2>2, Sizes, FS_Product
  <2>4. B \in SUBSET (Nodes \X (1..k))
    BY DEF k
  <2> HIDE DEF B
  <2> QED BY <2>3, <2>4, FS_Subset
<1>3. CASE n \in Nodes
  <2> DEFINE s == full_graph[n]
             m == IF job.cut < Len(s) THEN job.cut ELSE Len(s)
  <2>1. s \in Seq(Nodes) /\ Len(s) \in Nat
    BY <1>1, <1>3, LenProperties
  <2>2. m \in Nat /\ m <= Len(s) /\ direct_graph[n] = SubSeq(s, 1, m)
    BY <2>1, <1>1, <1>3 DEF direct_graph, Prefix
  <2> HIDE DEF s, m
  <2>3. DOMAIN direct_graph[n] = 1..m
    BY <2>1, <2>2
  <2>4. IsFiniteSet(A)
    <3>1. 1 \in Int /\ m \in Int
      BY <2>2
    <3>2. IsFiniteSet(1..m)
      BY <3>1, FS_Interval
    <3>3. A \in SUBSET (1..m)
      BY <2>3
    <3> HIDE DEF A
    <3> QED BY <3>2, <3>3, FS_Subset
  <2>5. Cardinality(A) \in Nat /\ Cardinality(B) \in Nat
    <3> HIDE DEF A, B
    <3> QED BY <2>4, <1>2, FS_CardinalityType
  <2>6. Neighbors(n, p) = Cardinality(A) + Cardinality(B)
    BY DEF Neighbors
  <2> HIDE DEF A, B
  <2> QED BY <2>5, <2>6
<1> QED BY <1>3

LEMMA CountPart ==
  ASSUME PartInv, NEW t \in Threads, Count(t)
  PROVE  PartInv'
<1> DEFINE n == th[t].node
           counts == {<<p, Neighbors(n, p)>> : p \in {q \in Pids : Neighbors(n, q) > 0}}
           locals == [Idle EXCEPT !.pc = "score", !.node = n, !.pcount = counts]
<1>1. /\ TypeOK /\ ThreadInv /\ Planned /\ th[t].pc = "count" /\ th[t] \in Locals
      /\ free_q \in Seq(Pids) /\ Idle \in Locals
  <2>1. TypeOK /\ ThreadInv /\ th[t].pc = "count"
    BY DEF PartInv, Count
  <2>2. Planned
    BY <2>1, IdleFacts DEF ThreadInv, Planned
  <2> QED BY <2>1, <2>2, LocalsOf
<1>2. n \in Nodes
  BY <1>1 DEF Locals
<1> HIDE DEF n
<1>3. counts \in SUBSET (Pids \X Nat)
  BY <1>1, <1>2, NeighborsType
<1>4. Goto(t, locals) /\ UNCHANGED <<layout, stream, free_q>>
  BY DEF Count, n
<1> HIDE DEF counts
<1>5. locals \in Locals /\ locals.pc = "score" /\ locals.node = th[t].node
  BY <1>1, <1>2, <1>3 DEF Locals, Places, Idle, n
<1> HIDE DEF locals
<1>6. \A p \in Pids :
        p \in ToSet(free_q) \/ (th[t].pid = p /\ th[t].pc \in Offering) =>
          Full(p) \/ p \in ToSet(free_q') \/ (locals.pid = p /\ locals.pc \in Offering)
  BY <1>1, <1>4 DEF Offering
<1>7. /\ UNCHANGED <<layout, stream>> /\ free_q' \in Seq(Pids) /\ th[t].pc # "idle"
      /\ locals.pc # "no_mutex" /\ locals.pc # "idle" /\ locals.pc \notin Offering
      /\ locals.pc \in Moving /\ th[t].pc \in Moving
  BY <1>1, <1>4, <1>5 DEF Moving, Offering
<1> QED BY <1>4, <1>5, <1>6, <1>7, QuietStep

LEMMA ScorePart ==
  ASSUME PartInv, NEW t \in Threads, Score(t)
  PROVE  PartInv'
<1>1. /\ TypeOK /\ ThreadInv /\ Planned /\ th[t].pc = "score" /\ th[t] \in Locals
      /\ free_q \in Seq(Pids) /\ UNCHANGED <<layout, stream, free_q>>
  <2>1. TypeOK /\ ThreadInv /\ th[t].pc = "score"
    BY DEF PartInv, Score
  <2>2. Planned
    BY <2>1, IdleFacts DEF ThreadInv, Planned
  <2> QED BY <2>1, <2>2, LocalsOf DEF Score
<1>2. PICK c \in th[t].pcount :
        LET score == c[2] * (C - Len(partition[c[1]]))
            rest == [th[t] EXCEPT !.pcount = @ \ {c}]
        IN  Goto(t, IF c[1] >= pmutex THEN [Idle EXCEPT !.pc = "no_mutex"]
                    ELSE IF score > rest.best THEN [rest EXCEPT !.pid = c[1], !.best = score]
                    ELSE rest)
  BY DEF Score
<1> DEFINE score == c[2] * (C - Len(partition[c[1]]))
           rest == [th[t] EXCEPT !.pcount = @ \ {c}]
           locals == IF score > rest.best THEN [rest EXCEPT !.pid = c[1], !.best = score]
                     ELSE rest
<1>3. c[1] \in Pids /\ c[2] \in Nat
  BY <1>1 DEF Locals
<1>4. ~(c[1] >= pmutex)
  <2>1. n_primary_partition = 0 /\ pmutex \in Nat /\ partition_number = pmutex
    BY <1>1, IdleFacts DEF PartInv, ThreadInv, SizeInv, Planned, TypeOK
  <2> QED BY <2>1, <1>3 DEF Pids
<1>5. Goto(t, locals)
  BY <1>2, <1>4
<1>6. score \in Int
  <2>1. Len(partition[c[1]]) \in Nat
    BY <1>1, <1>3, LenProperties DEF TypeOK, Planned
  <2>2. C \in Nat
    BY <1>1, Capacities
  <2> QED BY <2>1, <2>2, <1>3
<1> HIDE DEF score
<1>7. locals \in Locals /\ locals.pc = "score" /\ locals.node = th[t].node
  <2>1. rest \in Locals /\ rest.pc = "score" /\ rest.node = th[t].node
    BY <1>1 DEF Locals
  <2> HIDE DEF rest
  <2> QED BY <2>1, <1>3, <1>6 DEF Locals
<1> HIDE DEF locals
<1>8. \A p \in Pids :
        p \in ToSet(free_q) \/ (th[t].pid = p /\ th[t].pc \in Offering) =>
          Full(p) \/ p \in ToSet(free_q') \/ (locals.pid = p /\ locals.pc \in Offering)
  BY <1>1 DEF Offering
<1>9. /\ UNCHANGED <<layout, stream>> /\ free_q' \in Seq(Pids) /\ th[t].pc # "idle"
      /\ locals.pc # "no_mutex" /\ locals.pc # "idle" /\ locals.pc \notin Offering
      /\ locals.pc \in Moving /\ th[t].pc \in Moving
  BY <1>1, <1>7 DEF Moving, Offering
<1> QED BY <1>5, <1>7, <1>8, <1>9, QuietStep

\* A thread that goes on with another partition.
LEMMA GoesOn ==
  ASSUME NEW l \in Locals, NEW to \in Places
  PROVE  /\ LET r == [l EXCEPT !.pc = to, !.best = 0]
            IN  r \in Locals /\ r.pc = to /\ r.node = l.node /\ r.pid = l.pid
         /\ LET r == [l EXCEPT !.pc = to, !.pid = INF]
            IN  r \in Locals /\ r.pc = to /\ r.node = l.node
<1> DEFINE r == [l EXCEPT !.pc = to]
<1>1. r \in Locals /\ r.pc = to /\ r.node = l.node /\ r.pid = l.pid
  BY DEF Locals
<1>2. /\ [l EXCEPT !.pc = to, !.best = 0] = [r EXCEPT !.best = 0]
      /\ [l EXCEPT !.pc = to, !.pid = INF] = [r EXCEPT !.pid = INF]
  OBVIOUS
<1> HIDE DEF r
<1>3. [r EXCEPT !.best = 0] \in Locals /\ [r EXCEPT !.best = 0].pc = to
      /\ [r EXCEPT !.best = 0].node = l.node /\ [r EXCEPT !.best = 0].pid = l.pid
  BY <1>1 DEF Locals
<1>4. [r EXCEPT !.pid = INF] \in Locals /\ [r EXCEPT !.pid = INF].pc = to
      /\ [r EXCEPT !.pid = INF].node = l.node
  BY <1>1 DEF Locals
<1> QED BY <1>2, <1>3, <1>4

LEMMA SelectedPart ==
  ASSUME PartInv, NEW t \in Threads, Selected(t)
  PROVE  PartInv'
<1> DEFINE to == IF th[t].pid = INF THEN "pop" ELSE "insert"
           locals == [th[t] EXCEPT !.pc = to, !.best = 0]
<1>1. /\ TypeOK /\ th[t].pc = "score" /\ th[t] \in Locals /\ free_q \in Seq(Pids)
      /\ UNCHANGED <<layout, stream, free_q>> /\ Goto(t, locals)
  BY LocalsOf DEF PartInv, Selected
<1>2. to \in {"pop", "insert"} /\ (to = "insert" => th[t].pid \in Pids)
  BY <1>1 DEF Locals
<1> HIDE DEF to
<1>3. /\ locals \in Locals /\ locals.pc = to /\ locals.node = th[t].node
      /\ locals.pid = th[t].pid
  <2>1. to \in Places
    BY <1>2 DEF Places
  <2> QED BY <2>1, <1>1, GoesOn
<1> HIDE DEF locals
<1>4. \A p \in Pids :
        p \in ToSet(free_q) \/ (th[t].pid = p /\ th[t].pc \in Offering) =>
          Full(p) \/ p \in ToSet(free_q') \/ (locals.pid = p /\ locals.pc \in Offering)
  BY <1>1 DEF Offering
<1>5. /\ UNCHANGED <<layout, stream>> /\ free_q' \in Seq(Pids) /\ th[t].pc # "idle"
      /\ locals.pc # "no_mutex" /\ locals.pc # "idle"
      /\ locals.pc \in Offering => locals.pid \in Pids
      /\ locals.pc \in Moving /\ th[t].pc \in Moving
  BY <1>1, <1>2, <1>3 DEF Moving, Offering
<1> QED BY <1>1, <1>3, <1>4, <1>5, QuietStep

LEMMA PopFreePart ==
  ASSUME PartInv, NEW t \in Threads, PopFree(t)
  PROVE  PartInv'
<1> DEFINE locals == [th[t] EXCEPT !.pc = "check", !.pid = Head(free_q)]
<1>1. /\ TypeOK /\ th[t].pc = "pop" /\ th[t] \in Locals /\ free_q \in Seq(Pids)
      /\ free_q # <<>> /\ free_q' = Tail(free_q)
      /\ UNCHANGED <<layout, stream>> /\ Goto(t, locals)
  BY LocalsOf DEF PartInv, PopFree
<1>2. /\ Head(free_q) \in Pids /\ free_q' \in Seq(Pids)
      /\ \A p \in ToSet(free_q) : p = Head(free_q) \/ p \in ToSet(free_q')
  <2>1. /\ Head(free_q) \in Pids /\ free_q' \in Seq(Pids) /\ Len(free_q') = Len(free_q) - 1
        /\ \A i \in 1..Len(free_q') : free_q'[i] = free_q[i + 1]
        /\ Len(free_q) \in Nat /\ DOMAIN free_q = 1..Len(free_q)
        /\ DOMAIN free_q' = 1..Len(free_q')
    BY <1>1, HeadTailProperties, LenProperties
  <2>2. ASSUME NEW p \in ToSet(free_q), p # Head(free_q) PROVE p \in ToSet(free_q')
    <3>1. PICK i \in 1..Len(free_q) : free_q[i] = p
      BY <2>1 DEF ToSet
    <3>2. i # 1
      BY <3>1, <2>2, <1>1
    <3>3. i - 1 \in 1..Len(free_q') /\ free_q'[i - 1] = p
      <4>1. i - 1 \in 1..Len(free_q') /\ (i - 1) + 1 = i
        BY <3>1, <3>2, <2>1
      <4> QED BY <4>1, <3>1, <2>1
    <3> QED BY <3>3, <2>1 DEF ToSet
  <2> QED BY <2>1, <2>2
<1>3. /\ locals \in Locals /\ locals.pc = "check" /\ locals.node = th[t].node
      /\ locals.pid = Head(free_q)
  BY <1>1, <1>2 DEF Locals, Places
<1> HIDE DEF locals
<1>4. \A p \in Pids :
        p \in ToSet(free_q) \/ (th[t].pid = p /\ th[t].pc \in Offering) =>
          Full(p) \/ p \in ToSet(free_q') \/ (locals.pid = p /\ locals.pc \in Offering)
  BY <1>1, <1>2, <1>3 DEF Offering
<1>5. /\ UNCHANGED <<layout, stream>> /\ free_q' \in Seq(Pids) /\ th[t].pc # "idle"
      /\ locals.pc # "no_mutex" /\ locals.pc # "idle"
      /\ locals.pid \in Pids
      /\ locals.pc \in Moving /\ th[t].pc \in Moving
  BY <1>1, <1>2, <1>3 DEF Moving, Offering
<1> QED BY <1>1, <1>3, <1>4, <1>5, QuietStep

LEMMA CheckFreePart ==
  ASSUME PartInv, NEW t \in Threads, CheckFree(t)
  PROVE  PartInv'
<1> DEFINE to == IF Full(th[t].pid) THEN "pop" ELSE "insert"
           locals == [th[t] EXCEPT !.pc = to]
<1>1. /\ TypeOK /\ th[t].pc = "check" /\ th[t] \in Locals /\ free_q \in Seq(Pids)
      /\ UNCHANGED <<layout, stream, free_q>> /\ Goto(t, locals) /\ th[t].pid \in Pids
  BY LocalsOf DEF PartInv, CheckFree, ThreadInv
<1>2. to \in {"pop", "insert"} /\ (to = "pop" => Full(th[t].pid))
  OBVIOUS
<1> HIDE DEF to
<1>3. /\ locals \in Locals /\ locals.pc = to /\ locals.node = th[t].node
      /\ locals.pid = th[t].pid
  BY <1>1, <1>2 DEF Locals, Places
<1> HIDE DEF locals
<1>4. \A p \in Pids :
        p \in ToSet(free_q) \/ (th[t].pid = p /\ th[t].pc \in Offering) =>
          Full(p) \/ p \in ToSet(free_q') \/ (locals.pid = p /\ locals.pc \in Offering)
  BY <1>1, <1>2, <1>3 DEF Offering
<1>5. /\ UNCHANGED <<layout, stream>> /\ free_q' \in Seq(Pids) /\ th[t].pc # "idle"
      /\ locals.pc # "no_mutex" /\ locals.pc # "idle"
      /\ locals.pid \in Pids
      /\ locals.pc \in Moving /\ th[t].pc \in Moving
  BY <1>1, <1>2, <1>3 DEF Moving, Offering
<1> QED BY <1>1, <1>3, <1>4, <1>5, QuietStep

LEMMA PushFreePart ==
  ASSUME PartInv, NEW t \in Threads, PushFree(t)
  PROVE  PartInv'
<1>1. /\ TypeOK /\ th[t].pc = "push" /\ free_q \in Seq(Pids) /\ Idle \in Locals
      /\ free_q' = Append(free_q, th[t].pid)
      /\ UNCHANGED <<layout, stream>> /\ Goto(t, Idle) /\ th[t].pid \in Pids
  BY LocalsOf DEF PartInv, PushFree, ThreadInv
<1>2. /\ free_q' \in Seq(Pids) /\ ToSet(free_q) \subseteq ToSet(free_q')
      /\ th[t].pid \in ToSet(free_q')
  <2>1. /\ free_q' \in Seq(Pids) /\ Len(free_q') = Len(free_q) + 1 /\ Len(free_q) \in Nat
        /\ \A i \in 1..Len(free_q) : free_q'[i] = free_q[i]
        /\ free_q'[Len(free_q) + 1] = th[t].pid
        /\ DOMAIN free_q = 1..Len(free_q) /\ DOMAIN free_q' = 1..(Len(free_q) + 1)
    BY <1>1, AppendProperties, LenProperties
  <2>2. ASSUME NEW p \in ToSet(free_q) PROVE p \in ToSet(free_q')
    <3>1. PICK i \in 1..Len(free_q) : free_q[i] = p
      BY <2>1 DEF ToSet
    <3>2. i \in 1..(Len(free_q) + 1) /\ free_q'[i] = p
      BY <3>1, <2>1
    <3> QED BY <3>2, <2>1 DEF ToSet
  <2>3. th[t].pid \in ToSet(free_q')
    <3>1. Len(free_q) + 1 \in 1..(Len(free_q) + 1)
      BY <2>1
    <3> QED BY <3>1, <2>1 DEF ToSet
  <2> QED BY <2>1, <2>2, <2>3
<1>3. \A p \in Pids :
        p \in ToSet(free_q) \/ (th[t].pid = p /\ th[t].pc \in Offering) =>
          Full(p) \/ p \in ToSet(free_q') \/ (Idle.pid = p /\ Idle.pc \in Offering)
  BY <1>2
<1>4. /\ UNCHANGED <<layout, stream>> /\ free_q' \in Seq(Pids) /\ th[t].pc # "idle"
      /\ Idle.pc # "no_mutex" /\ Idle.pc \notin Offering
      /\ Idle.pc \notin Moving /\ th[t].pc \notin Moving
  BY <1>1, <1>2, IdleFacts DEF Moving, Offering
<1> QED BY <1>1, <1>3, <1>4, QuietStep

\* A node gets its place in a round, in a partition that is not locked.
LEMMA InsertedNode ==
  ASSUME PartInv, NEW t \in Threads, NEW locals \in Locals, Goto(t, locals),
         th[t].pc = "insert", NEW p, p = th[t].pid, ~Full(p),
         partition' = [partition EXCEPT ![p] = Append(@, th[t].node)],
         id2pid' = [id2pid EXCEPT ![th[t].node] = p],
         UNCHANGED <<stream, free_q>>,
         IF Len(partition[p]) + 1 = C THEN locals = Idle
         ELSE locals.pc = "push" /\ locals.pid = p
  PROVE  PartInv'
<1>1. /\ TypeOK /\ SizeInv /\ Planned /\ WithinCapacity /\ HomeInv /\ ThreadInv
      /\ MutexExists /\ RoundInv /\ RoomOffered /\ pc = "ldg" /\ pc' = "ldg"
      /\ UNCHANGED <<job, freq, full_graph, pmutex, partition_number, n_primary_partition,
                     filled_nodes, store_cnt, cur, vis, fill, lock_pids, lock_nodes, round,
                     C, Pids, Shared, Primaries, Secondary, Unlocked>>
      /\ n_primary_partition = 0 /\ Primaries = {} /\ Secondary = Nodes /\ Shared = Pids
      /\ th' \in [Threads -> Locals] /\ th'[t] = locals
      /\ \A u \in Threads : u # t => th'[u] = th[u]
      /\ C \in Nat \ {0} /\ n_primary_partition < Index.nd
  BY Going
<1> DEFINE n == th[t].node
           s == Append(partition[p], n)
<1>2. n \in Nodes /\ p \in Pids /\ th[t].pc \in Moving
  BY <1>1, LocalsOf DEF Locals, ThreadInv, Moving
<1>3. n \in Waiting /\ n \notin stream /\ n \notin lock_nodes
      /\ \A r \in Pids : n \notin ToSet(partition[r])
  <2>1. n \in Held
    BY <1>2 DEF Held
  <2>2. n \in Waiting
    BY <2>1, <1>1 DEF Waiting
  <2> QED BY <2>2, <1>1, <1>2 DEF RoundInv, ThreadInv, Members
<1> HIDE DEF n
<1>4. /\ partition \in [Pids -> Seq(Nodes)] /\ id2pid \in [Nodes -> Pids \cup {INF}]
      /\ partition # <<>>
  <2>1. partition \in [Pids -> Seq(Nodes)] /\ id2pid \in [Nodes -> Pids \cup {INF}]
    BY <1>1 DEF TypeOK, Planned
  <2>2. DOMAIN partition # {}
    BY <2>1, <1>2
  <2> QED BY <2>1, <2>2
<1>5. /\ s \in Seq(Nodes) /\ Len(s) = Len(partition[p]) + 1 /\ Len(s) <= C
      /\ ToSet(s) = ToSet(partition[p]) \cup {n}
      /\ IsInjective(s)
  <2>1. partition[p] \in Seq(Nodes) /\ Len(partition[p]) \in Nat
    BY <1>2, <1>4, LenProperties
  <2>2. Len(partition[p]) <= C /\ Len(partition[p]) # C
    BY <1>1, <1>2, <1>4 DEF WithinCapacity, Full
  <2>3. IsInjective(partition[p])
    BY <1>1, <1>2 DEF HomeInv
  <2>4. /\ s \in Seq(Nodes) /\ Len(s) = Len(partition[p]) + 1
        /\ ToSet(s) = ToSet(partition[p]) \cup {n}
        /\ IsInjective(s)
    BY <2>1, <2>3, <1>2, <1>3, Appended
  <2> QED BY <2>1, <2>2, <2>4, <1>1
<1> HIDE DEF s
<1>6. /\ partition' \in [Pids -> Seq(Nodes)] /\ partition'[p] = s
      /\ \A r \in Pids : r # p => partition'[r] = partition[r]
  <2>1. partition' = [partition EXCEPT ![p] = s]
    BY DEF n, s
  <2> QED BY <2>1, <1>2, <1>4, <1>5
<1>7. /\ id2pid' \in [Nodes -> Pids \cup {INF}] /\ id2pid'[n] = p
      /\ \A m \in Nodes : m # n => id2pid'[m] = id2pid[m]
  BY <1>2, <1>4 DEF n
<1>8. /\ TypeOK' /\ SizeInv' /\ MutexExists' /\ ReplicationInv' /\ FillInv' /\ SavedInv'
  <2>1. stream' \subseteq Nodes /\ free_q' \in Seq(Pids)
    BY <1>1 DEF TypeOK
  <2>2. locals.pc # "no_mutex"
    BY IdleFacts
  <2> QED BY <2>1, <2>2, <1>1, <1>6, <1>7, GoingKeeps
<1>9. \A r \in Pids : /\ ToSet(partition[r]) \subseteq ToSet(partition'[r])
                      /\ ToSet(partition'[r]) \subseteq ToSet(partition[r]) \cup {n}
                      /\ n \in ToSet(partition'[r]) => r = p
                      /\ IsInjective(partition'[r])
                      /\ Len(partition'[r]) <= C
  <2> SUFFICES ASSUME NEW r \in Pids
               PROVE  /\ ToSet(partition[r]) \subseteq ToSet(partition'[r])
                      /\ ToSet(partition'[r]) \subseteq ToSet(partition[r]) \cup {n}
                      /\ n \in ToSet(partition'[r]) => r = p
                      /\ IsInjective(partition'[r])
                      /\ Len(partition'[r]) <= C
    OBVIOUS
  <2>1. CASE r = p
    BY <2>1, <1>5, <1>6
  <2>2. CASE r # p
    BY <2>2, <1>1, <1>3, <1>4, <1>6 DEF HomeInv, WithinCapacity
  <2> QED BY <2>1, <2>2
<1>10. WithinCapacity'
  BY <1>1, <1>9 DEF WithinCapacity
<1>11. HomeInv'
  <2>1. ASSUME NEW r \in Pids, NEW m \in ToSet(partition'[r]) PROVE id2pid'[m] = r
    <3>1. CASE m = n
      BY <3>1, <2>1, <1>7, <1>9
    <3>2. CASE m # n
      <4>1. m \in ToSet(partition[r]) /\ m \in Nodes
        <5>1. m \in ToSet(partition[r])
          BY <3>2, <2>1, <1>9
        <5>2. partition[r] \in Seq(Nodes)
          BY <1>4
        <5> QED BY <5>1, <5>2, ElementOfSeq, LenProperties DEF ToSet
      <4> QED BY <4>1, <3>2, <1>1, <1>7 DEF HomeInv, Members
    <3> QED BY <3>1, <3>2
  <2> QED BY <2>1, <1>1, <1>9 DEF HomeInv, Members
<1>12. \A m : m \in Held' <=> m \in Held /\ m # n
  <2>1. th'[t].pc \notin Moving
    BY <1>1, IdleFacts DEF Moving
  <2>2. ASSUME NEW m \in Held' PROVE m \in Held /\ m # n
    <3>1. PICK u \in Threads : th'[u].pc \in Moving /\ th'[u].node = m
      BY DEF Held
    <3>2. u # t /\ th[u].pc \in Moving /\ th[u].node = m
      BY <3>1, <2>1, <1>1
    <3> QED BY <3>2, <1>1, <1>2 DEF Held, ThreadInv, n
  <2>3. ASSUME NEW m \in Held, m # n PROVE m \in Held'
    <3>1. PICK u \in Threads : th[u].pc \in Moving /\ th[u].node = m
      BY DEF Held
    <3>2. u # t
      BY <3>1, <2>3 DEF n
    <3> QED BY <3>1, <3>2, <1>1 DEF Held
  <2> QED BY <2>2, <2>3
<1>13. \A m : m \in Waiting' <=> m \in Waiting /\ m # n
  BY <1>1, <1>3, <1>12 DEF Waiting
<1>14. p \notin lock_pids
  BY <1>1, <1>2, <1>3 DEF RoundInv
<1>15. RoundInv'
  <2>1. ASSUME NEW m \in Nodes, m \notin Waiting' PROVE Placed(m)'
    <3>1. CASE m = n
      <4>1. id2pid'[m] \in Pids /\ m \in ToSet(partition'[id2pid'[m]])
        BY <3>1, <1>2, <1>5, <1>6, <1>7
      <4> QED BY <4>1, <1>1 DEF Placed, Members
    <3>2. CASE m # n
      <4>1. Placed(m)
        BY <3>2, <2>1, <1>1, <1>13 DEF RoundInv
      <4>2. id2pid'[m] = id2pid[m] /\ id2pid[m] \in Pids /\ m \in ToSet(partition'[id2pid[m]])
        BY <4>1, <3>2, <1>7, <1>9 DEF Placed, Members
      <4> QED BY <4>2, <1>1 DEF Placed, Members
    <3> QED BY <3>1, <3>2
  <2>2. ASSUME NEW m \in Waiting'
        PROVE  m \notin lock_nodes /\ \A r \in Pids : m \notin ToSet(partition'[r])
    BY <1>1, <1>9, <1>13 DEF RoundInv, Members
  <2>3. \A r \in lock_pids : /\ partition'[r] = partition[r]
                             /\ Members(r) \subseteq lock_nodes
                             /\ Full(r) \/ lock_nodes = Secondary
    BY <1>1, <1>6, <1>14 DEF RoundInv
  <2>4. \A r \in lock_pids' : /\ Members(r)' \subseteq lock_nodes'
                              /\ Full(r)' \/ lock_nodes' = Secondary'
    BY <2>3, <1>1 DEF Members, Full
  <2>5. \A m \in lock_nodes' : id2pid'[m] \in lock_pids'
    BY <1>1, <1>3, <1>7 DEF RoundInv
  <2>6. /\ lock_pids' \subseteq Shared' /\ lock_nodes' \subseteq Secondary'
        /\ Cardinality(Secondary' \ lock_nodes') <= Cardinality(Unlocked' \X (1..C'))
        /\ n_primary_partition' = 0
    BY <1>1 DEF RoundInv
  <2>7. \A m \in Waiting' : m \notin lock_nodes' /\ \A r \in Pids' : m \notin Members(r)'
    BY <2>2, <1>1 DEF Members
  <2> QED BY <2>1, <2>4, <2>5, <2>6, <2>7 DEF RoundInv
<1>16. ThreadInv'
  <2>1. th'[t].pc \notin Moving /\ (th'[t].pc \in Offering => th'[t].pid \in Pids)
        /\ (th'[t].pc = "idle" => th'[t] = Idle)
    BY <1>1, <1>2, IdleFacts DEF Moving, Offering
  <2>2. ASSUME NEW u \in Threads, th'[u].pc \in Moving
        PROVE  /\ th'[u].node \notin stream'
               /\ \A v \in Threads : th'[v].pc \in Moving /\ th'[v].node = th'[u].node => v = u
    BY <2>1, <2>2, <1>1 DEF ThreadInv
  <2>3. ASSUME NEW u \in Threads
        PROVE  /\ th'[u].pc \in {"check", "insert", "push"} => th'[u].pid \in Pids'
               /\ th'[u].pc = "idle" => th'[u] = Idle
    BY <2>1, <1>1 DEF ThreadInv, Offering
  <2>4. pc' = "ldg" /\ n_primary_partition' = 0
    BY <1>1
  <2> QED BY ONLY <2>2, <2>3, <2>4 DEF ThreadInv
<1>17. RoomOffered'
  <2>1. ASSUME NEW r \in Unlocked
        PROVE  \/ Len(partition'[r]) = C \/ r \in ToSet(free_q)
               \/ \E u \in Threads : th'[u].pid = r /\ th'[u].pc \in {"check", "insert", "push"}
    <3>0. r \in Pids
      BY <1>1, UnlockedFacts
    <3>1. CASE r = p
      BY <3>1, <1>1, <1>5, <1>6
    <3>2. CASE r # p
      <4>1. partition'[r] = partition[r] /\ th[t].pid # r
        BY <3>0, <3>2, <1>6
      <4>2. CASE \E u \in Threads : th[u].pid = r /\ th[u].pc \in {"check", "insert", "push"}
        BY <4>1, <4>2, <1>1
      <4>3. CASE Full(r) \/ r \in ToSet(free_q)
        BY <4>1, <4>3 DEF Full
      <4> QED BY <4>2, <4>3, <1>1 DEF RoomOffered
    <3> QED BY <3>1, <3>2
  <2> QED BY <2>1, <1>1 DEF RoomOffered, Full
<1> QED BY <1>8, <1>10, <1>11, <1>15, <1>16, <1>17 DEF PartInv

LEMMA InsertNodePart ==
  ASSUME PartInv, NEW t \in Threads, InsertNode(t)
  PROVE  PartInv'
<1> DEFINE again == [th[t] EXCEPT !.pc = "count", !.pid = INF]
           placed == IF Len(partition[th[t].pid]) + 1 = C THEN Idle
                     ELSE [th[t] EXCEPT !.pc = "push"]
<1>1. /\ TypeOK /\ ThreadInv /\ th[t].pc = "insert" /\ th[t] \in Locals /\ Idle \in Locals
      /\ free_q \in Seq(Pids) /\ UNCHANGED <<stream, free_q>> /\ th[t].pid \in Pids
  <2>1. TypeOK /\ ThreadInv /\ th[t].pc = "insert" /\ UNCHANGED <<stream, free_q>>
    BY DEF PartInv, InsertNode
  <2> QED BY <2>1, LocalsOf DEF ThreadInv
<1>2. ~(th[t].pid >= pmutex)
  <2>1. n_primary_partition = 0 /\ pmutex \in Nat /\ partition_number = pmutex
    BY <1>1, IdleFacts DEF PartInv, ThreadInv, SizeInv, Planned, TypeOK
  <2> QED BY <2>1, <1>1 DEF Pids
<1>3. CASE Full(th[t].pid)
  <2>1. Goto(t, again) /\ UNCHANGED layout
    BY <1>2, <1>3 DEF InsertNode
  <2>2. again \in Locals /\ again.pc = "count" /\ again.node = th[t].node
    <3>1. "count" \in Places
      BY DEF Places
    <3> QED BY <3>1, <1>1, GoesOn
  <2> HIDE DEF again
  <2>3. \A p \in Pids :
          p \in ToSet(free_q) \/ (th[t].pid = p /\ th[t].pc \in Offering) =>
            Full(p) \/ p \in ToSet(free_q') \/ (again.pid = p /\ again.pc \in Offering)
    BY <1>1, <1>3
  <2>4. /\ UNCHANGED <<layout, stream>> /\ free_q' \in Seq(Pids) /\ th[t].pc # "idle"
        /\ again.pc # "no_mutex" /\ again.pc # "idle" /\ again.pc \notin Offering
        /\ again.pc \in Moving /\ th[t].pc \in Moving
    BY <2>1, <2>2, <1>1 DEF Moving, Offering
  <2> QED BY <2>1, <2>2, <2>3, <2>4, QuietStep
<1>4. CASE ~Full(th[t].pid)
  <2> PICK p : p = th[t].pid
    OBVIOUS
  <2>1. /\ partition' = [partition EXCEPT ![p] = Append(@, th[t].node)]
        /\ id2pid' = [id2pid EXCEPT ![th[t].node] = p] /\ Goto(t, placed)
    BY <1>2, <1>4 DEF InsertNode
  <2>2. /\ placed \in Locals
        /\ IF Len(partition[p]) + 1 = C THEN placed = Idle
           ELSE placed.pc = "push" /\ placed.pid = p
    <3>1. [th[t] EXCEPT !.pc = "push"] \in Locals
      BY <1>1 DEF Locals, Places
    <3>2. [th[t] EXCEPT !.pc = "push"].pc = "push" /\ [th[t] EXCEPT !.pc = "push"].pid = p
      BY <1>1 DEF Locals
    <3> QED BY <3>1, <3>2, <1>1
  <2> HIDE DEF placed
  <2> QED BY <2>1, <2>2, <1>1, <1>4, InsertedNode
<1> QED BY <1>3, <1>4

\* Nobody waits for a partition with room that nobody will offer.  When all who
\* do not wait have finished, every partition that is not locked is full; the
\* node that waits would be one more than they and the locked ones leave.
LEMMA NobodyLeftWaiting == PartInv => SomebodyGoesOn
<1> SUFFICES ASSUME PartInv, pc = "ldg", NEW t \in Threads, th[t].pc = "pop", free_q = <<>>,
                    \A u \in Threads : th[u].pc \in {"idle", "pop"}
             PROVE  FALSE
  BY DEF SomebodyGoesOn
<1> DEFINE n == th[t].node
           L == Secondary \ lock_nodes
           S == L \ {n}
<1>1. /\ TypeOK /\ SizeInv /\ Planned /\ WithinCapacity /\ HomeInv /\ ThreadInv
      /\ RoundInv /\ RoomOffered
  BY DEF PartInv, Planned
<1>2. /\ n_primary_partition = 0 /\ Secondary = Nodes /\ Shared = Pids
      /\ n_primary_partition < Index.nd
  <2>1. n_primary_partition = 0
    BY <1>1 DEF ThreadInv
  <2> QED BY <2>1, Sizes DEF Primaries, Secondary, Shared, Pids
<1>3. n \in Nodes /\ n \in Waiting
  <2>1. n \in Held
    BY DEF Held, Moving
  <2> QED BY <2>1, <1>1, LocalsOf DEF Waiting, Locals
<1>4. n \in L /\ \A p \in Pids : n \notin Members(p)
  BY <1>1, <1>2, <1>3 DEF RoundInv
<1>5. \A p \in Unlocked : Full(p) /\ p \in Pids /\ p \notin lock_pids
  BY <1>1, SmallPartitions DEF RoomOffered, Unlocked
<1>6. \A p \in Unlocked :
        /\ partition[p] \in Seq(Nodes) /\ Len(partition[p]) = C /\ IsInjective(partition[p])
        /\ ToSet(partition[p]) \subseteq S
        /\ \A r \in Unlocked : ToSet(partition[p]) \cap ToSet(partition[r]) # {} => p = r
  <2> SUFFICES ASSUME NEW p \in Unlocked
               PROVE  /\ partition[p] \in Seq(Nodes) /\ Len(partition[p]) = C
                      /\ IsInjective(partition[p])
                      /\ ToSet(partition[p]) \subseteq S
                      /\ \A r \in Unlocked :
                           ToSet(partition[p]) \cap ToSet(partition[r]) # {} => p = r
    OBVIOUS
  <2>1. partition[p] \in Seq(Nodes) /\ Len(partition[p]) = C
    BY <1>1, <1>5 DEF TypeOK, Planned, Full
  <2>2. \A r \in Unlocked : /\ IsInjective(partition[r])
                            /\ \A m \in ToSet(partition[r]) : id2pid[m] = r
    BY <1>1, <1>2, <1>5 DEF HomeInv, Members
  <2>3. ASSUME NEW m \in ToSet(partition[p]) PROVE m \in S
    <3>1. m \in Nodes
      BY <2>1, <2>3, ElementOfSeq, LenProperties DEF ToSet
    <3>2. m \notin lock_nodes
      BY <2>2, <2>3, <1>1, <1>5 DEF RoundInv
    <3>3. m # n
      BY <2>3, <1>4, <1>5 DEF Members
    <3> QED BY <3>1, <3>2, <3>3, <1>2
  <2> QED BY <2>1, <2>2, <2>3
<1>7. IsFiniteSet(L) /\ IsFiniteSet(S) /\ Cardinality(S) = Cardinality(L) - 1
      /\ Cardinality(L) \in Nat
  <2>1. IsFiniteSet(L)
    BY <1>2, Sizes, FS_Difference
  <2> HIDE DEF L, n
  <2> QED BY <2>1, <1>4, FS_RemoveElement, FS_CardinalityType
<1>8. Cardinality(Unlocked \X (1..C)) <= Cardinality(S)
  <2> HIDE DEF S
  <2>1. C \in Nat
    BY <1>1, Capacities
  <2> QED BY <2>1, <1>6, <1>7, NodesBound
<1>9. Cardinality(L) <= Cardinality(Unlocked \X (1..C))
  BY <1>1 DEF RoundInv
<1>10. Cardinality(Unlocked \X (1..C)) \in Nat
  <2> DEFINE c == C
  <2>1. c \in Int /\ 1 \in Int
    BY <1>1, Capacities
  <2> HIDE DEF c
  <2>2. IsFiniteSet(1..c)
    BY <2>1, FS_Interval
  <2>3. IsFiniteSet(Unlocked \X (1..c))
    BY <2>2, <1>1, UnlockedFacts, FS_Product
  <2> QED BY <2>3, FS_CardinalityType DEF c
<1> HIDE DEF L, S
<1> QED BY <1>7, <1>8, <1>9, <1>10

\* A step that changes nothing.
LEMMA StutterPart == PartInv /\ UNCHANGED vars => PartInv'
<1> SUFFICES ASSUME PartInv, UNCHANGED vars PROVE PartInv'
  OBVIOUS
<1>1. UNCHANGED <<job, freq, full_graph, pmutex, partition_number, n_primary_partition,
                  partition, id2pid, filled_nodes, store_cnt, cur, vis, fill, lock_pids,
                  lock_nodes, round, stream, free_q, pc, th>>
  BY DEF vars, input, sizes, layout, replication, filling, locks, queues
<1>2. UNCHANGED <<C, Pids, Shared, Primaries, Secondary, Unlocked, Held, Waiting, init_stream,
                  Planned>>
  BY <1>1 DEF C, Pids, Shared, Primaries, Secondary, Unlocked, Held, Waiting, init_stream,
              Planned
<1>3. TypeOK' /\ WithinCapacity' /\ MutexExists' /\ RoomOffered'
  BY <1>1, <1>2 DEF PartInv, TypeOK, WithinCapacity, MutexExists, RoomOffered, Full
<1>4. SizeInv' /\ ReplicationInv' /\ HomeInv'
  BY <1>1, <1>2 DEF PartInv, SizeInv, ReplicationInv, HomeInv, Members
<1>5. FillInv'
  BY <1>1, <1>2 DEF PartInv, FillInv, FillAt, Visited, Streamed, LockedTo, Full, Members
<1>6. RoundInv' /\ ThreadInv' /\ SavedInv'
  BY <1>1, <1>2 DEF PartInv, RoundInv, ThreadInv, SavedInv, Full, Members, Placed
<1> QED BY <1>3, <1>4, <1>5, <1>6 DEF PartInv

LEMMA NextPart == PartInv /\ [Next]_vars => PartInv'
<1> SUFFICES ASSUME PartInv, [Next]_vars PROVE PartInv'
  OBVIOUS
<1>1. CASE main
  <2>1. CASE Load
    BY <2>1, LoadPart
  <2>2. CASE Plan
    BY <2>2, PlanPart
  <2>3. CASE Replicate
    BY <2>3, ReplicatePart
  <2>4. CASE FillNode
    BY <2>4, FillNodePart
  <2>5. CASE FillNeighbor
    BY <2>5, FillNeighborPart
  <2>6. CASE EndFill
    BY <2>6, EndFillPart
  <2>7. CASE StartRound
    BY <2>7, StartRoundPart
  <2>8. CASE EndRound
    BY <2>8, EndRoundPart
  <2>9. CASE Save
    BY <2>9, SavePart
  <2> QED BY <1>1, <2>1, <2>2, <2>3, <2>4, <2>5, <2>6, <2>7, <2>8, <2>9 DEF main
<1>2. ASSUME NEW t \in Threads, sync(t) PROVE PartInv'
  <2>1. CASE TakeNode(t)
    BY <2>1, TakeNodePart
  <2>2. CASE Count(t)
    BY <2>2, CountPart
  <2>3. CASE Score(t)
    BY <2>3, ScorePart
  <2>4. CASE Selected(t)
    BY <2>4, SelectedPart
  <2>5. CASE PopFree(t)
    BY <2>5, PopFreePart
  <2>6. CASE CheckFree(t)
    BY <2>6, CheckFreePart
  <2>7. CASE InsertNode(t)
    BY <2>7, InsertNodePart
  <2>8. CASE PushFree(t)
    BY <2>8, PushFreePart
  <2> QED BY <1>2, <2>1, <2>2, <2>3, <2>4, <2>5, <2>6, <2>7, <2>8 DEF sync
<1>3. CASE Stopped \/ UNCHANGED vars
  BY <1>3, StutterPart DEF Stopped
<1> QED BY <1>1, <1>2, <1>3 DEF Next

\* The inductive invariant of the partitioner holds in every state, whatever the
\* index, the command line, the frequency file and the number of threads.
THEOREM Invariance == Spec => []PartInv
<1>1. Init => PartInv
  BY InitPart
<1>2. PartInv /\ [Next]_vars => PartInv'
  BY NextPart
<1> QED BY <1>1, <1>2, PTL DEF Spec

\* Whatever the threads saw of a partition before they lock it, it never holds more
\* nodes than a page; one with room is offered or about to be; somebody goes on
\* while a thread waits for one; and the mutex that is locked exists (sync,
\* select_partition and getUnfilled of partitioner.h).
THEOREM PartitionsStayRight == Spec => []IInv
<1>1. PartInv => IInv
  BY NobodyLeftWaiting DEF PartInv, IInv
<1> QED BY <1>1, Invariance, PTL

\* A file that is saved names a partition that holds each node, and without
\* replication no other partition holds it, however often a node was moved
\* (graph_partition and save_partition of partitioner.h).  Where only some nodes
\* own a partition no file is saved: the program has crashed.
THEOREM SavedPartition == Spec => []Partitioned
<1>1. PartInv => Partitioned
  <2> SUFFICES ASSUME PartInv, pc = "saved" PROVE Partitioned
    BY DEF Partitioned
  <2>1. TypeOK /\ SizeInv /\ HomeInv /\ SavedInv /\ Planned
    BY DEF PartInv, Planned
  <2>2. \A n \in Nodes : id2pid[n] \in Pids /\ n \in ToSet(partition[id2pid[n]])
    BY <2>1 DEF SavedInv, Placed, Members
  <2>3. ASSUME job.scale = 1
        PROVE  \A p \in Pids : /\ IsInjective(partition[p])
                               /\ \A n \in ToSet(partition[p]) : id2pid[n] = p
    <3>1. n_primary_partition = 0
      BY <2>1, <2>3 DEF SizeInv
    <3>2. n_primary_partition < Index.nd /\ Shared = Pids
      BY <3>1, Sizes DEF Shared, Pids
    <3> QED BY <3>2, <2>1 DEF HomeInv, Members
  <2> QED BY <2>2, <2>3 DEF Partitioned
<1> QED BY <1>1, Invariance, PTL
=============================================================================
