------------------------ MODULE DupGraphSearchProofs ------------------------
(***************************************************************************)
(* Proofs about DupGraphSearch for every graph, replication of it, list    *)
(* size, beam, filter and order of completions.  A query that has issued   *)
(* no more reads than the ring has sector buffers expands every node with  *)
(* its own neighbours, and its traversal ends at a fixed point; the answer *)
(* is always the nearest of what was evaluated; and when the ring has room *)
(* for the beam, the search implements ReadPipeline, so that its ring is   *)
(* safe.                                                                   *)
(***************************************************************************)
EXTENDS DupGraphSearch, CandidateListProofs

LEMMA ConstantFacts ==
  /\ LSearch \in Nat \ {0} /\ BeamWidth \in Nat \ {0} /\ BeamWidth <= MaxReads
  /\ KSearch \in Nat \ {0} /\ KSearch <= LSearch
  /\ EmbNum \in Nat /\ EmbDen \in Nat \ {0} /\ EmbNum <= EmbDen /\ MaxReads \in Nat \ {0}
  /\ Nodes \subseteq Nat /\ 0 \in Nodes /\ IsFiniteSet(Nodes)
  /\ \A n \in Nodes : Nbrs[n] \in Seq(Nodes) /\ Copied[n] \in Seq(Nodes)
BY DupGraphAssumption DEF DupGraphAssumption
-----------------------------------------------------------------------------
(* The states of a search between two of its steps.                        *)

Pointers == [read : Nat, slot : Nat]
Loads == UNION {[D -> Pointers] : D \in SUBSET Nodes}

SearchState ==
  [retset : ListOver(Nodes, pq), visited : SUBSET Nodes, loaded : Loads, expand : Seq(Nodes)]

\* The list is neither empty nor too long, and keeps the nearest of the nodes seen.
Keeps(s, seen) ==
  /\ s \in SearchState
  /\ Len(s.retset) \in 1..LSearch
  /\ KeepsBest(s.retset, seen, pq)
Good(s) == Keeps(s, s.visited)

\* From s to t nodes were offered: what is new in the list is to be selected.
Grown(s, t) ==
  /\ s.visited \subseteq t.visited
  /\ t.loaded = s.loaded /\ t.expand = s.expand
  /\ \A i \in 1..Len(t.retset) :
       \/ t.retset[i].flag /\ t.retset[i].id \notin s.visited
       \/ \E j \in 1..Len(s.retset) : t.retset[i] = s.retset[j]

LEMMA GrownTransitive ==
  ASSUME NEW r, NEW s, NEW t, Grown(r, s), Grown(s, t)
  PROVE  Grown(r, t)
<1>1. \A i \in 1..Len(t.retset) :
        \/ t.retset[i].flag /\ t.retset[i].id \notin r.visited
        \/ \E j \in 1..Len(r.retset) : t.retset[i] = r.retset[j]
  BY DEF Grown
<1> QED BY <1>1 DEF Grown

\* A candidate is added to the list.
LEMMA AddKeeps ==
  ASSUME pq \in [Nodes -> Int], NEW s \in SearchState, NEW seen \in SUBSET Nodes,
         Keeps(s, seen), NEW m \in Nodes \ seen
  PROVE  LET list == add_to_retset(s.retset, Candidate(pq, m, TRUE))
         IN  /\ list \in ListOver(Nodes, pq) /\ Len(list) \in 1..LSearch
             /\ KeepsBest(list, seen \cup {m}, pq)
             /\ \A i \in 1..Len(list) : \/ list[i].id = m /\ list[i].flag
                                        \/ \E j \in 1..Len(s.retset) : list[i] = s.retset[j]
<1> DEFINE c == Candidate(pq, m, TRUE)
           list == add_to_retset(s.retset, c)
<1>1. /\ s.retset \in ListOver(Nodes, pq) /\ Len(s.retset) \in 1..LSearch
      /\ KeepsBest(s.retset, seen, pq)
  BY DEF Keeps, SearchState
<1>2. /\ c \in [id : Nodes, distance : Int, flag : BOOLEAN]
      /\ c.distance = pq[c.id] /\ c.id = m /\ c.flag
  BY DEF Candidate
<1>3. Sorted(s.retset) /\ LSearch \in Nat \ {0}
  BY <1>1, ConstantFacts DEF KeepsBest, Sorted
<1> HIDE DEF c, list
<1>4. /\ list \in ListOver(Nodes, pq) /\ Len(list) \in 1..LSearch
      /\ \A i \in 1..Len(list) : list[i] = c \/ \E j \in 1..Len(s.retset) : list[i] = s.retset[j]
  BY <1>1, <1>2, <1>3, AddKeepsList DEF list
<1>5. KeepsBest(list, seen \cup {m}, pq)
  BY <1>1, <1>2, <1>3, AddKeepsBest DEF list
<1> QED BY <1>2, <1>4, <1>5 DEF list, c

\* Offering one neighbour, and what CandidateListProofs knows of the loop over them.
OfferNbr(s, m) == Offered(s, m, pq)
OfferFold == INSTANCE CandidateListProofs WITH Op <- OfferNbr

\* Offering a node.
LEMMA OfferKeeps ==
  ASSUME pq \in [Nodes -> Int], NEW s, Good(s), NEW m \in Nodes
  PROVE  /\ Good(OfferNbr(s, m)) /\ Grown(s, OfferNbr(s, m))
         /\ m \in OfferNbr(s, m).visited
<1>1. s \in SearchState /\ Keeps(s, s.visited)
  BY DEF Good, Keeps
<1>2. CASE m \in s.visited
  <2>1. OfferNbr(s, m) = s
    BY <1>2 DEF OfferNbr, Offered
  <2> QED BY <2>1, <1>2 DEF Grown
<1>3. CASE m \notin s.visited
  <2> DEFINE list == add_to_retset(s.retset, Candidate(pq, m, TRUE))
             t == OfferNbr(s, m)
  <2>1. s.visited \in SUBSET Nodes /\ s.loaded \in Loads /\ s.expand \in Seq(Nodes)
    BY <1>1 DEF SearchState
  <2>2. t = [s EXCEPT !.visited = @ \cup {m}, !.retset = add_to_retset(@, Candidate(pq, m, TRUE))]
    BY Zenon, <1>3 DEF OfferNbr, Offered
  <2>3. t = [retset |-> list, visited |-> s.visited \cup {m}, loaded |-> s.loaded,
             expand |-> s.expand]
    BY <2>2, <1>1 DEF SearchState
  <2>4. /\ list \in ListOver(Nodes, pq) /\ Len(list) \in 1..LSearch
        /\ KeepsBest(list, s.visited \cup {m}, pq)
        /\ \A i \in 1..Len(list) : \/ list[i].id = m /\ list[i].flag
                                   \/ \E j \in 1..Len(s.retset) : list[i] = s.retset[j]
    <3> HIDE DEF list
    <3>1. m \in Nodes \ s.visited
      BY <1>3
    <3> QED BY <1>1, <2>1, <3>1, AddKeeps DEF list
  <2> HIDE DEF list
  <2>5. /\ t.retset = list /\ t.visited = s.visited \cup {m} /\ t.loaded = s.loaded
        /\ t.expand = s.expand
    BY <2>3
  <2>6. t \in SearchState
    BY <2>1, <2>3, <2>4 DEF SearchState
  <2> HIDE DEF t
  <2>7. Good(t)
    BY <2>4, <2>5, <2>6 DEF Good, Keeps
  <2>8. Grown(s, t) /\ m \in t.visited
    BY <1>3, <2>4, <2>5 DEF Grown
  <2> QED BY <2>7, <2>8 DEF t
<1> QED BY <1>2, <1>3

\* Offering one node after the other.
LEMMA OfferAllKeeps ==
  ASSUME pq \in [Nodes -> Int], NEW s, Good(s), NEW q \in Seq(Nodes)
  PROVE  LET t == Offer(s, q, pq)
         IN  Good(t) /\ Grown(s, t) /\ ToSet(q) \subseteq t.visited
<1> DEFINE k == Len(q)
           S == [i \in 0..k |->
                  {t \in SearchState : /\ Good(t) /\ Grown(s, t)
                                       /\ \A j \in 1..i : q[j] \in t.visited}]
<1>1. k \in Nat /\ DOMAIN q = 1..k /\ \A i \in 1..k : q[i] \in Nodes
  BY LenProperties, ElementOfSeq
<1>2. s \in S[0]
  BY <1>1 DEF Good, Keeps, Grown
<1>3. ASSUME NEW i \in 1..k, NEW t \in S[i - 1] PROVE OfferNbr(t, q[i]) \in S[i]
  <2> DEFINE u == OfferNbr(t, q[i])
  <2>1. i - 1 \in 0..k /\ i \in 0..k /\ q[i] \in Nodes
    BY <1>1
  <2>2. Good(t) /\ Grown(s, t) /\ \A j \in 1..(i - 1) : q[j] \in t.visited
    BY <2>1
  <2>3. Good(u) /\ Grown(t, u) /\ q[i] \in u.visited
    BY <2>1, <2>2, OfferKeeps
  <2> HIDE DEF u
  <2>4. u \in SearchState /\ Grown(s, u)
    BY <2>2, <2>3, GrownTransitive DEF Good, Keeps
  <2>5. \A j \in 1..i : q[j] \in u.visited
    BY <2>2, <2>3 DEF Grown
  <2>6. u \in S[i]
    BY ONLY <2>1, <2>3, <2>4, <2>5 DEF S
  <2> QED BY <2>6 DEF u
<1> HIDE DEF S, k
<1>4. OfferFold!FoldLeft(OfferNbr, s, q) \in S[k]
  BY <1>1, <1>2, <1>3, OfferFold!FoldKeeps
<1>5. Offer(s, q, pq) = OfferFold!FoldLeft(OfferNbr, s, q)
  BY Zenon DEF Offer, OfferNbr, FoldLeft, MapThenFoldSet, Max, OfferFold!FoldLeft,
               OfferFold!MapThenFoldSet, OfferFold!Max
<1> DEFINE t == Offer(s, q, pq)
<1> HIDE DEF t
<1>6. t \in S[k]
  BY <1>4, <1>5 DEF t
<1>7. Good(t) /\ Grown(s, t) /\ \A j \in 1..k : q[j] \in t.visited
  <2>1. k \in 0..k
    BY <1>1
  <2>2. S[k] = {u \in SearchState : /\ Good(u) /\ Grown(s, u)
                                    /\ \A j \in 1..k : q[j] \in u.visited}
    BY ONLY <2>1 DEF S
  <2> QED BY ONLY <1>6, <2>2
<1>8. ToSet(q) = {q[i] : i \in 1..k}
  BY <1>1 DEF ToSet
<1> QED BY <1>7, <1>8 DEF t
-----------------------------------------------------------------------------
(* The invariant.                                                          *)

TypeOK ==
  /\ pc \in Traversal \cup {"refine", "embed", "drain"} \cup Refined
  /\ pq \in [Nodes -> Int] /\ exact \in [Nodes -> Int] /\ IsInjective(exact)
  /\ retset \in ListOver(Nodes, pq) /\ visited \subseteq Nodes /\ page_visited \subseteq Nodes
  /\ full_retset \in [Nodes -> Nat] /\ loaded \in Loads
  /\ frontier \in Seq(Nodes) /\ flying \subseteq 1..Len(frontier)
  /\ sector_buffers \in Seq(Nat) /\ cached_node \in Seq([id : Nodes, ptr : Pointers])
  /\ n_io_in_q \in Nat /\ n_proc_in_q \in Nat /\ n_cached_in_q \in Nat
  /\ embedding_search_L \in Nat /\ l_idx \in Nat /\ n_ops \in Nat

\* The list is empty before the query starts, and never after; it keeps the
\* nearest of the nodes seen.
ListInv ==
  /\ IF pc = "start"
       THEN retset = <<>> /\ visited = {} /\ page_visited = {} /\ cached_node = <<>>
     ELSE Len(retset) \in 1..LSearch
  /\ KeepsBest(retset, visited, pq)

\* The counters count, and nothing is left of the traversal when it ends.
ReadsInv ==
  /\ \A i \in 1..Len(sector_buffers) : sector_buffers[i] \in 1..Len(frontier)
  /\ pc \in Traversal => /\ n_io_in_q = Cardinality(flying)
                         /\ n_proc_in_q = Len(sector_buffers)
                         /\ n_cached_in_q = Len(cached_node)
  /\ pc \notin Traversal => sector_buffers = <<>>
  /\ pc = "drain" => n_ops = Cardinality(flying)
  /\ pc \in {"start", "refine", "embed"} \cup Refined => flying = {}

\* The pointer leads into the page of a read, to the copy for n.
RightPointer(n, ptr) ==
  /\ ptr.read \in 1..Len(frontier)
  /\ ptr.slot \in 1..Len(Copied[frontier[ptr.read]])
  /\ Copied[frontier[ptr.read]][ptr.slot] = n

\* Every pointer was right when it was made.
PointerInv ==
  /\ \A n \in DOMAIN loaded : RightPointer(n, loaded[n])
  /\ \A i \in 1..Len(cached_node) :
       cached_node[i].ptr = InMemory \/ RightPointer(cached_node[i].id, cached_node[i].ptr)

Expanded(n) == ToSet(Nbrs[n]) \subseteq visited

\* The page of the node was read, but has not been looked at yet.
Pending(n) ==
  \E t \in 1..Len(frontier) :
    /\ frontier[t] = n
    /\ t \in flying \/ \E i \in 1..Len(sector_buffers) : sector_buffers[i] = t

\* Every node whose page was read waits for it or is expanded; a candidate that
\* is no longer to be selected is expanded, or waits to be, from a copy or with
\* its page.
TraversalInv ==
  /\ pc \in Traversal /\ FewReads =>
       /\ \A n \in page_visited : Pending(n) \/ Expanded(n)
       /\ \A i \in 1..Len(retset) :
            \/ retset[i].flag \/ Expanded(retset[i].id)
            \/ \E j \in 1..Len(cached_node) : cached_node[j].id = retset[i].id
            \/ retset[i].id \in page_visited
  /\ TraversalClosed

\* Every node whose page was read waits for it or is evaluated; a candidate that
\* was looked at is evaluated, or its page was read.
RefineInv ==
  /\ \A n \in page_visited : Pending(n) \/ full_retset[n] > 0
  /\ pc \in {"embed", "drain"} =>
       \A i \in 1..Len(retset) : i <= l_idx =>
         full_retset[retset[i].id] > 0 \/ retset[i].id \in page_visited
  /\ AnswerNearest

Inv == TypeOK /\ ListInv /\ ReadsInv /\ PointerInv /\ TraversalInv /\ RefineInv
-----------------------------------------------------------------------------
(* Pointers.                                                               *)

\* A set of numbers up to n that is not empty has a greatest element.
LEMMA Greatest ==
  ASSUME NEW n \in Nat, NEW T \in SUBSET (1..n), T # {}
  PROVE  \E x \in T : \A y \in T : y <= x
<1> DEFINE U == {n - y : y \in T}
<1>1. U \subseteq Nat /\ U # {}
  <2>1. \A y \in T : n - y \in Nat
    OBVIOUS
  <2> QED BY <2>1
<1>2. PICK u \in U : \A v \in U : u <= v
  <2> HIDE DEF U
  <2> QED BY <1>1, Least
<1>3. PICK x \in T : u = n - x
  BY <1>2
<1>4. \A y \in T : n - y \in U
  OBVIOUS
<1>5. ASSUME NEW y \in T PROVE y <= x
  <2>1. n - x <= n - y
    BY <1>2, <1>3, <1>4
  <2> QED BY <2>1
<1> QED BY <1>5

\* Two numbers that differ by less than d have different remainders.
LEMMA Remainders ==
  ASSUME NEW d \in Nat \ {0}, NEW x \in Nat, NEW y \in Nat,
         x <= y, y < x + d, x % d = y % d
  PROVE  x = y
<1> DEFINE p == x \div d
           q == y \div d
           r == x % d
<1>1. /\ p \in Int /\ q \in Int /\ r \in Int
      /\ x = d * p + r /\ y = d * q + r
  <2>1. \A z \in Nat : z \div d \in Int /\ z % d \in Int /\ z = d * (z \div d) + (z % d)
    BY SMT
  <2> QED BY <2>1
<1> HIDE DEF p, q, r
<1>2. q - p \in Int /\ y - x = d * (q - p)
  BY <1>1, SMT
<1>3. q - p <= 0
  <2>1. ASSUME NEW k \in Nat, q - p = k + 1 PROVE FALSE
    <3>1. d * (k + 1) = d * k + d /\ d * k \in Nat
      BY SMT
    <3> QED BY <1>2, <2>1, <3>1
  <2>2. ~(q - p <= 0) => \E k \in Nat : q - p = k + 1
    <3>1. ~(q - p <= 0) => q - p - 1 \in Nat /\ q - p = (q - p - 1) + 1
      BY <1>2, <1>1
    <3> QED BY <3>1
  <2> QED BY <2>1, <2>2
<1>4. q - p >= 0
  <2>1. ASSUME NEW k \in Nat, p - q = k + 1 PROVE FALSE
    <3>1. d * (q - p) = -(d * k + d) /\ d * k \in Nat
      BY <2>1, <1>1, SMT
    <3> QED BY <1>2, <3>1
  <2>2. ~(q - p >= 0) => \E k \in Nat : p - q = k + 1
    <3>1. ~(q - p >= 0) => p - q - 1 \in Nat /\ p - q = (p - q - 1) + 1
      BY <1>2, <1>1
    <3> QED BY <3>1
  <2> QED BY <2>1, <2>2
<1>5. q - p = 0
  BY <1>2, <1>3, <1>4
<1>6. d * 0 = 0
  BY SMT
<1> QED BY <1>2, <1>5, <1>6

\* A buffer holds the page of a node; that of the read itself until the ring has
\* gone round.
LEMMA ContentFacts ==
  ASSUME frontier \in Seq(Nodes), NEW t \in 1..Len(frontier)
  PROVE  /\ Content(t) \in Nodes
         /\ Len(frontier) < t + MaxReads => Content(t) = frontier[t]
<1> DEFINE users == {u \in DOMAIN frontier : u % MaxReads = t % MaxReads}
           Latest(u) == \A v \in users : v <= u
           last == CHOOSE u \in users : Latest(u)
<1>1. Len(frontier) \in Nat /\ DOMAIN frontier = 1..Len(frontier)
  BY LenProperties
<1>2. users \in SUBSET (1..Len(frontier)) /\ t \in users
  BY <1>1
<1>3. last \in users /\ Latest(last)
  <2> HIDE DEF users
  <2>1. \E u \in users : Latest(u)
    BY <1>1, <1>2, Greatest
  <2> QED BY <2>1
<1>4. Content(t) = frontier[last]
  BY Zenon DEF Content
<1> HIDE DEF last
<1>5. Content(t) \in Nodes
  BY <1>2, <1>3, <1>4, ElementOfSeq
<1>6. ASSUME Len(frontier) < t + MaxReads PROVE last = t
  <2>1. /\ t \in Nat /\ last \in Nat /\ t <= last /\ last <= Len(frontier)
        /\ t % MaxReads = last % MaxReads
    BY <1>1, <1>2, <1>3
  <2>2. MaxReads \in Nat \ {0} /\ last < t + MaxReads
    BY <1>1, <1>6, <2>1, ConstantFacts
  <2> QED BY ONLY <2>1, <2>2, Remainders
<1> QED BY <1>4, <1>5, <1>6

\* What is found through a pointer that was right: neighbours, and those of the
\* node itself while the buffer has not been used again.
LEMMA NbrsAtFacts ==
  ASSUME frontier \in Seq(Nodes), NEW n \in Nodes, NEW ptr \in Pointers,
         ptr = InMemory \/ RightPointer(n, ptr)
  PROVE  /\ NbrsAt(n, ptr) \in Seq(Nodes)
         /\ StillThere(ptr) => NbrsAt(n, ptr) = Nbrs[n]
         /\ FewReads => StillThere(ptr)
<1>1. CASE ptr = InMemory
  BY <1>1, ConstantFacts DEF NbrsAt, StillThere
<1>2. CASE ptr # InMemory
  <2> DEFINE page == Copied[Content(ptr.read)]
  <2>1. RightPointer(n, ptr)
    BY <1>2
  <2>2. /\ Content(ptr.read) \in Nodes
        /\ StillThere(ptr) => Content(ptr.read) = frontier[ptr.read]
    BY <1>2, <2>1, ContentFacts DEF RightPointer, StillThere
  <2>3. page \in Seq(Nodes) /\ ptr.slot \in Nat /\ ptr.slot >= 1 /\ Len(page) \in Nat
    <3>1. page \in Seq(Nodes)
      BY <2>2, ConstantFacts
    <3>2. ptr.slot \in 1..Len(Copied[frontier[ptr.read]]) /\ ptr.slot \in Nat
      BY <2>1 DEF RightPointer, Pointers
    <3> HIDE DEF page
    <3>3. ptr.slot >= 1
      BY <3>2
    <3> QED BY <3>1, <3>2, <3>3, LenProperties
  <2>4. NbrsAt(n, ptr) = IF ptr.slot <= Len(page) THEN Nbrs[page[ptr.slot]] ELSE <<>>
    BY <1>2 DEF NbrsAt
  <2>5. ptr.slot <= Len(page) => page[ptr.slot] \in Nodes
    <3> HIDE DEF page
    <3>1. ptr.slot <= Len(page) => ptr.slot \in 1..Len(page)
      BY <2>3
    <3> QED BY <3>1, <2>3, ElementOfSeq
  <2>6. StillThere(ptr) => page[ptr.slot] = n /\ ptr.slot <= Len(page)
    BY <2>1, <2>2, <2>3 DEF RightPointer
  <2> HIDE DEF page
  <2>7. NbrsAt(n, ptr) \in Seq(Nodes)
    <3>1. CASE ptr.slot <= Len(page)
      BY <3>1, <2>4, <2>5, ConstantFacts
    <3>2. CASE ~(ptr.slot <= Len(page))
      <4>1. <<>> \in Seq(Nodes)
        BY EmptySeq
      <4> QED BY <3>2, <2>4, <4>1
    <3> QED BY <3>1, <3>2
  <2>8. FewReads => StillThere(ptr)
    <3>1. Len(frontier) \in Nat /\ ptr.read \in 1..Len(frontier)
      BY <2>1, LenProperties DEF RightPointer
    <3> QED BY <3>1, ConstantFacts DEF FewReads, StillThere
  <2> QED BY <2>4, <2>6, <2>7, <2>8
<1> QED BY <1>1, <1>2

\* Loads are known by their nodes and pointers.
LEMMA LoadsFacts ==
  ASSUME NEW f
  PROVE  f \in Loads <=> /\ f = [n \in DOMAIN f |-> f[n]] /\ DOMAIN f \subseteq Nodes
                         /\ \A n \in DOMAIN f : f[n] \in Pointers
<1>1. ASSUME f \in Loads
      PROVE  /\ f = [n \in DOMAIN f |-> f[n]] /\ DOMAIN f \subseteq Nodes
             /\ \A n \in DOMAIN f : f[n] \in Pointers
  <2>1. PICK D \in SUBSET Nodes : f \in [D -> Pointers]
    BY <1>1 DEF Loads
  <2> QED BY <2>1
<1>2. ASSUME /\ f = [n \in DOMAIN f |-> f[n]] /\ DOMAIN f \subseteq Nodes
             /\ \A n \in DOMAIN f : f[n] \in Pointers
      PROVE  f \in Loads
  <2>1. f \in [DOMAIN f -> Pointers] /\ DOMAIN f \in SUBSET Nodes
    BY <1>2
  <2> QED BY <2>1 DEF Loads
<1> QED BY <1>1, <1>2

\* Remembering the copies of a page makes right pointers and keeps the old.
LEMMA LoadKeeps ==
  ASSUME frontier \in Seq(Nodes), NEW t \in 1..Len(frontier), loaded \in Loads,
         \A n \in DOMAIN loaded : RightPointer(n, loaded[n])
  PROVE  /\ Load(t) \in Loads
         /\ \A n \in DOMAIN Load(t) : RightPointer(n, Load(t)[n])
<1> DEFINE page == Copied[frontier[t]]
           Is(n, j) == page[j] = n /\ \A i \in 2..(j - 1) : page[i] # n
           Slot(n) == CHOOSE j \in 2..Len(page) : Is(n, j)
           new == {page[j] : j \in 2..Len(page)} \ (MemGraph \cup DOMAIN loaded)
           f == [n \in DOMAIN loaded \cup new |->
                   IF n \in DOMAIN loaded THEN loaded[n] ELSE [read |-> t, slot |-> Slot(n)]]
<1>1. page \in Seq(Nodes) /\ Len(page) \in Nat /\ t \in Nat
  <2>1. frontier[t] \in Nodes
    BY ElementOfSeq
  <2>2. page \in Seq(Nodes)
    BY <2>1, ConstantFacts
  <2>3. Len(frontier) \in Nat
    BY LenProperties
  <2> HIDE DEF page
  <2> QED BY <2>2, <2>3, LenProperties
<1>2. Load(t) = f
  BY Zenon DEF Load
<1>3. ASSUME NEW n \in new PROVE Slot(n) \in 2..Len(page) /\ page[Slot(n)] = n /\ n \in Nodes
  <2> DEFINE T == {j \in 2..Len(page) : page[j] = n}
  <2>1. T \subseteq Nat /\ T # {}
    OBVIOUS
  <2>2. PICK j \in T : \A i \in T : j <= i
    <3> HIDE DEF T
    <3> QED BY <2>1, Least
  <2>3. j \in 2..Len(page) /\ page[j] = n /\ \A i \in 2..(j - 1) : page[i] # n
    <3> HIDE DEF page
    <3>1. j \in 2..Len(page) /\ page[j] = n
      BY <2>2
    <3>2. ASSUME NEW i \in 2..(j - 1), page[i] = n PROVE FALSE
      <4>1. i \in 2..Len(page) /\ i < j /\ j \in Int /\ i \in Int
        BY <3>1, <3>2, <1>1
      <4>2. i \in T
        BY <4>1, <3>2
      <4>3. j <= i
        BY <4>2, <2>2
      <4> QED BY <4>1, <4>3
    <3> QED BY <3>1, <3>2
  <2>4. \E i \in 2..Len(page) : Is(n, i)
    BY <2>3
  <2> HIDE DEF Is, page
  <2>5. Slot(n) \in 2..Len(page) /\ Is(n, Slot(n))
    BY <2>4
  <2> HIDE DEF Slot
  <2>6. Slot(n) \in 1..Len(page)
    BY <2>5, <1>1
  <2>7. page[Slot(n)] \in Nodes
    BY <2>6, <1>1, ElementOfSeq
  <2> QED BY <2>5, <2>7 DEF Is
<1> HIDE DEF Slot, new
<1>4. /\ DOMAIN f = DOMAIN loaded \cup new
      /\ \A n \in DOMAIN loaded : f[n] = loaded[n]
      /\ \A n \in new : n \notin DOMAIN loaded => f[n] = [read |-> t, slot |-> Slot(n)]
  OBVIOUS
<1>5. f = [n \in DOMAIN f |-> f[n]]
  OBVIOUS
<1> HIDE DEF f
<1>6. ASSUME NEW n \in new, n \notin DOMAIN loaded
      PROVE  f[n] \in Pointers /\ RightPointer(n, f[n])
  <2>1. f[n] = [read |-> t, slot |-> Slot(n)] /\ Slot(n) \in Nat /\ Slot(n) \in 1..Len(page)
    BY <1>1, <1>3, <1>4, <1>6
  <2> QED BY <2>1, <1>1, <1>3 DEF Pointers, RightPointer
<1>7. DOMAIN loaded \subseteq Nodes /\ \A n \in DOMAIN loaded : loaded[n] \in Pointers
  BY LoadsFacts
<1>8. \A n \in DOMAIN f : f[n] \in Pointers /\ RightPointer(n, f[n])
  BY <1>4, <1>6, <1>7
<1>9. DOMAIN f \subseteq Nodes
  BY <1>3, <1>4, <1>7
<1>10. f \in Loads
  BY <1>5, <1>8, <1>9, LoadsFacts
<1> QED BY <1>2, <1>8, <1>10
-----------------------------------------------------------------------------
(* What processing makes of the search state.                              *)

\* The loop that looks for neighbours not visited yet.
UnseenFold == INSTANCE CandidateListProofs WITH Op <- TakeUnseen

\* The neighbours that are taken had not been seen, and are different; none that
\* had not been seen is missing.
LEMMA FreshFacts ==
  ASSUME NEW s, s.visited \in SUBSET Nodes, NEW q \in Seq(Nodes)
  PROVE  LET f == Fresh(s, q)
         IN  /\ f \in Seq(Nodes) /\ ToSet(q) \subseteq s.visited \cup ToSet(f)
             /\ \A i \in 1..Len(f) : f[i] \notin s.visited
             /\ \A i, j \in 1..Len(f) : i # j => f[i] # f[j]
<1> DEFINE V == s.visited
           A == [visited : SUBSET Nodes, ids : Seq(Nodes)]
           Is(a) == /\ a.visited = V \cup ToSet(a.ids)
                    /\ \A x \in 1..Len(a.ids) : a.ids[x] \notin V
                    /\ \A x, y \in 1..Len(a.ids) : x # y => a.ids[x] # a.ids[y]
           k == Len(q)
           S == [i \in 0..k |-> {a \in A : Is(a) /\ \A j \in 1..i : q[j] \in a.visited}]
           start == [visited |-> V, ids |-> <<>>]
<1>1. k \in Nat /\ DOMAIN q = 1..k /\ \A i \in 1..k : q[i] \in Nodes
  BY LenProperties, ElementOfSeq
<1>2. start \in S[0]
  <2>1. <<>> \in Seq(Nodes) /\ Len(<<>>) = 0 /\ ToSet(<<>>) = {}
    BY EmptySeq DEF ToSet
  <2>2. start \in A /\ start.visited = V /\ start.ids = <<>>
    BY <2>1
  <2> HIDE DEF start, A
  <2>3. Is(start)
    BY <2>1, <2>2
  <2> HIDE DEF Is
  <2> QED BY <1>1, <2>2, <2>3
<1>3. ASSUME NEW i \in 1..k, NEW a \in S[i - 1] PROVE TakeUnseen(a, q[i]) \in S[i]
  <2> DEFINE m == q[i]
             b == TakeUnseen(a, m)
  <2>1. i - 1 \in 0..k /\ i \in 0..k /\ m \in Nodes
    BY <1>1
  <2>2. a \in A /\ Is(a) /\ \A j \in 1..(i - 1) : q[j] \in a.visited
    BY <2>1
  <2>3. b \in A /\ Is(b) /\ m \in b.visited /\ a.visited \subseteq b.visited
    <3>1. CASE m \in a.visited
      <4>1. b = a
        BY <3>1 DEF TakeUnseen
      <4> HIDE DEF A, Is, b, m
      <4> QED BY <4>1, <3>1, <2>2
    <3>2. CASE m \notin a.visited
      <4> DEFINE ids == Append(a.ids, m)
      <4>1. a.ids \in Seq(Nodes) /\ a.visited \in SUBSET Nodes
        BY <2>2
      <4>2. /\ ids \in Seq(Nodes) /\ Len(ids) = Len(a.ids) + 1 /\ Len(a.ids) \in Nat
            /\ \A x \in 1..Len(a.ids) : ids[x] = a.ids[x]
            /\ ids[Len(a.ids) + 1] = m
        BY <4>1, <2>1, AppendProperties, LenProperties
      <4>3. ToSet(ids) = ToSet(a.ids) \cup {m}
        BY <4>1, <2>1, Appended
      <4>4. b = [visited |-> a.visited \cup {m}, ids |-> ids]
        BY <3>2 DEF TakeUnseen
      <4> HIDE DEF ids, m
      <4>5. b.visited = a.visited \cup {m} /\ b.ids = ids /\ b \in A
        BY <4>1, <4>2, <4>4, <2>1
      <4> HIDE DEF b, A
      <4>6. b.visited = V \cup ToSet(b.ids)
        BY <4>3, <4>5, <2>2
      <4>7. m \notin V /\ \A x \in 1..Len(a.ids) : a.ids[x] # m
        <5>1. a.visited = V \cup ToSet(a.ids)
          BY <2>2
        <5>2. \A x \in 1..Len(a.ids) : a.ids[x] \in ToSet(a.ids)
          BY <4>1, LenProperties DEF ToSet
        <5> QED BY <5>1, <5>2, <3>2
      <4>8. \A x \in 1..Len(ids) : x = Len(ids) \/ x \in 1..Len(a.ids)
        BY <4>2
      <4>9. \A x \in 1..Len(ids) : ids[x] \notin V
        BY <4>2, <4>7, <4>8, <2>2
      <4>10. \A x, y \in 1..Len(ids) : x # y => ids[x] # ids[y]
        BY <4>2, <4>7, <4>8, <2>2
      <4> QED BY <4>5, <4>6, <4>9, <4>10
    <3> QED BY <3>1, <3>2
  <2> HIDE DEF A, Is, b
  <2>4. \A j \in 1..i : q[j] \in b.visited
    BY <2>2, <2>3
  <2> QED BY <2>1, <2>3, <2>4 DEF b
<1> HIDE DEF S, k, start
<1>4. UnseenFold!FoldLeft(TakeUnseen, start, q) \in S[k]
  BY <1>1, <1>2, <1>3, UnseenFold!FoldKeeps
<1> DEFINE a == UnseenFold!FoldLeft(TakeUnseen, start, q)
<1>5. Fresh(s, q) = a.ids
  BY Zenon DEF Fresh, start, FoldLeft, MapThenFoldSet, Max, UnseenFold!FoldLeft,
               UnseenFold!MapThenFoldSet, UnseenFold!Max
<1> HIDE DEF a
<1>6. a \in S[k]
  BY <1>4 DEF a
<1>7. a \in A /\ Is(a) /\ \A j \in 1..k : q[j] \in a.visited
  <2>1. k \in 0..k
    BY <1>1
  <2>2. S[k] = {c \in A : Is(c) /\ \A j \in 1..k : q[j] \in c.visited}
    BY ONLY <2>1 DEF S
  <2> QED BY ONLY <1>6, <2>2
<1>8. ToSet(q) = {q[i] : i \in 1..k}
  BY <1>1 DEF ToSet
<1>9. ToSet(q) \subseteq V \cup ToSet(a.ids)
  BY <1>7, <1>8
<1> QED BY <1>5, <1>7, <1>9

\* Offering a neighbour of the node just read: it is to be selected, or
\* remembered for its expansion.
LEMMA EarlyKeeps ==
  ASSUME pq \in [Nodes -> Int], NEW s \in SearchState, NEW seen \in SUBSET Nodes,
         Keeps(s, seen), NEW m \in Nodes \ seen
  PROVE  LET t == Early(s, m)
         IN  /\ t \in SearchState /\ Keeps(t, seen \cup {m})
             /\ t.visited = s.visited /\ t.loaded = s.loaded
             /\ ToSet(s.expand) \subseteq ToSet(t.expand)
             /\ ToSet(t.expand) \subseteq ToSet(s.expand) \cup DOMAIN s.loaded
             /\ \A i \in 1..Len(t.retset) :
                  \/ t.retset[i].id = m /\ (t.retset[i].flag \/ m \in ToSet(t.expand))
                  \/ \E j \in 1..Len(s.retset) : t.retset[i] = s.retset[j]
<1> DEFINE E == [id : Nodes, distance : Int, flag : BOOLEAN]
           list == add_to_retset(s.retset, Candidate(pq, m, TRUE))
           Near == m \in DOMAIN s.loaded /\ pq[m] * FilterDen < Last(list).distance * FilterNum
           off == [i \in DOMAIN list |->
                     IF list[i].id = m THEN [list[i] EXCEPT !.flag = FALSE] ELSE list[i]]
           t == Early(s, m)
<1>1. /\ list \in ListOver(Nodes, pq) /\ Len(list) \in 1..LSearch
      /\ KeepsBest(list, seen \cup {m}, pq)
      /\ \A i \in 1..Len(list) : \/ list[i].id = m /\ list[i].flag
                                 \/ \E j \in 1..Len(s.retset) : list[i] = s.retset[j]
  BY AddKeeps
<1>2. /\ s.visited \in SUBSET Nodes /\ s.loaded \in Loads /\ s.expand \in Seq(Nodes)
  BY DEF SearchState
<1>3. t = IF Near THEN [s EXCEPT !.expand = Append(@, m), !.retset = off]
          ELSE [s EXCEPT !.retset = list]
  BY Zenon DEF Early
<1> HIDE DEF list, off, t
<1>4. CASE Near
  <2> DEFINE ex == Append(s.expand, m)
  <2>1. t = [retset |-> off, visited |-> s.visited, loaded |-> s.loaded, expand |-> ex]
    <3>1. t = [s EXCEPT !.expand = Append(@, m), !.retset = off]
      BY <1>3, <1>4
    <3> QED BY <3>1 DEF SearchState
  <2>2. ex \in Seq(Nodes) /\ ToSet(ex) = ToSet(s.expand) \cup {m}
    BY <1>2, Appended
  <2>3. /\ list \in Seq(E) /\ DOMAIN list = 1..Len(list) /\ Len(list) \in Nat \ {0}
        /\ \A i \in 1..Len(list) : list[i] \in E /\ list[i].distance = pq[list[i].id]
    <3>1. list \in Seq(E) /\ \A i \in 1..Len(list) : list[i].distance = pq[list[i].id]
      BY <1>1 DEF ListOver
    <3>2. DOMAIN list = 1..Len(list) /\ Len(list) \in Nat /\ \A i \in 1..Len(list) : list[i] \in E
      BY ONLY <3>1, LenProperties, ElementOfSeq
    <3> QED BY <3>1, <3>2, <1>1
  <2> HIDE DEF ex
  <2>4. ASSUME NEW i \in 1..Len(list)
        PROVE  /\ off[i] \in E /\ off[i].id = list[i].id /\ off[i].distance = list[i].distance
               /\ list[i].id # m => off[i] = list[i]
    <3>1. off[i] = IF list[i].id = m THEN [list[i] EXCEPT !.flag = FALSE] ELSE list[i]
      BY <2>3 DEF off
    <3>2. list[i] \in E
      BY <2>3
    <3> DEFINE e == [list[i] EXCEPT !.flag = FALSE]
    <3>3. e \in E /\ e.id = list[i].id /\ e.distance = list[i].distance
      BY ONLY <3>2, Marked
    <3> HIDE DEF e, E
    <3> QED BY <3>1, <3>2, <3>3 DEF e
  <2>5. off \in Seq(E) /\ Len(off) = Len(list)
    <3>1. off = [i \in 1..Len(list) |-> off[i]]
      BY <2>3 DEF off
    <3> HIDE DEF E
    <3>2. off \in [1..Len(list) -> E]
      BY <2>4, <3>1
    <3> QED BY <2>3, <3>2
  <2>6. off \in ListOver(Nodes, pq)
    BY <2>3, <2>4, <2>5 DEF ListOver
  <2>7. KeepsBest(off, seen \cup {m}, pq)
    <3>1. /\ Len(list) \in Nat \ {0} /\ Len(off) = Len(list) /\ KeepsBest(list, seen \cup {m}, pq)
          /\ \A i \in 1..Len(list) : off[i].id = list[i].id /\ off[i].distance = list[i].distance
      BY <1>1, <2>3, <2>4, <2>5
    <3> QED BY ONLY <3>1, SameEntries
  <2>8. /\ t.retset = off /\ t.visited = s.visited /\ t.loaded = s.loaded /\ t.expand = ex
    BY <2>1
  <2>9. t \in SearchState
    BY <1>2, <2>1, <2>2, <2>6 DEF SearchState
  <2>10. Keeps(t, seen \cup {m})
    BY <1>1, <2>5, <2>7, <2>8, <2>9 DEF Keeps
  <2>11. ASSUME NEW i \in 1..Len(t.retset)
         PROVE  \/ t.retset[i].id = m /\ m \in ToSet(t.expand)
                \/ \E j \in 1..Len(s.retset) : t.retset[i] = s.retset[j]
    <3>1. i \in 1..Len(list) /\ off[i].id = list[i].id /\ (list[i].id # m => off[i] = list[i])
      BY <2>4, <2>5, <2>8
    <3> QED BY <1>1, <2>2, <2>8, <3>1
  <2>12. m \in DOMAIN s.loaded
    BY <1>4
  <2> QED BY <2>2, <2>8, <2>9, <2>10, <2>11, <2>12 DEF t
<1>5. CASE ~Near
  <2>1. t = [retset |-> list, visited |-> s.visited, loaded |-> s.loaded, expand |-> s.expand]
    <3>1. t = [s EXCEPT !.retset = list]
      BY <1>3, <1>5
    <3> QED BY <3>1 DEF SearchState
  <2>2. /\ t.retset = list /\ t.visited = s.visited /\ t.loaded = s.loaded
        /\ t.expand = s.expand
    BY <2>1
  <2>3. t \in SearchState
    BY <1>1, <1>2, <2>1 DEF SearchState
  <2>4. Keeps(t, seen \cup {m})
    BY <1>1, <2>2, <2>3 DEF Keeps
  <2> QED BY <1>1, <2>2, <2>3, <2>4 DEF t
<1> QED BY <1>4, <1>5

\* The new neighbours f of a node, offered and expanded early by ExpandTarget.
EarlyAll(s, f) == FoldLeft(Early, [s EXCEPT !.visited = @ \cup ToSet(f)], f)

\* They are different, and none was visited; what it makes of the state s.
AllNew(s, f) ==
  /\ \A i \in 1..Len(f) : f[i] \notin s.visited
  /\ \A i, j \in 1..Len(f) : i # j => f[i] # f[j]
OfferedEarly(s, f, t) ==
  /\ t.visited = s.visited \cup ToSet(f) /\ t.loaded = s.loaded
  /\ ToSet(t.expand) \subseteq DOMAIN s.loaded
  /\ \A i \in 1..Len(t.retset) :
       \/ t.retset[i].id \notin s.visited
          /\ (t.retset[i].flag \/ t.retset[i].id \in ToSet(t.expand))
       \/ \E j \in 1..Len(s.retset) : t.retset[i] = s.retset[j]

\* The loop that expands neighbours early.
EarlyFold == INSTANCE CandidateListProofs WITH Op <- Early

\* Offering the neighbours of a node, one after the other.
LEMMA EarlyAllKeeps ==
  ASSUME pq \in [Nodes -> Int], NEW s, Good(s), s.expand = <<>>, NEW f \in Seq(Nodes),
         AllNew(s, f)
  PROVE  Good(EarlyAll(s, f)) /\ OfferedEarly(s, f, EarlyAll(s, f))
<1> DEFINE k == Len(f)
           start == [s EXCEPT !.visited = @ \cup ToSet(f)]
           seen(i) == s.visited \cup {f[j] : j \in 1..i}
           Is(t, i) == /\ Keeps(t, seen(i)) /\ t.visited = s.visited \cup ToSet(f)
                       /\ t.loaded = s.loaded /\ ToSet(t.expand) \subseteq DOMAIN s.loaded
                       /\ \A x \in 1..Len(t.retset) :
                            \/ t.retset[x].id \notin s.visited
                               /\ (t.retset[x].flag \/ t.retset[x].id \in ToSet(t.expand))
                            \/ \E j \in 1..Len(s.retset) : t.retset[x] = s.retset[j]
           S == [i \in 0..k |-> {t \in SearchState : Is(t, i)}]
<1>0. /\ \A i \in 1..k : f[i] \notin s.visited
      /\ \A i, j \in 1..k : i # j => f[i] # f[j]
  BY DEF AllNew
<1>1. k \in Nat /\ DOMAIN f = 1..k /\ (\A i \in 1..k : f[i] \in Nodes)
      /\ ToSet(f) = {f[i] : i \in 1..k} /\ ToSet(f) \subseteq Nodes
  <2>1. k \in Nat /\ DOMAIN f = 1..k /\ \A i \in 1..k : f[i] \in Nodes
    BY LenProperties, ElementOfSeq
  <2> QED BY <2>1 DEF ToSet
<1>2. /\ s \in SearchState /\ Len(s.retset) \in 1..LSearch
      /\ KeepsBest(s.retset, s.visited, pq) /\ s.visited \in SUBSET Nodes
  BY DEF Good, Keeps, SearchState
<1>3. start \in S[0]
  <2>1. start = [retset |-> s.retset, visited |-> s.visited \cup ToSet(f),
                 loaded |-> s.loaded, expand |-> s.expand]
    <3> DEFINE new == ToSet(f)
    <3>1. s = [retset |-> s.retset, visited |-> s.visited, loaded |-> s.loaded,
               expand |-> s.expand]
      BY <1>2 DEF SearchState
    <3> HIDE DEF new
    <3>2. [s EXCEPT !.visited = @ \cup new]
            = [retset |-> s.retset, visited |-> s.visited \cup new, loaded |-> s.loaded,
               expand |-> s.expand]
      <4> DEFINE new2 == s.visited \cup new
      <4>1. [s EXCEPT !.visited = new2]
              = [retset |-> s.retset, visited |-> new2, loaded |-> s.loaded,
                 expand |-> s.expand]
        <5> HIDE DEF new2
        <5> QED BY ONLY <1>2 DEF SearchState
      <4> QED BY <4>1
    <3> QED BY <3>2 DEF new
  <2>2. start \in SearchState
    BY <1>1, <1>2, <2>1 DEF SearchState
  <2>3. /\ start.retset = s.retset /\ start.visited = s.visited \cup ToSet(f)
        /\ start.loaded = s.loaded /\ start.expand = s.expand
    BY <2>1
  <2>4. seen(0) = s.visited
    OBVIOUS
  <2>5. ToSet(start.expand) = {}
    BY <2>3 DEF ToSet
  <2> HIDE DEF start, seen
  <2>6. Is(start, 0)
    BY <1>2, <2>2, <2>3, <2>4, <2>5 DEF Keeps
  <2> HIDE DEF Is
  <2> QED BY <1>1, <2>2, <2>6
<1>4. ASSUME NEW i \in 1..k, NEW t \in S[i - 1] PROVE Early(t, f[i]) \in S[i]
  <2> DEFINE u == Early(t, f[i])
  <2>1. i - 1 \in 0..k /\ i \in 0..k /\ f[i] \in Nodes
    BY <1>1
  <2>2. t \in SearchState /\ Is(t, i - 1)
    BY <2>1
  <2>3. seen(i) = seen(i - 1) \cup {f[i]} /\ seen(i - 1) \in SUBSET Nodes
        /\ f[i] \in Nodes \ seen(i - 1)
    <3>1. \A j \in 1..i : j = i \/ j \in 1..(i - 1)
      BY <1>1
    <3>2. \A j \in 1..(i - 1) : j \in 1..k /\ j # i /\ j \in 1..i
      BY <1>1
    <3>3. i \in 1..i
      BY <1>1
    <3>4. f[i] \notin s.visited /\ \A j \in 1..(i - 1) : f[j] # f[i]
      BY <1>0, <3>2
    <3> QED BY <1>1, <1>2, <2>1, <3>1, <3>2, <3>3, <3>4
  <2>4. /\ u \in SearchState /\ Keeps(u, seen(i))
        /\ u.visited = t.visited /\ u.loaded = t.loaded
        /\ ToSet(t.expand) \subseteq ToSet(u.expand)
        /\ ToSet(u.expand) \subseteq ToSet(t.expand) \cup DOMAIN t.loaded
        /\ \A x \in 1..Len(u.retset) :
             \/ u.retset[x].id = f[i] /\ (u.retset[x].flag \/ f[i] \in ToSet(u.expand))
             \/ \E j \in 1..Len(t.retset) : u.retset[x] = t.retset[j]
    <3> DEFINE old == seen(i - 1)
               m == f[i]
    <3>1. /\ pq \in [Nodes -> Int] /\ t \in SearchState /\ Keeps(t, old)
          /\ old \in SUBSET Nodes /\ m \in Nodes \ old
      BY <2>2, <2>3
    <3>2. seen(i) = old \cup {m}
      BY <2>3
    <3> HIDE DEF old, seen, m, u
    <3>3. LET v == Early(t, m)
          IN  /\ v \in SearchState /\ Keeps(v, old \cup {m})
              /\ v.visited = t.visited /\ v.loaded = t.loaded
              /\ ToSet(t.expand) \subseteq ToSet(v.expand)
              /\ ToSet(v.expand) \subseteq ToSet(t.expand) \cup DOMAIN t.loaded
              /\ \A x \in 1..Len(v.retset) :
                   \/ v.retset[x].id = m /\ (v.retset[x].flag \/ m \in ToSet(v.expand))
                   \/ \E j \in 1..Len(t.retset) : v.retset[x] = t.retset[j]
      BY ONLY <3>1, EarlyKeeps
    <3> QED BY ONLY <3>2, <3>3 DEF u, m
  <2> HIDE DEF u, seen
  <2>5. ASSUME NEW x \in 1..Len(u.retset)
        PROVE  \/ u.retset[x].id \notin s.visited
                  /\ (u.retset[x].flag \/ u.retset[x].id \in ToSet(u.expand))
               \/ \E j \in 1..Len(s.retset) : u.retset[x] = s.retset[j]
    <3>1. f[i] \notin s.visited
      BY <1>0
    <3>2. \A y \in 1..Len(t.retset) :
            \/ t.retset[y].id \notin s.visited
               /\ (t.retset[y].flag \/ t.retset[y].id \in ToSet(t.expand))
            \/ \E j \in 1..Len(s.retset) : t.retset[y] = s.retset[j]
      BY <2>2
    <3> HIDE DEF Is
    <3>3. CASE u.retset[x].id = f[i] /\ (u.retset[x].flag \/ f[i] \in ToSet(u.expand))
      BY <3>1, <3>3
    <3>4. CASE \E j \in 1..Len(t.retset) : u.retset[x] = t.retset[j]
      <4>1. PICK y \in 1..Len(t.retset) : u.retset[x] = t.retset[y]
        BY <3>4
      <4>2. ToSet(t.expand) \subseteq ToSet(u.expand)
        BY <2>4
      <4> QED BY ONLY <4>1, <4>2, <3>2
    <3> QED BY <2>4, <3>3, <3>4
  <2>6. Is(u, i)
    BY <2>2, <2>4, <2>5
  <2> HIDE DEF Is
  <2> QED BY <2>1, <2>4, <2>6 DEF u
<1> HIDE DEF S, k, start
<1>5. EarlyFold!FoldLeft(Early, start, f) \in S[k]
  BY <1>1, <1>3, <1>4, EarlyFold!FoldKeeps
<1> DEFINE t == FoldLeft(Early, start, f)
<1>6. t = EarlyFold!FoldLeft(Early, start, f)
  BY Zenon DEF FoldLeft, MapThenFoldSet, Max, EarlyFold!FoldLeft,
               EarlyFold!MapThenFoldSet, EarlyFold!Max
<1> HIDE DEF t
<1>7. t \in SearchState /\ Is(t, k)
  <2>1. k \in 0..k /\ t \in S[k]
    BY <1>1, <1>5, <1>6
  <2>2. S[k] = {v \in SearchState : Is(v, k)}
    BY ONLY <2>1 DEF S
  <2> QED BY ONLY <2>1, <2>2
<1>8. seen(k) = t.visited
  BY <1>1, <1>7
<1> HIDE DEF seen
<1>9. Good(t)
  BY <1>7, <1>8 DEF Good
<1>10. t = EarlyAll(s, f)
  BY DEF t, start, EarlyAll
<1> QED BY <1>7, <1>9, <1>10 DEF OfferedEarly

\* The pointers of the search state are right.
Pointing(s) == \A n \in DOMAIN s.loaded : RightPointer(n, s.loaded[n])

\* Expanding one node from its copy, and the loop over the nodes near the target.
ExpandLoaded(s, m) == Offer(s, NbrsAt(m, s.loaded[m]), pq)
LoadedFold == INSTANCE CandidateListProofs WITH Op <- ExpandLoaded

\* Expanding one node after the other from their copies.
LEMMA ExpandLoadedKeeps ==
  ASSUME pq \in [Nodes -> Int], NEW s, Good(s), NEW q \in Seq(Nodes),
         \A i \in 1..Len(q) : NbrsAt(q[i], s.loaded[q[i]]) \in Seq(Nodes)
  PROVE  LET t == FoldLeft(ExpandLoaded, s, q)
         IN  /\ Good(t) /\ Grown(s, t)
             /\ \A i \in 1..Len(q) : ToSet(NbrsAt(q[i], s.loaded[q[i]])) \subseteq t.visited
<1> DEFINE k == Len(q)
           nbrs(i) == NbrsAt(q[i], s.loaded[q[i]])
           S == [i \in 0..k |->
                  {t \in SearchState : /\ Good(t) /\ Grown(s, t)
                                       /\ \A j \in 1..i : ToSet(nbrs(j)) \subseteq t.visited}]
<1>1. k \in Nat /\ DOMAIN q = 1..k
  BY LenProperties
<1>2. s \in S[0]
  BY <1>1 DEF Good, Keeps, Grown
<1>3. ASSUME NEW i \in 1..k, NEW t \in S[i - 1] PROVE ExpandLoaded(t, q[i]) \in S[i]
  <2> DEFINE u == ExpandLoaded(t, q[i])
  <2>1. i - 1 \in 0..k /\ i \in 0..k
    BY <1>1
  <2>2. Good(t) /\ Grown(s, t) /\ \A j \in 1..(i - 1) : ToSet(nbrs(j)) \subseteq t.visited
    BY <2>1
  <2>3. u = Offer(t, nbrs(i), pq)
    BY <2>2 DEF ExpandLoaded, Grown
  <2>4. nbrs(i) \in Seq(Nodes)
    OBVIOUS
  <2> HIDE DEF nbrs, u
  <2>5. Good(u) /\ Grown(t, u) /\ ToSet(nbrs(i)) \subseteq u.visited
    BY <2>2, <2>3, <2>4, OfferAllKeeps
  <2>6. u \in SearchState /\ Grown(s, u)
    BY <2>2, <2>5, GrownTransitive DEF Good, Keeps
  <2>7. ASSUME NEW j \in 1..i PROVE ToSet(nbrs(j)) \subseteq u.visited
    <3>1. CASE j = i
      BY <3>1, <2>5
    <3>2. CASE j \in 1..(i - 1)
      <4>1. ToSet(nbrs(j)) \subseteq t.visited
        BY <3>2, <2>2
      <4> QED BY <4>1, <2>5 DEF Grown
    <3> QED BY <3>1, <3>2
  <2> QED BY <2>1, <2>5, <2>6, <2>7 DEF u
<1> HIDE DEF S, k
<1>4. LoadedFold!FoldLeft(ExpandLoaded, s, q) \in S[k]
  BY <1>1, <1>2, <1>3, LoadedFold!FoldKeeps
<1> DEFINE t == FoldLeft(ExpandLoaded, s, q)
<1>5. t = LoadedFold!FoldLeft(ExpandLoaded, s, q)
  BY Zenon DEF FoldLeft, MapThenFoldSet, Max, LoadedFold!FoldLeft,
               LoadedFold!MapThenFoldSet, LoadedFold!Max
<1> HIDE DEF t, nbrs
<1>6. Good(t) /\ Grown(s, t) /\ \A j \in 1..k : ToSet(nbrs(j)) \subseteq t.visited
  <2>1. k \in 0..k /\ t \in S[k]
    BY <1>1, <1>4, <1>5
  <2>2. S[k] = {v \in SearchState : /\ Good(v) /\ Grown(s, v)
                                    /\ \A j \in 1..k : ToSet(nbrs(j)) \subseteq v.visited}
    BY ONLY <2>1 DEF S
  <2> QED BY ONLY <2>1, <2>2
<1> QED BY <1>6 DEF t, nbrs, k

\* Expanding one node of the queue, and the loop over the queue.
ExpandCopy(s, c) == Offer(s, NbrsAt(c.id, c.ptr), pq)
CopyFold == INSTANCE CandidateListProofs WITH Op <- ExpandCopy

\* Expanding the nodes of the queue from their copies.
LEMMA ExpandCopiesKeeps ==
  ASSUME pq \in [Nodes -> Int], NEW s, Good(s), NEW q \in Seq([id : Nodes, ptr : Pointers]),
         \A i \in 1..Len(q) : NbrsAt(q[i].id, q[i].ptr) \in Seq(Nodes)
  PROVE  LET t == FoldLeft(ExpandCopy, s, q)
         IN  /\ Good(t) /\ Grown(s, t)
             /\ \A i \in 1..Len(q) : ToSet(NbrsAt(q[i].id, q[i].ptr)) \subseteq t.visited
<1> DEFINE k == Len(q)
           nbrs(i) == NbrsAt(q[i].id, q[i].ptr)
           S == [i \in 0..k |->
                  {t \in SearchState : /\ Good(t) /\ Grown(s, t)
                                       /\ \A j \in 1..i : ToSet(nbrs(j)) \subseteq t.visited}]
<1>1. k \in Nat /\ DOMAIN q = 1..k
  BY LenProperties
<1>2. s \in S[0]
  BY <1>1 DEF Good, Keeps, Grown
<1>3. ASSUME NEW i \in 1..k, NEW t \in S[i - 1] PROVE ExpandCopy(t, q[i]) \in S[i]
  <2> DEFINE u == ExpandCopy(t, q[i])
  <2>1. i - 1 \in 0..k /\ i \in 0..k
    BY <1>1
  <2>2. Good(t) /\ Grown(s, t) /\ \A j \in 1..(i - 1) : ToSet(nbrs(j)) \subseteq t.visited
    BY <2>1
  <2>3. u = Offer(t, nbrs(i), pq)
    BY DEF ExpandCopy
  <2>4. nbrs(i) \in Seq(Nodes)
    OBVIOUS
  <2> HIDE DEF nbrs, u
  <2>5. Good(u) /\ Grown(t, u) /\ ToSet(nbrs(i)) \subseteq u.visited
    BY <2>2, <2>3, <2>4, OfferAllKeeps
  <2>6. u \in SearchState /\ Grown(s, u)
    BY <2>2, <2>5, GrownTransitive DEF Good, Keeps
  <2>7. ASSUME NEW j \in 1..i PROVE ToSet(nbrs(j)) \subseteq u.visited
    <3>1. CASE j = i
      BY <3>1, <2>5
    <3>2. CASE j \in 1..(i - 1)
      <4>1. ToSet(nbrs(j)) \subseteq t.visited
        BY <3>2, <2>2
      <4> QED BY <4>1, <2>5 DEF Grown
    <3> QED BY <3>1, <3>2
  <2> QED BY <2>1, <2>5, <2>6, <2>7 DEF u
<1> HIDE DEF S, k
<1>4. CopyFold!FoldLeft(ExpandCopy, s, q) \in S[k]
  BY <1>1, <1>2, <1>3, CopyFold!FoldKeeps
<1> DEFINE t == FoldLeft(ExpandCopy, s, q)
<1>5. t = CopyFold!FoldLeft(ExpandCopy, s, q)
  BY Zenon DEF FoldLeft, MapThenFoldSet, Max, CopyFold!FoldLeft,
               CopyFold!MapThenFoldSet, CopyFold!Max
<1> HIDE DEF t, nbrs
<1>6. Good(t) /\ Grown(s, t) /\ \A j \in 1..k : ToSet(nbrs(j)) \subseteq t.visited
  <2>1. k \in 0..k /\ t \in S[k]
    BY <1>1, <1>4, <1>5
  <2>2. S[k] = {v \in SearchState : /\ Good(v) /\ Grown(s, v)
                                    /\ \A j \in 1..k : ToSet(nbrs(j)) \subseteq v.visited}
    BY ONLY <2>1 DEF S
  <2> QED BY ONLY <2>1, <2>2
<1> QED BY <1>6 DEF t, nbrs, k

\* From s to t nodes were expanded: what is new in the list is to be selected, or
\* was expanded, with its own neighbours if the pointers are still right.
Processed(s, t) ==
  /\ s.visited \subseteq t.visited /\ t.loaded = s.loaded
  /\ \A i \in 1..Len(t.retset) :
       \/ /\ t.retset[i].id \notin s.visited
          /\ \/ t.retset[i].flag
             \/ FewReads => ToSet(Nbrs[t.retset[i].id]) \subseteq t.visited
       \/ \E j \in 1..Len(s.retset) : t.retset[i] = s.retset[j]

LEMMA ProcessedGrows ==
  ASSUME NEW r, NEW s, NEW t, Processed(r, s), Grown(s, t)
  PROVE  Processed(r, t)
<1>1. ASSUME NEW i \in 1..Len(t.retset)
      PROVE  \/ /\ t.retset[i].id \notin r.visited
                /\ \/ t.retset[i].flag
                   \/ FewReads => ToSet(Nbrs[t.retset[i].id]) \subseteq t.visited
             \/ \E j \in 1..Len(r.retset) : t.retset[i] = r.retset[j]
  BY DEF Grown, Processed
<1> QED BY <1>1 DEF Grown, Processed

\* Expanding the node just read, and those near it that are loaded.
LEMMA ExpandTargetKeeps ==
  ASSUME pq \in [Nodes -> Int], frontier \in Seq(Nodes), NEW s, Good(s), s.expand = <<>>,
         Pointing(s), NEW n \in Nodes
  PROVE  LET t == ExpandTarget(s, n)
         IN  /\ Good(t) /\ Processed(s, t) /\ ToSet(Nbrs[n]) \subseteq t.visited
<1> DEFINE f == Fresh(s, Nbrs[n])
           e == EarlyAll(s, f)
           t == FoldLeft(ExpandLoaded, e, e.expand)
<1>1. s \in SearchState /\ s.visited \in SUBSET Nodes /\ s.loaded \in Loads
      /\ Nbrs[n] \in Seq(Nodes)
  BY ConstantFacts DEF Good, Keeps, SearchState
<1>2. ExpandTarget(s, n) = t
  BY Zenon DEF ExpandTarget, ExpandLoaded, EarlyAll
<1>3. /\ f \in Seq(Nodes) /\ ToSet(Nbrs[n]) \subseteq s.visited \cup ToSet(f)
      /\ \A i \in 1..Len(f) : f[i] \notin s.visited
      /\ \A i, j \in 1..Len(f) : i # j => f[i] # f[j]
  BY <1>1, FreshFacts
<1> HIDE DEF f
<1>4. /\ Good(e) /\ e.visited = s.visited \cup ToSet(f) /\ e.loaded = s.loaded
      /\ ToSet(e.expand) \subseteq DOMAIN s.loaded
      /\ \A i \in 1..Len(e.retset) :
           \/ e.retset[i].id \notin s.visited
              /\ (e.retset[i].flag \/ e.retset[i].id \in ToSet(e.expand))
           \/ \E j \in 1..Len(s.retset) : e.retset[i] = s.retset[j]
  <2>1. f \in Seq(Nodes) /\ AllNew(s, f)
    BY <1>3 DEF AllNew
  <2>2. Good(e) /\ OfferedEarly(s, f, e)
    BY <2>1, EarlyAllKeeps
  <2> HIDE DEF e
  <2> QED BY <2>2 DEF OfferedEarly
<1> HIDE DEF e
<1>5. e.expand \in Seq(Nodes) /\ ToSet(e.expand) = {e.expand[i] : i \in 1..Len(e.expand)}
  <2>1. e.expand \in Seq(Nodes)
    BY <1>4 DEF Good, Keeps, SearchState
  <2> QED BY <2>1, LenProperties DEF ToSet
<1>6. \A i \in 1..Len(e.expand) :
        LET m == e.expand[i]
        IN  /\ NbrsAt(m, e.loaded[m]) \in Seq(Nodes)
            /\ FewReads => NbrsAt(m, e.loaded[m]) = Nbrs[m]
  <2> SUFFICES ASSUME NEW m \in ToSet(e.expand)
               PROVE  /\ NbrsAt(m, e.loaded[m]) \in Seq(Nodes)
                      /\ FewReads => NbrsAt(m, e.loaded[m]) = Nbrs[m]
    BY <1>5
  <2>1. m \in Nodes /\ s.loaded[m] \in Pointers /\ RightPointer(m, s.loaded[m])
    BY <1>1, <1>4, LoadsFacts DEF Pointing
  <2> QED BY <1>4, <2>1, NbrsAtFacts
<1>7. /\ Good(t) /\ Grown(e, t)
      /\ \A i \in 1..Len(e.expand) :
           ToSet(NbrsAt(e.expand[i], e.loaded[e.expand[i]])) \subseteq t.visited
  BY <1>4, <1>5, <1>6, ExpandLoadedKeeps
<1> HIDE DEF t
<1>8. FewReads => \A m \in ToSet(e.expand) : ToSet(Nbrs[m]) \subseteq t.visited
  BY <1>5, <1>6, <1>7
<1>9. Processed(s, t)
  <2>1. ASSUME NEW i \in 1..Len(t.retset)
        PROVE  \/ /\ t.retset[i].id \notin s.visited
                  /\ \/ t.retset[i].flag
                     \/ FewReads => ToSet(Nbrs[t.retset[i].id]) \subseteq t.visited
               \/ \E j \in 1..Len(s.retset) : t.retset[i] = s.retset[j]
    <3>1. \/ t.retset[i].flag /\ t.retset[i].id \notin e.visited
          \/ \E j \in 1..Len(e.retset) : t.retset[i] = e.retset[j]
      BY <1>7 DEF Grown
    <3> QED BY <3>1, <1>4, <1>8
  <2> QED BY <1>4, <1>7, <2>1 DEF Processed, Grown
<1>10. ToSet(Nbrs[n]) \subseteq t.visited
  BY <1>3, <1>4, <1>7 DEF Grown
<1> QED BY <1>2, <1>7, <1>9, <1>10
-----------------------------------------------------------------------------
(* Every step keeps the invariant.                                         *)

\* Lengths are numbers and the reads in flight are finitely many.
LEMMA TypeFacts ==
  ASSUME TypeOK
  PROVE  /\ Len(retset) \in Nat /\ Len(frontier) \in Nat /\ Len(sector_buffers) \in Nat
         /\ Len(cached_node) \in Nat /\ IsFiniteSet(flying)
         /\ \A i \in 1..Len(retset) : retset[i].id \in Nodes
<1>1. /\ retset \in Seq([id : Nodes, distance : Int, flag : BOOLEAN])
      /\ \A i \in 1..Len(retset) : retset[i].id \in Nodes
  <2>1. retset \in ListOver(Nodes, pq)
    BY DEF TypeOK
  <2>2. retset \in Seq([id : Nodes, distance : Int, flag : BOOLEAN])
    BY <2>1 DEF ListOver
  <2> QED BY ONLY <2>1, <2>2, EntryType
<1>2. /\ Len(retset) \in Nat /\ Len(frontier) \in Nat /\ Len(sector_buffers) \in Nat
      /\ Len(cached_node) \in Nat
  BY <1>1, LenProperties DEF TypeOK
<1>3. IsFiniteSet(1..Len(frontier)) /\ flying \in SUBSET (1..Len(frontier))
  BY <1>2, FS_Interval DEF TypeOK
<1>4. IsFiniteSet(flying)
  BY <1>3, FS_Subset
<1> QED BY <1>1, <1>2, <1>4

\* A query starts with nothing read, listed or answered.
LEMMA InitInv ==
  ASSUME Init
  PROVE  Inv
<1>1. pq \in [Nodes -> Int] /\ exact \in [Nodes -> Int] /\ IsInjective(exact)
  BY DupGraphAssumption DEF Init, DupGraphAssumption
<1>2. /\ retset = <<>> /\ cached_node = <<>> /\ sector_buffers = <<>> /\ frontier = <<>>
      /\ visited = {} /\ page_visited = {} /\ flying = {} /\ DOMAIN loaded = {}
  BY DEF Init
<1>3. TypeOK
  <2>1. full_retset \in [Nodes -> Nat]
    BY DEF Init
  <2>2. retset \in ListOver(Nodes, pq)
    BY <1>2 DEF ListOver
  <2>3. loaded \in Loads
    BY <1>2, LoadsFacts DEF Init
  <2> QED BY <1>1, <1>2, <2>1, <2>2, <2>3 DEF Init, TypeOK, Traversal
<1>4. ListInv
  BY <1>2 DEF Init, ListInv, KeepsBest, Ids
<1>5. ReadsInv
  BY <1>2, FS_EmptySet DEF Init, ReadsInv, Traversal
<1>6. PointerInv
  BY <1>2 DEF PointerInv
<1>7. TraversalInv
  BY <1>2 DEF Init, TraversalInv, Traversal, TraversalClosed
<1>8. RefineInv
  BY <1>2 DEF Init, RefineInv, AnswerNearest
<1> QED BY <1>3, <1>4, <1>5, <1>6, <1>7, <1>8 DEF Inv

\* Nothing of the list changes.
LEMMA ListUnchanged ==
  ASSUME Inv, pc # "start", pc' # "start", UNCHANGED <<retset, visited, pq>>
  PROVE  ListInv'
<1>1. Len(retset) \in 1..LSearch /\ KeepsBest(retset, visited, pq)
  BY DEF Inv, ListInv
<1> QED BY <1>1 DEF ListInv

\* No pointer changes.
LEMMA PointersUnchanged ==
  ASSUME Inv, UNCHANGED <<loaded, frontier, cached_node>>
  PROVE  PointerInv'
BY DEF Inv, PointerInv, RightPointer

\* What the traversal ended with stays.
LEMMA StaysClosed ==
  ASSUME Inv, pc \notin Traversal, pc' \notin Traversal, UNCHANGED <<retset, visited>>,
         FewReads' => FewReads
  PROVE  TraversalInv'
BY DEF Inv, TraversalInv, TraversalClosed

\* The query starts.
LEMMA StartQueryKeeps ==
  ASSUME Inv, NEW list \in StartLists, StartQuery(list)
  PROVE  Inv'
<1> USE DEF ring, cached, refine
<1>1. /\ pc = "start" /\ pc' = "process"
      /\ retset' \in Started(list, pq) /\ visited' = ToSet(list)
      /\ page_visited = {} /\ pq \in [Nodes -> Int]
      /\ UNCHANGED <<pq, exact, page_visited, full_retset, loaded, ring, cached, n_io_in_q,
                     n_proc_in_q, refine>>
  BY DEF Inv, StartQuery, ListInv, TypeOK
<1>2. /\ retset' \in ListOver(Nodes, pq) /\ Len(retset') \in 1..LSearch
      /\ \A i \in 1..Len(retset') : retset'[i].flag
      /\ KeepsBest(retset', visited', pq) /\ visited' \subseteq Nodes
  <2>1. /\ list \in Seq(Nodes) /\ list # <<>> /\ Len(list) <= LSearch /\ LSearch \in Nat
        /\ pq \in [Nodes -> Int] /\ retset' \in Started(list, pq) /\ visited' = ToSet(list)
    BY <1>1, ConstantFacts, DupGraphAssumption DEF DupGraphAssumption
  <2> QED BY ONLY <2>1, StartedFacts
<1>3. TypeOK'
  BY <1>1, <1>2 DEF Inv, TypeOK, Traversal
<1>4. ListInv'
  BY <1>1, <1>2 DEF ListInv
<1>5. ReadsInv'
  BY <1>1 DEF Inv, ReadsInv, Traversal, Refined
<1>6. PointerInv'
  BY <1>1, PointersUnchanged
<1>7. TraversalInv'
  BY <1>1, <1>2 DEF TraversalInv, Traversal, TraversalClosed
<1>8. RefineInv'
  BY <1>1 DEF RefineInv, AnswerNearest
<1> QED BY <1>3, <1>4, <1>5, <1>6, <1>7, <1>8 DEF Inv

\* A round is not started while reads or expansions wait.
LEMMA SkipDispatchKeeps ==
  ASSUME Inv, SkipDispatch
  PROVE  Inv'
<1> USE DEF SkipDispatch, sets, ring, cached, refine
<1>1. pc = "dispatch" /\ pc' = "process"
  OBVIOUS
<1>2. TypeOK'
  BY DEF Inv, TypeOK, Traversal
<1>3. ListInv'
  BY <1>1, ListUnchanged
<1>4. ReadsInv'
  BY <1>1 DEF Inv, ReadsInv, Traversal, Refined
<1>5. PointerInv'
  BY PointersUnchanged
<1>6. TraversalInv'
  BY <1>1 DEF Inv, TraversalInv, Traversal, TraversalClosed, FewReads, Pending, Expanded
<1>7. RefineInv'
  BY <1>1 DEF Inv, RefineInv, AnswerNearest, Pending
<1> QED BY <1>2, <1>3, <1>4, <1>5, <1>6, <1>7 DEF Inv

\* The refinement starts with no candidate looked at.
LEMMA BeginRefineKeeps ==
  ASSUME Inv, BeginRefine
  PROVE  Inv'
<1> USE DEF sets, ring, cached
<1>1. /\ pc = "refine" /\ pc' = "embed" /\ l_idx' = 0 /\ flying = {}
      /\ UNCHANGED <<pq, exact, sets, ring, cached, n_io_in_q, n_proc_in_q, n_ops>>
  BY DEF Inv, BeginRefine, ReadsInv
<1>2. embedding_search_L' \in Nat
  <2> DEFINE whole == Len(retset) * EmbNum
  <2>1. whole \in Nat /\ KSearch \in Nat /\ EmbDen \in Nat \ {0}
    BY ConstantFacts, TypeFacts DEF Inv
  <2>2. embedding_search_L' = IF whole \div EmbDen < KSearch THEN KSearch
                              ELSE whole \div EmbDen
    BY DEF BeginRefine
  <2> HIDE DEF whole
  <2>3. whole \div EmbDen \in Nat
    BY <2>1
  <2> QED BY <2>1, <2>2, <2>3
<1>3. TypeOK'
  BY <1>1, <1>2 DEF Inv, TypeOK
<1>4. ListInv'
  BY <1>1, ListUnchanged
<1>5. ReadsInv'
  BY <1>1 DEF Inv, ReadsInv, Traversal, Refined
<1>6. PointerInv'
  BY <1>1, PointersUnchanged
<1>7. TraversalInv'
  BY <1>1, StaysClosed DEF Traversal, FewReads
<1>8. RefineInv'
  <2>1. \A i \in 1..Len(retset) : ~(i <= l_idx')
    BY <1>1
  <2> QED BY <1>1, <2>1 DEF Inv, RefineInv, AnswerNearest, Pending
<1> QED BY <1>3, <1>4, <1>5, <1>6, <1>7, <1>8 DEF Inv

\* All pages of the batch have been looked at.
LEMMA EndBatchKeeps ==
  ASSUME Inv, EndBatch
  PROVE  Inv'
<1> USE DEF sets, ring, cached, refine
<1>1. /\ pc = "drain" /\ pc' = "embed" /\ n_ops = 0
      /\ UNCHANGED <<pq, exact, sets, ring, cached, n_io_in_q, n_proc_in_q, refine>>
  BY DEF EndBatch
<1>2. flying = {}
  <2>1. Cardinality(flying) = 0 /\ IsFiniteSet(flying)
    BY <1>1, TypeFacts DEF Inv, ReadsInv
  <2> QED BY <2>1, FS_EmptySet
<1>3. TypeOK'
  BY <1>1 DEF Inv, TypeOK
<1>4. ListInv'
  BY <1>1, ListUnchanged
<1>5. ReadsInv'
  BY <1>1, <1>2 DEF Inv, ReadsInv, Traversal, Refined
<1>6. PointerInv'
  BY <1>1, PointersUnchanged
<1>7. TraversalInv'
  BY <1>1, StaysClosed DEF Traversal, FewReads
<1>8. RefineInv'
  BY <1>1 DEF Inv, RefineInv, AnswerNearest, Pending
<1> QED BY <1>3, <1>4, <1>5, <1>6, <1>7, <1>8 DEF Inv

\* The search state that Process starts from.
LEMMA NowGood ==
  ASSUME Inv, pc # "start"
  PROVE  Good(Now)
<1>1. /\ retset \in ListOver(Nodes, pq) /\ visited \subseteq Nodes
      /\ loaded \in Loads /\ <<>> \in Seq(Nodes)
  BY DEF Inv, TypeOK
<1>2. Now \in SearchState
  BY <1>1 DEF Now, SearchState
<1>3. Len(retset) \in 1..LSearch /\ KeepsBest(retset, visited, pq)
  BY DEF Inv, ListInv
<1> QED BY <1>2, <1>3 DEF Good, Keeps, Now

\* What Process makes of the search state: the node whose page came and the
\* nodes that need no read are expanded.
LEMMA ProcessedFacts ==
  ASSUME Inv, Process
  PROVE  /\ retset' \in ListOver(Nodes, pq) /\ Len(retset') \in 1..LSearch
         /\ visited' \subseteq Nodes /\ visited \subseteq visited'
         /\ KeepsBest(retset', visited', pq)
         /\ loaded' \in Loads /\ \A n \in DOMAIN loaded' : RightPointer(n, loaded'[n])
         /\ \A i \in 1..Len(retset') :
              \/ /\ retset'[i].id \notin visited
                 /\ \/ retset'[i].flag
                    \/ FewReads => ToSet(Nbrs[retset'[i].id]) \subseteq visited'
              \/ \E j \in 1..Len(retset) : retset'[i] = retset[j]
         /\ FewReads => \A i \in 1..Len(cached_node) :
                          ToSet(Nbrs[cached_node[i].id]) \subseteq visited'
         /\ n_proc_in_q > 0 =>
              /\ frontier[Head(sector_buffers)] \in Nodes
              /\ ToSet(Nbrs[frontier[Head(sector_buffers)]]) \subseteq visited'
<1> DEFINE t == Head(sector_buffers)
           target == frontier[t]
           now == [Now EXCEPT !.loaded = Load(t)]
           s == IF n_proc_in_q > 0 THEN ExpandTarget(now, target) ELSE Now
           u == FoldLeft(ExpandCopy, s, cached_node)
<1>1. /\ pc = "process" /\ pq \in [Nodes -> Int] /\ frontier \in Seq(Nodes)
      /\ cached_node \in Seq([id : Nodes, ptr : Pointers]) /\ loaded \in Loads
  BY DEF Process, Inv, TypeOK
<1>2. Good(Now) /\ Now.retset = retset /\ Now.visited = visited /\ Now.loaded = loaded
      /\ Now.expand = <<>>
  BY <1>1, NowGood DEF Now
<1>3. retset' = u.retset /\ visited' = u.visited /\ loaded' = u.loaded
  BY Zenon DEF Process, ExpandCopy
<1>4. n_proc_in_q > 0 => t \in 1..Len(frontier) /\ target \in Nodes
  <2> SUFFICES ASSUME n_proc_in_q > 0 PROVE t \in 1..Len(frontier) /\ target \in Nodes
    OBVIOUS
  <2>1. /\ n_proc_in_q = Len(sector_buffers) /\ sector_buffers \in Seq(Nat)
        /\ \A i \in 1..Len(sector_buffers) : sector_buffers[i] \in 1..Len(frontier)
    BY <1>1 DEF Inv, ReadsInv, Traversal, TypeOK
  <2>2. 1 \in 1..Len(sector_buffers)
    BY <2>1, LenProperties
  <2>3. t = sector_buffers[1]
    BY <2>1, <2>2
  <2>4. t \in 1..Len(frontier)
    BY <2>1, <2>2, <2>3
  <2> HIDE DEF t
  <2> QED BY <2>4, <1>1, ElementOfSeq
<1>5. \A n \in DOMAIN loaded : RightPointer(n, loaded[n])
  BY DEF Inv, PointerInv
<1> HIDE DEF t, target
<1>6. /\ Good(s) /\ s.loaded \in Loads /\ Pointing(s)
      /\ visited \subseteq s.visited
      /\ \A i \in 1..Len(s.retset) :
           \/ /\ s.retset[i].id \notin visited
              /\ \/ s.retset[i].flag
                 \/ FewReads => ToSet(Nbrs[s.retset[i].id]) \subseteq s.visited
           \/ \E j \in 1..Len(retset) : s.retset[i] = retset[j]
      /\ n_proc_in_q > 0 => ToSet(Nbrs[target]) \subseteq s.visited
  <2>1. CASE n_proc_in_q > 0
    <3>1. Load(t) \in Loads /\ \A n \in DOMAIN Load(t) : RightPointer(n, Load(t)[n])
      BY <1>1, <1>4, <1>5, <2>1, LoadKeeps
    <3>2. now = [retset |-> retset, visited |-> visited, loaded |-> Load(t), expand |-> <<>>]
      BY DEF Now
    <3>3. /\ now.retset = retset /\ now.visited = visited /\ now.loaded = Load(t)
          /\ now.expand = <<>>
      BY <3>2
    <3>4. now \in SearchState
      <4>1. Now \in SearchState
        BY <1>2 DEF Good, Keeps
      <4>2. retset \in ListOver(Nodes, pq) /\ visited \in SUBSET Nodes /\ <<>> \in Seq(Nodes)
        BY <1>2, <4>1 DEF SearchState
      <4> HIDE DEF now
      <4> QED BY <3>1, <3>2, <4>2 DEF SearchState
    <3> HIDE DEF now
    <3>5. Good(now) /\ Pointing(now)
      BY <1>2, <3>1, <3>3, <3>4 DEF Good, Keeps, Pointing
    <3>6. s = ExpandTarget(now, target)
      BY <2>1
    <3> HIDE DEF s
    <3>7. Good(s) /\ Processed(now, s) /\ ToSet(Nbrs[target]) \subseteq s.visited
      BY <1>1, <1>4, <2>1, <3>3, <3>5, <3>6, ExpandTargetKeeps
    <3>8. Pointing(s) /\ s.loaded \in Loads
      BY <3>1, <3>3, <3>7 DEF Processed, Pointing
    <3> QED BY <3>3, <3>7, <3>8 DEF Processed
  <2>2. CASE ~(n_proc_in_q > 0)
    <3>1. s = Now
      BY <2>2
    <3> HIDE DEF s
    <3> QED BY <1>1, <1>2, <1>5, <2>2, <3>1 DEF Pointing
  <2> QED BY <2>1, <2>2
<1> HIDE DEF s
<1>7. \A i \in 1..Len(cached_node) :
        LET c == cached_node[i]
        IN  /\ NbrsAt(c.id, c.ptr) \in Seq(Nodes)
            /\ FewReads => NbrsAt(c.id, c.ptr) = Nbrs[c.id]
  <2> SUFFICES ASSUME NEW i \in 1..Len(cached_node)
               PROVE  LET c == cached_node[i]
                      IN  /\ NbrsAt(c.id, c.ptr) \in Seq(Nodes)
                          /\ FewReads => NbrsAt(c.id, c.ptr) = Nbrs[c.id]
    OBVIOUS
  <2>1. cached_node[i] \in [id : Nodes, ptr : Pointers]
    BY <1>1, ElementOfSeq
  <2>2. cached_node[i].ptr = InMemory \/ RightPointer(cached_node[i].id, cached_node[i].ptr)
    BY DEF Inv, PointerInv
  <2>3. cached_node[i].id \in Nodes /\ cached_node[i].ptr \in Pointers
    BY <2>1
  <2> QED BY <1>1, <2>2, <2>3, NbrsAtFacts
<1>8. /\ Good(u) /\ Grown(s, u)
      /\ \A i \in 1..Len(cached_node) :
           ToSet(NbrsAt(cached_node[i].id, cached_node[i].ptr)) \subseteq u.visited
  BY <1>1, <1>6, <1>7, ExpandCopiesKeeps
<1> HIDE DEF u
<1>9. /\ u.retset \in ListOver(Nodes, pq) /\ Len(u.retset) \in 1..LSearch
      /\ u.visited \subseteq Nodes /\ KeepsBest(u.retset, u.visited, pq)
  BY <1>8 DEF Good, Keeps, SearchState
<1>10. s.visited \subseteq u.visited /\ u.loaded = s.loaded
  BY <1>8 DEF Grown
<1>11. ASSUME NEW i \in 1..Len(u.retset)
       PROVE  \/ /\ u.retset[i].id \notin visited
                 /\ \/ u.retset[i].flag
                    \/ FewReads => ToSet(Nbrs[u.retset[i].id]) \subseteq u.visited
              \/ \E j \in 1..Len(retset) : u.retset[i] = retset[j]
  <2>1. \/ u.retset[i].flag /\ u.retset[i].id \notin s.visited
        \/ \E j \in 1..Len(s.retset) : u.retset[i] = s.retset[j]
    BY <1>8 DEF Grown
  <2> QED BY <2>1, <1>6, <1>10
<1>12. FewReads => \A i \in 1..Len(cached_node) :
                     ToSet(Nbrs[cached_node[i].id]) \subseteq u.visited
  BY <1>7, <1>8
<1>13. \A n \in DOMAIN u.loaded : RightPointer(n, u.loaded[n])
  BY <1>6, <1>10 DEF Pointing
<1>14. n_proc_in_q > 0 => target \in Nodes /\ ToSet(Nbrs[target]) \subseteq u.visited
  BY <1>4, <1>6, <1>10
<1>15. visited \subseteq u.visited /\ u.loaded \in Loads
  BY <1>6, <1>10
<1> QED BY <1>3, <1>9, <1>11, <1>12, <1>13, <1>14, <1>15 DEF target, t

\* Process takes the first completed read, if there is one, off the queue; what
\* waited for it is expanded and evaluated, and so is what needed no read.
LEMMA ProcessKeeps ==
  ASSUME Inv, Process
  PROVE  Inv'
<1> DEFINE target == frontier[Head(sector_buffers)]
           bufs == Len(sector_buffers)
<1>1. /\ pc = "process" /\ pc' = "collect" /\ cached_node' = <<>> /\ n_cached_in_q' = 0
      /\ IF n_proc_in_q > 0
           THEN /\ full_retset' = [full_retset EXCEPT ![target] = @ + 1]
                /\ sector_buffers' = Tail(sector_buffers) /\ n_proc_in_q' = n_proc_in_q - 1
           ELSE UNCHANGED <<full_retset, sector_buffers, n_proc_in_q>>
      /\ UNCHANGED <<pq, exact, page_visited, frontier, flying, n_io_in_q, refine>>
  BY DEF Process
<1>2. /\ sector_buffers \in Seq(Nat) /\ bufs \in Nat /\ n_proc_in_q = bufs
      /\ \A i \in 1..bufs : sector_buffers[i] \in 1..Len(frontier)
      /\ n_io_in_q = Cardinality(flying)
  BY <1>1, TypeFacts DEF Inv, ReadsInv, Traversal, TypeOK
<1>3. /\ retset' \in ListOver(Nodes, pq) /\ Len(retset') \in 1..LSearch
      /\ visited' \subseteq Nodes /\ visited \subseteq visited'
      /\ KeepsBest(retset', visited', pq)
      /\ loaded' \in Loads /\ \A n \in DOMAIN loaded' : RightPointer(n, loaded'[n])
      /\ n_proc_in_q > 0 => target \in Nodes /\ ToSet(Nbrs[target]) \subseteq visited'
  BY ProcessedFacts
<1>4. /\ sector_buffers' \in Seq(Nat) /\ n_proc_in_q' \in Nat
      /\ n_proc_in_q' = Len(sector_buffers')
      /\ n_proc_in_q > 0 => /\ Len(sector_buffers') = bufs - 1 /\ bufs > 0
                            /\ Head(sector_buffers) = sector_buffers[1]
                            /\ \A i \in 1..(bufs - 1) : sector_buffers'[i] = sector_buffers[i + 1]
  <2> HIDE DEF target
  <2>1. CASE n_proc_in_q > 0
    <3>1. sector_buffers # <<>> /\ sector_buffers \in Seq(Nat)
      BY <2>1, <1>2
    <3>2. /\ Tail(sector_buffers) \in Seq(Nat) /\ Len(Tail(sector_buffers)) = bufs - 1
          /\ \A i \in 1..Len(Tail(sector_buffers)) : Tail(sector_buffers)[i] = sector_buffers[i + 1]
      BY ONLY <3>1, HeadTailProperties
    <3>3. Head(sector_buffers) = sector_buffers[1]
      BY <3>1
    <3>4. sector_buffers' = Tail(sector_buffers) /\ n_proc_in_q' = n_proc_in_q - 1 /\ bufs > 0
      BY <2>1, <1>1, <1>2
    <3> HIDE DEF bufs
    <3> QED BY <3>2, <3>3, <3>4, <1>2
  <2>2. CASE ~(n_proc_in_q > 0)
    BY <2>2, <1>1, <1>2
  <2> QED BY <2>1, <2>2
<1>5. \A i \in 1..Len(sector_buffers') : sector_buffers'[i] \in 1..Len(frontier)
  <2> HIDE DEF target
  <2>1. CASE n_proc_in_q > 0
    <3> HIDE DEF bufs
    <3>1. \A i \in 1..(bufs - 1) : i + 1 \in 1..bufs
      BY <1>2
    <3> QED BY <3>1, <2>1, <1>2, <1>4
  <2>2. CASE ~(n_proc_in_q > 0)
    BY <2>2, <1>1, <1>2
  <2> QED BY <2>1, <2>2
<1>6. /\ full_retset' \in [Nodes -> Nat]
      /\ \A n \in Nodes : full_retset[n] > 0 => full_retset'[n] > 0
      /\ n_proc_in_q > 0 => full_retset'[target] > 0
  <2>1. full_retset \in [Nodes -> Nat]
    BY DEF Inv, TypeOK
  <2>2. CASE n_proc_in_q > 0
    <3>1. target \in Nodes /\ full_retset' = [full_retset EXCEPT ![target] = @ + 1]
      BY <1>1, <1>3, <2>2
    <3> HIDE DEF target
    <3> QED BY ONLY <2>1, <3>1
  <2>3. CASE ~(n_proc_in_q > 0)
    BY <2>1, <2>3, <1>1
  <2> QED BY <2>2, <2>3
<1>7. TypeOK'
  <2>1. cached_node' \in Seq([id : Nodes, ptr : Pointers]) /\ n_cached_in_q' \in Nat
        /\ pc' \in Traversal
    BY <1>1 DEF Traversal
  <2> QED BY <1>1, <1>3, <1>4, <1>6, <2>1 DEF Inv, TypeOK, refine
<1>8. ListInv'
  BY <1>1, <1>3 DEF ListInv
<1>9. ReadsInv'
  BY <1>1, <1>2, <1>4, <1>5 DEF ReadsInv, Traversal, Refined
<1>10. PointerInv'
  <2>1. \A i : ~(i \in 1..Len(cached_node'))
    BY <1>1
  <2>2. \A n \in DOMAIN loaded' : RightPointer(n, loaded'[n])
    BY <1>3
  <2> QED BY <1>1, <2>1, <2>2 DEF PointerInv, RightPointer
<1>11. ASSUME NEW n \in page_visited, Pending(n)
       PROVE  Pending(n)' \/ (n_proc_in_q > 0 /\ n = target)
  <2>1. PICK t \in 1..Len(frontier) :
          /\ frontier[t] = n
          /\ t \in flying \/ \E i \in 1..bufs : sector_buffers[i] = t
    BY <1>11 DEF Pending
  <2>2. CASE t \in flying
    BY <2>1, <2>2, <1>1 DEF Pending
  <2>3. CASE \E i \in 1..bufs : sector_buffers[i] = t
    <3>1. PICK i \in 1..bufs : sector_buffers[i] = t
      BY <2>3
    <3>2. n_proc_in_q > 0
      BY <1>2
    <3>3. CASE i = 1
      BY <2>1, <3>1, <3>2, <3>3, <1>4
    <3>4. CASE i # 1
      <4>1. i - 1 \in 1..Len(sector_buffers') /\ sector_buffers'[i - 1] = t
        <5>1. i - 1 \in 1..(bufs - 1) /\ (i - 1) + 1 = i
          <6> HIDE DEF bufs
          <6> QED BY <3>4, <1>2
        <5> QED BY <5>1, <3>1, <3>2, <1>4
      <4> QED BY <4>1, <2>1, <1>1 DEF Pending
    <3> QED BY <3>3, <3>4
  <2> QED BY <2>1, <2>2, <2>3
<1> HIDE DEF target, bufs
<1>12. ASSUME FewReads, NEW n \in page_visited
       PROVE  Pending(n)' \/ ToSet(Nbrs[n]) \subseteq visited'
  <2>1. Pending(n) \/ Expanded(n)
    BY <1>1, <1>12 DEF Inv, TraversalInv, Traversal
  <2> QED BY <2>1, <1>3, <1>11 DEF Expanded
<1>13. ASSUME FewReads, NEW i \in 1..Len(retset')
       PROVE  \/ retset'[i].flag \/ ToSet(Nbrs[retset'[i].id]) \subseteq visited'
              \/ retset'[i].id \in page_visited
  <2>1. \/ retset'[i].flag
        \/ FewReads => ToSet(Nbrs[retset'[i].id]) \subseteq visited'
        \/ \E j \in 1..Len(retset) : retset'[i] = retset[j]
    BY ProcessedFacts
  <2>2. ASSUME NEW j \in 1..Len(retset), retset'[i] = retset[j]
        PROVE  \/ retset'[i].flag \/ ToSet(Nbrs[retset'[i].id]) \subseteq visited'
               \/ retset'[i].id \in page_visited
    <3>1. \/ retset[j].flag \/ Expanded(retset[j].id)
          \/ \E k \in 1..Len(cached_node) : cached_node[k].id = retset[j].id
          \/ retset[j].id \in page_visited
      BY <1>1, <1>13 DEF Inv, TraversalInv, Traversal
    <3>2. Expanded(retset[j].id) => ToSet(Nbrs[retset[j].id]) \subseteq visited'
      BY <1>3 DEF Expanded
    <3>3. \A k \in 1..Len(cached_node) : ToSet(Nbrs[cached_node[k].id]) \subseteq visited'
      BY <1>13, ProcessedFacts
    <3> QED BY <2>2, <3>1, <3>2, <3>3
  <2> QED BY <1>13, <2>1, <2>2
<1>14. TraversalInv'
  <2>1. FewReads' <=> FewReads
    BY <1>1 DEF FewReads
  <2>2. page_visited' = page_visited /\ pc' = "collect"
    BY <1>1
  <2>3. FewReads => /\ \A n \in page_visited : Pending(n)' \/ ToSet(Nbrs[n]) \subseteq visited'
                    /\ \A i \in 1..Len(retset') :
                         \/ retset'[i].flag \/ ToSet(Nbrs[retset'[i].id]) \subseteq visited'
                         \/ retset'[i].id \in page_visited
    BY <1>12, <1>13
  <2> QED BY <2>1, <2>2, <2>3 DEF TraversalInv, TraversalClosed, Traversal, Expanded
<1>15. RefineInv'
  <2>1. ASSUME NEW n \in page_visited PROVE Pending(n)' \/ full_retset'[n] > 0
    <3>1. n \in Nodes /\ (Pending(n) \/ full_retset[n] > 0)
      BY DEF Inv, TypeOK, RefineInv
    <3> QED BY <3>1, <1>6, <1>11
  <2> QED BY <1>1, <2>1 DEF RefineInv, AnswerNearest
<1> QED BY <1>7, <1>8, <1>9, <1>10, <1>14, <1>15 DEF Inv

\* Completed reads go from the flight to the parser, in any order.
LEMMA CollectKeeps ==
  ASSUME Inv, NEW n \in 0..n_io_in_q, Collect(n)
  PROVE  Inv'
<1> USE DEF sets, cached, refine
<1>16. PICK finished \in SUBSET flying :
         /\ Cardinality(finished) = n
         /\ \E s \in SetToSeqs(finished) :
              sector_buffers' = sector_buffers \o s /\ flying' = flying \ finished
  BY DEF Collect, kSubset
<1>1. PICK s \in SetToSeqs(finished) :
        /\ Cardinality(finished) = n
        /\ sector_buffers' = sector_buffers \o s /\ flying' = flying \ finished
  BY <1>16
<1>2. /\ pc = "collect" /\ pc' = "dispatch"
      /\ n_io_in_q' = n_io_in_q - n /\ n_proc_in_q' = n_proc_in_q + n
      /\ UNCHANGED <<pq, exact, sets, frontier, cached, refine>>
  BY DEF Collect
<1> DEFINE bufs == Len(sector_buffers)
<1>3. /\ sector_buffers \in Seq(Nat) /\ bufs \in Nat /\ n_proc_in_q = bufs
      /\ n_io_in_q \in Nat /\ n \in Nat /\ n <= n_io_in_q
      /\ \A i \in 1..bufs : sector_buffers[i] \in 1..Len(frontier)
      /\ n_io_in_q = Cardinality(flying) /\ n_cached_in_q = Len(cached_node)
      /\ flying \subseteq 1..Len(frontier) /\ IsFiniteSet(flying)
  <2>1. /\ sector_buffers \in Seq(Nat) /\ bufs \in Nat /\ n_proc_in_q = bufs
        /\ \A i \in 1..bufs : sector_buffers[i] \in 1..Len(frontier)
        /\ n_io_in_q = Cardinality(flying) /\ n_cached_in_q = Len(cached_node)
        /\ flying \subseteq 1..Len(frontier) /\ IsFiniteSet(flying) /\ n_io_in_q \in Nat
    BY <1>2, TypeFacts DEF Inv, ReadsInv, Traversal, TypeOK
  <2>2. n \in Nat /\ n <= n_io_in_q
    BY ONLY <2>1, n \in 0..n_io_in_q
  <2> QED BY <2>1, <2>2
<1>4. IsFiniteSet(finished)
  BY <1>3, FS_Subset
<1>5. /\ s \in Seq(finished) /\ Len(s) = n /\ finished = {s[i] : i \in 1..n}
  <2>1. s \in Seq(finished) /\ Len(s) = Cardinality(finished) /\ finished = {s[i] : i \in 1..Len(s)}
    BY <1>4, CompletionOrder
  <2> QED BY <1>1, <2>1
<1>6. Cardinality(flying \ finished) = n_io_in_q - n
  <2>1. IsFiniteSet(flying \ finished) /\ flying \ finished \in SUBSET flying
    BY <1>3, FS_Subset
  <2>2. finished \cup (flying \ finished) = flying /\ finished \cap (flying \ finished) = {}
    OBVIOUS
  <2>3. Cardinality(flying) =
          Cardinality(finished) + Cardinality(flying \ finished) - Cardinality({})
    BY <1>4, <2>1, <2>2, FS_Union
  <2>4. Cardinality({}) = 0 /\ Cardinality(flying \ finished) \in Nat
    BY <2>1, FS_EmptySet, FS_CardinalityType
  <2> QED BY <1>1, <1>3, <2>3, <2>4
<1>7. /\ sector_buffers' \in Seq(Nat) /\ Len(sector_buffers') = bufs + n
      /\ \A i \in 1..bufs : i \in 1..Len(sector_buffers') /\ sector_buffers'[i] = sector_buffers[i]
      /\ \A i \in 1..n : /\ bufs + i \in 1..Len(sector_buffers')
                         /\ sector_buffers'[bufs + i] = s[i]
      /\ \A i \in 1..Len(sector_buffers') : i \in 1..bufs \/ \E j \in 1..n : i = bufs + j
  <2>1. s \in Seq(Nat)
    <3>1. finished \subseteq Nat
      BY <1>3
    <3>2. s \in [1..n -> Nat]
      BY <1>5, <3>1
    <3> QED BY <1>3, <3>2
  <2>2. sector_buffers \in Seq(Nat)
    BY <1>3
  <2> DEFINE both == sector_buffers \o s
  <2>3. /\ both \in Seq(Nat) /\ Len(both) = bufs + Len(s)
        /\ \A i \in 1..bufs : i \in 1..Len(both) /\ both[i] = sector_buffers[i]
        /\ \A i \in 1..Len(s) : bufs + i \in 1..Len(both) /\ both[bufs + i] = s[i]
        /\ \A i \in 1..Len(both) : i \in 1..bufs \/ \E j \in 1..Len(s) : i = bufs + j
    BY ONLY <2>1, <2>2, Joined
  <2> HIDE DEF both
  <2>4. sector_buffers' = both
    BY <1>1 DEF both
  <2> QED BY <1>5, <2>3, <2>4
<1>8. \A i \in 1..n : s[i] \in finished
  BY <1>5
<1>9. TypeOK'
  <2>1. flying' \subseteq 1..Len(frontier) /\ n_io_in_q' \in Nat /\ n_proc_in_q' \in Nat
    BY <1>1, <1>2, <1>3
  <2> QED BY <1>2, <1>7, <2>1 DEF Inv, TypeOK, Traversal
<1>10. ListInv'
  BY <1>2, ListUnchanged
<1>11. ReadsInv'
  <2>1. \A i \in 1..Len(sector_buffers') : sector_buffers'[i] \in 1..Len(frontier)
    BY <1>3, <1>7, <1>8
  <2>2. n_proc_in_q' = Len(sector_buffers') /\ n_io_in_q' = Cardinality(flying')
    BY <1>1, <1>2, <1>3, <1>6, <1>7
  <2> QED BY <1>2, <1>3, <2>1, <2>2 DEF ReadsInv, Traversal, Refined
<1>12. PointerInv'
  BY <1>2, PointersUnchanged
<1>13. ASSUME NEW p \in page_visited, Pending(p) PROVE Pending(p)'
  <2>1. PICK t \in 1..Len(frontier) :
          /\ frontier[t] = p
          /\ t \in flying \/ \E i \in 1..bufs : sector_buffers[i] = t
    BY <1>13 DEF Pending
  <2>2. t \in flying' \/ \E i \in 1..Len(sector_buffers') : sector_buffers'[i] = t
    <3>1. CASE t \in finished
      <4>1. PICK i \in 1..n : s[i] = t
        BY <3>1, <1>5
      <4>2. bufs + i \in 1..Len(sector_buffers') /\ sector_buffers'[bufs + i] = t
        BY <4>1, <1>7
      <4> QED BY <4>2
    <3>2. CASE t \in flying \ finished
      BY <3>2, <1>1
    <3>3. CASE \E i \in 1..bufs : sector_buffers[i] = t
      <4>1. PICK i \in 1..bufs : sector_buffers[i] = t
        BY <3>3
      <4>2. i \in 1..Len(sector_buffers') /\ sector_buffers'[i] = t
        BY <4>1, <1>7
      <4> QED BY <4>2
    <3> QED BY <2>1, <3>1, <3>2, <3>3
  <2> QED BY <1>2, <2>1, <2>2 DEF Pending
<1>14. TraversalInv'
  <2>1. FewReads => \A p \in page_visited : Pending(p)' \/ Expanded(p)
    BY <1>2, <1>13 DEF Inv, TraversalInv, Traversal
  <2> HIDE DEF bufs
  <2> QED BY <1>2, <2>1 DEF Inv, TraversalInv, TraversalClosed, Traversal, FewReads, Expanded
<1>15. RefineInv'
  <2>1. \A p \in page_visited : Pending(p)' \/ full_retset[p] > 0
    BY <1>13 DEF Inv, RefineInv
  <2> QED BY <1>2, <2>1 DEF RefineInv, AnswerNearest
<1> QED BY <1>9, <1>10, <1>11, <1>12, <1>14, <1>15 DEF Inv
-----------------------------------------------------------------------------
(* A round of the traversal.                                               *)

SelectState ==
  [retset : ListOver(Nodes, pq), page_visited : SUBSET Nodes, reads : Seq(Nodes),
   cached : Seq([id : Nodes, ptr : Pointers]), num_seen : Nat, disk_seen : Nat]

\* Which of the first j candidates a round has marked.
Marks(j, s) == {i \in 1..Len(retset) : i <= j /\ retset[i].flag /\ ~s.retset[i].flag}

Queued(n, list) == \E c \in ToSet(list) : c.id = n
KnownPointer(c) == c.ptr = InMemory \/ (c.id \in DOMAIN loaded /\ c.ptr = loaded[c.id])
Full(s) == s.num_seen = BeamWidth \/ s.disk_seen = BeamWidth

\* After j candidates of a round: only marks have changed, every new page has its
\* read, a candidate that was marked is to be expanded from memory or from a copy
\* or has its page read, and unless the beam is full none of the j is left unmarked.
RoundAt(j, s) ==
  /\ Len(s.retset) = Len(retset)
  /\ \A i \in 1..Len(retset) :
       /\ s.retset[i].id = retset[i].id /\ s.retset[i].distance = retset[i].distance
       /\ \/ s.retset[i].flag
          \/ ~retset[i].flag
          \/ Queued(retset[i].id, s.cached) \/ retset[i].id \in s.page_visited
       /\ s.retset[i].flag => retset[i].flag
  /\ page_visited \subseteq s.page_visited /\ s.page_visited \subseteq page_visited \cup ToSet(s.reads)
  /\ \A c \in ToSet(s.cached) : KnownPointer(c)
  /\ s.num_seen + s.disk_seen = Len(s.reads) + Len(s.cached) /\ Len(s.reads) <= s.num_seen
  /\ s.num_seen + s.disk_seen <= Cardinality(Marks(j, s))
  /\ s.num_seen <= BeamWidth /\ s.disk_seen <= BeamWidth
  /\ s.num_seen + s.disk_seen < 2 * BeamWidth
  /\ Full(s) \/ \A i \in 1..Len(retset) : i <= j => ~s.retset[i].flag

LEMMA RoundBegins ==
  ASSUME Inv
  PROVE  LET s == [retset |-> retset, page_visited |-> page_visited, reads |-> <<>>,
                   cached |-> <<>>, num_seen |-> 0, disk_seen |-> 0]
         IN  s \in SelectState /\ RoundAt(0, s)
<1> DEFINE s == [retset |-> retset, page_visited |-> page_visited, reads |-> <<>>,
                 cached |-> <<>>, num_seen |-> 0, disk_seen |-> 0]
<1>1. s \in SelectState
  BY DEF Inv, TypeOK, SelectState
<1>2. \A i \in 1..Len(retset) : ~(i <= 0)
  OBVIOUS
<1>3. Cardinality(Marks(0, s)) = 0
  <2>1. Marks(0, s) = {}
    BY <1>2 DEF Marks
  <2> QED BY <2>1, FS_EmptySet
<1>4. ToSet(s.cached) = {} /\ ToSet(s.reads) = {}
  BY DEF ToSet
<1>5. BeamWidth \in Nat \ {0}
  BY ConstantFacts
<1>6. RoundAt(0, s)
  BY <1>2, <1>3, <1>4, <1>5 DEF RoundAt
<1> QED BY <1>1, <1>6

\* A candidate is marked and goes where it is expanded from.
LEMMA SelectKeeps ==
  ASSUME Inv, NEW j \in 1..Len(retset), NEW s \in SelectState, RoundAt(j - 1, s)
  PROVE  Select(s, j) \in SelectState /\ RoundAt(j, Select(s, j))
<1> DEFINE n == retset[j].id
           list == [s.retset EXCEPT ![j].flag = FALSE]
           Taken(p, r, c, k, d) == [retset |-> list, page_visited |-> p, reads |-> r,
                                    cached |-> c, num_seen |-> k, disk_seen |-> d]
           C == [id : Nodes, ptr : Pointers]
           a == s.num_seen
           b == s.disk_seen
           lr == Len(s.reads)
           lc == Len(s.cached)
<1>1. /\ s = [retset |-> s.retset, page_visited |-> s.page_visited, reads |-> s.reads,
              cached |-> s.cached, num_seen |-> s.num_seen, disk_seen |-> s.disk_seen]
      /\ s.retset \in ListOver(Nodes, pq) /\ s.page_visited \subseteq Nodes
      /\ s.reads \in Seq(Nodes) /\ s.cached \in Seq(C)
      /\ s.num_seen \in Nat /\ s.disk_seen \in Nat
  BY DEF SelectState
<1> HIDE DEF C
<1>9. a \in Nat /\ b \in Nat /\ lr \in Nat /\ lc \in Nat
  <2>1. s.reads \in Seq(Nodes) /\ s.cached \in Seq(C)
    BY <1>1
  <2> QED BY <1>1, <2>1, LenProperties
<1>2. /\ Len(s.retset) = Len(retset)
      /\ \A i \in 1..Len(retset) :
           /\ s.retset[i].id = retset[i].id /\ s.retset[i].distance = retset[i].distance
           /\ \/ s.retset[i].flag
              \/ ~retset[i].flag
              \/ Queued(retset[i].id, s.cached) \/ retset[i].id \in s.page_visited
           /\ s.retset[i].flag => retset[i].flag
      /\ page_visited \subseteq s.page_visited
      /\ s.page_visited \subseteq page_visited \cup ToSet(s.reads)
      /\ \A c \in ToSet(s.cached) : KnownPointer(c)
      /\ s.num_seen + s.disk_seen = Len(s.reads) + Len(s.cached) /\ Len(s.reads) <= s.num_seen
      /\ s.num_seen + s.disk_seen <= Cardinality(Marks(j - 1, s))
      /\ s.num_seen <= BeamWidth /\ s.disk_seen <= BeamWidth
      /\ s.num_seen + s.disk_seen < 2 * BeamWidth
      /\ Full(s) \/ \A i \in 1..Len(retset) : i <= j - 1 => ~s.retset[i].flag
  BY DEF RoundAt
<1>10. a + b = lr + lc /\ lr <= a /\ a <= BeamWidth /\ b <= BeamWidth /\ a + b < 2 * BeamWidth
  BY <1>2
<1>11. Full(s) <=> a = BeamWidth \/ b = BeamWidth
  BY DEF Full
<1>12. a + b <= Cardinality(Marks(j - 1, s))
  BY <1>2
<1> HIDE DEF a, b, lr, lc
<1>3. n \in Nodes /\ Len(retset) \in Nat /\ BeamWidth \in Nat
  BY TypeFacts, ConstantFacts DEF Inv
<1>4. /\ list \in ListOver(Nodes, pq) /\ Len(list) = Len(retset) /\ ~list[j].flag
      /\ \A i \in 1..Len(retset) : i # j => list[i] = s.retset[i]
      /\ \A i \in 1..Len(retset) : list[i].id = retset[i].id /\ list[i].distance = retset[i].distance
  <2>1. j \in 1..Len(s.retset)
    BY <1>2
  <2>2. LET new == list
        IN  /\ new \in ListOver(Nodes, pq) /\ Len(new) = Len(s.retset) /\ ~new[j].flag
            /\ \A i \in 1..Len(s.retset) : i # j => new[i] = s.retset[i]
            /\ \A i \in 1..Len(s.retset) :
                 new[i].id = s.retset[i].id /\ new[i].distance = s.retset[i].distance
    <3>1. s.retset \in ListOver(Nodes, pq)
      BY <1>1
    <3> QED BY ONLY <2>1, <3>1, Unflagged
  <2> HIDE DEF list
  <2> QED BY <2>2, <1>2
<1>5. \A i \in 1..Len(retset) : i <= j => i <= j - 1 \/ i = j
  BY <1>3
<1>6. \A k, r : IsFiniteSet(Marks(k, r)) /\ Cardinality(Marks(k, r)) \in Nat
  <2>1. IsFiniteSet(1..Len(retset))
    BY <1>3, FS_Interval
  <2>2. \A k, r : Marks(k, r) \subseteq 1..Len(retset)
    BY DEF Marks
  <2> QED BY <2>1, <2>2, FS_Subset, FS_CardinalityType
<1>7. CASE Full(s) \/ ~retset[j].flag
  <2>1. Select(s, j) = s
    BY <1>7 DEF Select, Full
  <2>2. Full(s) \/ \A i \in 1..Len(retset) : i <= j => ~s.retset[i].flag
    BY <1>2, <1>5, <1>7
  <2>3. a + b <= Cardinality(Marks(j, s))
    <3>1. Marks(j - 1, s) \subseteq Marks(j, s)
      BY <1>3 DEF Marks
    <3>2. Cardinality(Marks(j - 1, s)) <= Cardinality(Marks(j, s))
      BY <1>6, <3>1, FS_Subset
    <3>3. Cardinality(Marks(j - 1, s)) \in Nat /\ Cardinality(Marks(j, s)) \in Nat
      BY <1>6
    <3> QED BY ONLY <1>9, <1>12, <3>2, <3>3
  <2>4. RoundAt(j, s)
    BY <1>2, <2>2, <2>3 DEF RoundAt, a, b, lr, lc
  <2> QED BY <2>1, <2>4
<1>8. CASE ~Full(s) /\ retset[j].flag
  <2>1. \A i \in 1..Len(retset) : /\ list[i].flag => retset[i].flag
                                  /\ i <= j => ~list[i].flag
                                  /\ i # j => list[i].flag = s.retset[i].flag
    <3> HIDE DEF list
    <3> QED BY <1>2, <1>4, <1>5, <1>8
  <2>2. /\ a + 1 <= BeamWidth /\ b + 1 <= BeamWidth
        /\ a + b + 1 < 2 * BeamWidth
    <3>1. a <= BeamWidth /\ a # BeamWidth /\ b <= BeamWidth /\ b # BeamWidth /\ BeamWidth \in Nat
      BY <1>3, <1>8, <1>10, <1>11
    <3> QED BY ONLY <1>9, <3>1
  <2>3. [s EXCEPT !.retset[j].flag = FALSE]
          = Taken(s.page_visited, s.reads, s.cached, a, b)
    <3>1. [s EXCEPT !.retset[j].flag = FALSE] = [s EXCEPT !.retset = list]
      OBVIOUS
    <3> HIDE DEF list
    <3>2. [s EXCEPT !.retset = list]
            = Taken(s.page_visited, s.reads, s.cached, a, b)
      BY DEF SelectState, a, b
    <3> QED BY <3>1, <3>2
  <2> HIDE DEF list
  <2>4. ASSUME NEW t, t.retset = list
        PROVE  a + b + 1 <= Cardinality(Marks(j, t))
    <3>1. Marks(j - 1, s) \subseteq Marks(j, t) /\ j \in Marks(j, t) /\ j \notin Marks(j - 1, s)
      BY <1>3, <1>4, <1>8, <2>1, <2>4 DEF Marks
    <3>2. IsFiniteSet(Marks(j, t)) /\ IsFiniteSet(Marks(j - 1, s))
      BY <1>6
    <3>3. Cardinality(Marks(j - 1, s) \cup {j}) = Cardinality(Marks(j - 1, s)) + 1
      BY <3>1, <3>2, FS_AddElement
    <3>4. Cardinality(Marks(j - 1, s) \cup {j}) <= Cardinality(Marks(j, t))
      BY <3>1, <3>2, FS_Subset
    <3>5. Cardinality(Marks(j - 1, s)) \in Nat /\ Cardinality(Marks(j, t)) \in Nat
      BY <1>6
    <3> QED BY ONLY <1>9, <1>12, <3>3, <3>4, <3>5
  <2>5. ASSUME NEW p \in SUBSET Nodes, NEW r \in Seq(Nodes), NEW c \in Seq(C),
               NEW k \in Nat, NEW d \in Nat,
               s.page_visited \subseteq p, p \subseteq page_visited \cup ToSet(r),
               ToSet(s.cached) \subseteq ToSet(c), \A e \in ToSet(c) : KnownPointer(e),
               Queued(n, c) \/ n \in p,
               k + d = Len(r) + Len(c), Len(r) <= k, k <= BeamWidth, d <= BeamWidth,
               k + d <= a + b + 1
        PROVE  Taken(p, r, c, k, d) \in SelectState /\ RoundAt(j, Taken(p, r, c, k, d))
    <3> DEFINE t == Taken(p, r, c, k, d)
    <3>1. t \in SelectState
      BY <1>4, <2>5 DEF SelectState, C
    <3>2. /\ t.retset = list /\ t.page_visited = p /\ t.reads = r /\ t.cached = c
          /\ t.num_seen = k /\ t.disk_seen = d
      OBVIOUS
    <3> HIDE DEF t
    <3>3. k + d <= Cardinality(Marks(j, t)) /\ k + d < 2 * BeamWidth
      <4>1. a + b + 1 <= Cardinality(Marks(j, t))
        BY <2>4, <3>2
      <4>2. Cardinality(Marks(j, t)) \in Nat
        BY <1>6
      <4>3. /\ k \in Nat /\ d \in Nat /\ k + d <= a + b + 1
            /\ BeamWidth \in Nat
        BY <1>3, <2>5
      <4> QED BY ONLY <1>9, <2>2, <4>1, <4>2, <4>3
    <3>4. ASSUME NEW i \in 1..Len(retset)
          PROVE  \/ list[i].flag
                 \/ ~retset[i].flag
                 \/ Queued(retset[i].id, c) \/ retset[i].id \in p
      <4>1. CASE i = j
        BY <2>5, <4>1
      <4>2. CASE i # j
        <5>1. Queued(retset[i].id, s.cached) => Queued(retset[i].id, c)
          BY <2>5 DEF Queued
        <5> QED BY <1>2, <2>1, <2>5, <4>2, <5>1
      <4> QED BY <4>1, <4>2
    <3>5. page_visited \subseteq p
      BY <1>2, <2>5
    <3>6. RoundAt(j, t)
      BY <1>4, <2>1, <2>5, <3>2, <3>3, <3>4, <3>5 DEF RoundAt
    <3> QED BY <3>1, <3>6 DEF t
  <2>7. CASE n \in MemGraph
    <3> DEFINE e == [id |-> n, ptr |-> InMemory]
               more == Append(s.cached, e)
    <3>1. Select(s, j) = Taken(s.page_visited, s.reads, more, a, b + 1)
      BY <1>8, <2>3, <2>7 DEF Select, Full, a, b
    <3>2. e \in C /\ KnownPointer(e) /\ e.id = n
      BY <1>3 DEF InMemory, Pointers, KnownPointer, C
    <3> HIDE DEF e
    <3>3. /\ more \in Seq(C) /\ Len(more) = lc + 1
          /\ ToSet(more) = ToSet(s.cached) \cup {e}
      <4>1. s.cached \in Seq(C) /\ e \in C
        BY <1>1, <3>2
      <4> QED BY ONLY <4>1, Appended DEF lc
    <3> HIDE DEF more
    <3>4. Queued(n, more) /\ \A c \in ToSet(more) : KnownPointer(c)
      BY <1>2, <3>2, <3>3 DEF Queued
    <3>5. /\ b + 1 \in Nat
          /\ a + (b + 1) = lr + Len(more)
          /\ a + (b + 1) <= a + b + 1
      BY ONLY <1>9, <1>10, <3>3
    <3> HIDE DEF Taken
    <3>6. /\ s.page_visited \in SUBSET Nodes /\ s.reads \in Seq(Nodes) /\ more \in Seq(C)
          /\ a \in Nat /\ b + 1 \in Nat
          /\ s.page_visited \subseteq s.page_visited
          /\ s.page_visited \subseteq page_visited \cup ToSet(s.reads)
          /\ ToSet(s.cached) \subseteq ToSet(more) /\ \A x \in ToSet(more) : KnownPointer(x)
          /\ Queued(n, more) \/ n \in s.page_visited
      BY <1>1, <1>2, <1>9, <1>10, <2>2, <3>3, <3>4, <3>5
    <3>7. /\ a + (b + 1) = lr + Len(more) /\ lr <= a
          /\ a <= BeamWidth /\ b + 1 <= BeamWidth /\ a + (b + 1) <= a + b + 1
      BY ONLY <1>9, <1>10, <2>2, <3>2, <3>3, <3>5
    <3>8. /\ a + (b + 1) = Len(s.reads) + Len(more) /\ Len(s.reads) <= a
          /\ a <= BeamWidth /\ b + 1 <= BeamWidth /\ a + (b + 1) <= a + b + 1
      BY Zenon, <3>7 DEF lr, lc
    <3>9. /\ Taken(s.page_visited, s.reads, more, a, b + 1) \in SelectState
          /\ RoundAt(j, Taken(s.page_visited, s.reads, more, a, b + 1))
      BY ONLY <2>5, <3>6, <3>8
    <3> QED BY ONLY <3>1, <3>9
  <2>8. CASE n \notin MemGraph /\ n \in DOMAIN loaded
    <3> DEFINE e == [id |-> n, ptr |-> loaded[n]]
               more == Append(s.cached, e)
    <3>1. Select(s, j) = Taken(s.page_visited, s.reads, more, a + 1, b)
      BY <1>8, <2>3, <2>8 DEF Select, Full, a, b
    <3>2. e \in C /\ KnownPointer(e) /\ e.id = n
      <4>1. loaded[n] \in Pointers
        BY <2>8, LoadsFacts DEF Inv, TypeOK
      <4> QED BY <1>3, <2>8, <4>1 DEF KnownPointer, C
    <3> HIDE DEF e
    <3>3. /\ more \in Seq(C) /\ Len(more) = lc + 1
          /\ ToSet(more) = ToSet(s.cached) \cup {e}
      <4>1. s.cached \in Seq(C) /\ e \in C
        BY <1>1, <3>2
      <4> QED BY ONLY <4>1, Appended DEF lc
    <3> HIDE DEF more
    <3>4. Queued(n, more) /\ \A c \in ToSet(more) : KnownPointer(c)
      BY <1>2, <3>2, <3>3 DEF Queued
    <3>5. /\ a + 1 \in Nat /\ lr <= a + 1
          /\ (a + 1) + b = lr + Len(more)
          /\ (a + 1) + b <= a + b + 1
      BY ONLY <1>9, <1>10, <3>3
    <3> HIDE DEF Taken
    <3>6. /\ s.page_visited \in SUBSET Nodes /\ s.reads \in Seq(Nodes) /\ more \in Seq(C)
          /\ a + 1 \in Nat /\ b \in Nat
          /\ s.page_visited \subseteq s.page_visited
          /\ s.page_visited \subseteq page_visited \cup ToSet(s.reads)
          /\ ToSet(s.cached) \subseteq ToSet(more) /\ \A x \in ToSet(more) : KnownPointer(x)
          /\ Queued(n, more) \/ n \in s.page_visited
      BY <1>1, <1>2, <1>9, <1>10, <2>2, <3>3, <3>4, <3>5
    <3>7. /\ (a + 1) + b = lr + Len(more) /\ lr <= a + 1
          /\ a + 1 <= BeamWidth /\ b <= BeamWidth /\ (a + 1) + b <= a + b + 1
      BY ONLY <1>9, <1>10, <2>2, <3>2, <3>3, <3>5
    <3>8. /\ (a + 1) + b = Len(s.reads) + Len(more) /\ Len(s.reads) <= a + 1
          /\ a + 1 <= BeamWidth /\ b <= BeamWidth /\ (a + 1) + b <= a + b + 1
      BY Zenon, <3>7 DEF lr, lc
    <3>9. /\ Taken(s.page_visited, s.reads, more, a + 1, b) \in SelectState
          /\ RoundAt(j, Taken(s.page_visited, s.reads, more, a + 1, b))
      BY ONLY <2>5, <3>6, <3>8
    <3> QED BY ONLY <3>1, <3>9
  <2>9. CASE n \notin MemGraph /\ n \notin DOMAIN loaded /\ n \in s.page_visited
    <3>1. Select(s, j) = Taken(s.page_visited, s.reads, s.cached, a, b)
      BY <1>8, <2>3, <2>9 DEF Select, Full, a, b
    <3> HIDE DEF Taken
    <3>6. /\ s.page_visited \in SUBSET Nodes /\ s.reads \in Seq(Nodes) /\ s.cached \in Seq(C)
          /\ a \in Nat /\ b \in Nat
          /\ s.page_visited \subseteq s.page_visited
          /\ s.page_visited \subseteq page_visited \cup ToSet(s.reads)
          /\ ToSet(s.cached) \subseteq ToSet(s.cached) /\ \A x \in ToSet(s.cached) : KnownPointer(x)
          /\ Queued(n, s.cached) \/ n \in s.page_visited
      BY <1>1, <1>2, <1>9, <2>9
    <3>7. /\ a + b = lr + lc /\ lr <= a
          /\ a <= BeamWidth /\ b <= BeamWidth /\ a + b <= a + b + 1
      BY ONLY <1>9, <1>10
    <3>8. /\ a + b = Len(s.reads) + Len(s.cached) /\ Len(s.reads) <= a
          /\ a <= BeamWidth /\ b <= BeamWidth /\ a + b <= a + b + 1
      BY Zenon, <3>7 DEF lr, lc
    <3>9. /\ Taken(s.page_visited, s.reads, s.cached, a, b) \in SelectState
          /\ RoundAt(j, Taken(s.page_visited, s.reads, s.cached, a, b))
      BY ONLY <2>5, <3>6, <3>8
    <3> QED BY ONLY <3>1, <3>9
  <2>10. CASE n \notin MemGraph /\ n \notin DOMAIN loaded /\ n \notin s.page_visited
    <3> DEFINE more == Append(s.reads, n)
               p == s.page_visited \cup {n}
    <3>1. Select(s, j) = Taken(p, more, s.cached, a + 1, b)
      BY <1>8, <2>3, <2>10 DEF Select, Full, a, b
    <3>2. /\ more \in Seq(Nodes) /\ Len(more) = lr + 1
          /\ ToSet(more) = ToSet(s.reads) \cup {n}
      BY <1>1, <1>3, Appended DEF lr
    <3> HIDE DEF more
    <3>3. /\ a + 1 \in Nat /\ Len(more) <= a + 1
          /\ (a + 1) + b = Len(more) + lc
          /\ (a + 1) + b <= a + b + 1
      BY ONLY <1>9, <1>10, <3>2
    <3>4. p \in SUBSET Nodes /\ p \subseteq page_visited \cup ToSet(more)
          /\ n \in p /\ s.page_visited \subseteq p
      BY <1>1, <1>2, <1>3, <3>2
    <3> HIDE DEF Taken, p
    <3>6. /\ p \in SUBSET Nodes /\ more \in Seq(Nodes) /\ s.cached \in Seq(C)
          /\ a + 1 \in Nat /\ b \in Nat
          /\ s.page_visited \subseteq p /\ p \subseteq page_visited \cup ToSet(more)
          /\ ToSet(s.cached) \subseteq ToSet(s.cached) /\ \A x \in ToSet(s.cached) : KnownPointer(x)
          /\ Queued(n, s.cached) \/ n \in p
      BY <1>1, <1>2, <1>9, <1>10, <2>2, <3>2, <3>3, <3>4
    <3>7. /\ (a + 1) + b = Len(more) + lc /\ Len(more) <= a + 1
          /\ a + 1 <= BeamWidth /\ b <= BeamWidth /\ (a + 1) + b <= a + b + 1
      BY ONLY <1>9, <1>10, <2>2, <3>2, <3>3
    <3>8. /\ (a + 1) + b = Len(more) + Len(s.cached) /\ Len(more) <= a + 1
          /\ a + 1 <= BeamWidth /\ b <= BeamWidth /\ (a + 1) + b <= a + b + 1
      BY Zenon, <3>7 DEF lr, lc
    <3>9. /\ Taken(p, more, s.cached, a + 1, b) \in SelectState
          /\ RoundAt(j, Taken(p, more, s.cached, a + 1, b))
      BY ONLY <2>5, <3>6, <3>8
    <3> QED BY ONLY <3>1, <3>9
  <2> QED BY <2>7, <2>8, <2>9, <2>10
<1> QED BY <1>7, <1>8

\* The loop over the candidates of a round.
SelectFold == INSTANCE CandidateListProofs WITH Op <- Select

\* A round goes through the whole list.
LEMMA RoundFacts ==
  ASSUME Inv
  PROVE  Round \in SelectState /\ RoundAt(Len(retset), Round)
<1> DEFINE k == Len(retset)
           b == [retset |-> retset, page_visited |-> page_visited, reads |-> <<>>,
                 cached |-> <<>>, num_seen |-> 0, disk_seen |-> 0]
           q == [i \in 1..k |-> i]
           S == [i \in 0..k |-> {s \in SelectState : RoundAt(i, s)}]
<1>1. k \in Nat
  BY TypeFacts DEF Inv
<1>2. DOMAIN q = 1..k /\ \A i \in 1..k : q[i] = i
  OBVIOUS
<1>3. b \in S[0]
  <2> HIDE DEF b
  <2>1. b \in SelectState /\ RoundAt(0, b)
    BY RoundBegins DEF b
  <2> QED BY <1>1, <2>1
<1>4. ASSUME NEW i \in 1..k, NEW s \in S[i - 1] PROVE Select(s, q[i]) \in S[i]
  <2> DEFINE t == Select(s, i)
  <2>1. i - 1 \in 0..k /\ i \in 0..k
    BY <1>1
  <2>2. s \in SelectState /\ RoundAt(i - 1, s)
    BY <2>1
  <2>3. t \in SelectState /\ RoundAt(i, t)
    BY <2>2, SelectKeeps
  <2> HIDE DEF t
  <2> QED BY <1>2, <2>1, <2>3 DEF t
<1> HIDE DEF S, k
<1>5. SelectFold!FoldLeft(Select, b, q) \in S[k]
  BY <1>1, <1>2, <1>3, <1>4, SelectFold!FoldKeeps
<1>6. Round = SelectFold!FoldLeft(Select, b, q)
  BY Zenon DEF Round, b, q, k, FoldLeft, MapThenFoldSet, Max, SelectFold!FoldLeft,
               SelectFold!MapThenFoldSet, SelectFold!Max
<1> HIDE DEF b, q
<1>7. Round \in S[k]
  BY <1>5, <1>6
<1> QED BY <1>1, <1>7 DEF S, k

\* The reads of a round go in flight.
LEMMA DispatchParts ==
  ASSUME Inv, Dispatch
  PROVE  /\ pc = "dispatch" /\ RoundOpen /\ flying = {} /\ cached_node = <<>>
         /\ retset' = Round.retset /\ page_visited' = Round.page_visited
         /\ frontier' = frontier \o Round.reads
         /\ flying' = (Len(frontier) + 1)..(Len(frontier) + Len(Round.reads))
         /\ n_io_in_q' = Len(Round.reads)
         /\ cached_node' = Round.cached /\ n_cached_in_q' = Len(Round.cached)
         /\ selected' = selected + Len(Round.reads) + Len(Round.cached)
         /\ pc' = IF LoopEnds(Round) THEN "refine" ELSE "process"
         /\ UNCHANGED <<pq, exact, visited, full_retset, loaded, sector_buffers, n_proc_in_q,
                        refine, indices>>
<1> DEFINE r == Round
<1>1. /\ pc = "dispatch" /\ RoundOpen
      /\ retset' = r.retset /\ page_visited' = r.page_visited
      /\ frontier' = frontier \o r.reads
      /\ flying' = flying \cup (Len(frontier) + 1)..(Len(frontier) + Len(r.reads))
      /\ n_io_in_q' = n_io_in_q + Len(r.reads)
      /\ cached_node' = cached_node \o r.cached
      /\ n_cached_in_q' = n_cached_in_q + Len(r.cached)
      /\ selected' = selected + Len(r.reads) + Len(r.cached)
      /\ pc' = IF LoopEnds(r) THEN "refine" ELSE "process"
      /\ UNCHANGED <<pq, exact, visited, full_retset, loaded, sector_buffers, n_proc_in_q,
                     refine, indices>>
  BY Zenon DEF Dispatch
<1> HIDE DEF r
<1>2. /\ n_io_in_q = 0 /\ n_cached_in_q = 0 /\ n_io_in_q = Cardinality(flying)
      /\ n_cached_in_q = Len(cached_node) /\ IsFiniteSet(flying)
      /\ cached_node \in Seq([id : Nodes, ptr : Pointers])
  BY <1>1, TypeFacts DEF RoundOpen, Inv, ReadsInv, Traversal, TypeOK
<1>3. flying = {}
  BY <1>2, FS_EmptySet
<1>4. cached_node = <<>>
  BY <1>2, EmptySeq
<1>5. r.reads \in Seq(Nodes) /\ r.cached \in Seq([id : Nodes, ptr : Pointers])
  BY RoundFacts DEF r, SelectState
<1>6. Len(r.reads) \in Nat /\ Len(r.cached) \in Nat
  BY <1>5, LenProperties
<1>7. cached_node \o r.cached = r.cached
  BY <1>4, <1>5, ConcatEmptySeq
<1> QED BY <1>1, <1>2, <1>3, <1>4, <1>6, <1>7 DEF r

\* A round without reads and expansions, when nothing waits: no candidate is left
\* to be selected, and each was expanded.
LEMMA EmptyRound ==
  ASSUME Inv, Dispatch, LoopEnds(Round)
  PROVE  /\ flying' = {} /\ page_visited' = page_visited
         /\ sector_buffers = <<>> /\ cached_node' = <<>>
         /\ \A i \in 1..Len(retset) : ~Round.retset[i].flag /\ retset[i].id = Round.retset[i].id
         /\ FewReads => \A i \in 1..Len(retset) : Expanded(retset[i].id)
<1> DEFINE r == Round
<1>1. /\ pc = "dispatch" /\ flying = {} /\ cached_node = <<>>
      /\ page_visited' = r.page_visited /\ cached_node' = r.cached
      /\ flying' = (Len(frontier) + 1)..(Len(frontier) + Len(r.reads))
  BY DispatchParts
<1>2. /\ n_io_in_q + Len(r.reads) = 0 /\ n_proc_in_q = 0
      /\ n_cached_in_q + Len(r.cached) = 0
  BY Zenon DEF LoopEnds
<1>3. r \in SelectState /\ RoundAt(Len(retset), r)
  BY RoundFacts
<1> HIDE DEF r
<1>4. /\ n_io_in_q \in Nat /\ n_cached_in_q \in Nat /\ Len(frontier) \in Nat
      /\ n_proc_in_q = Len(sector_buffers) /\ sector_buffers \in Seq(Nat)
      /\ Len(retset) \in Nat
  BY <1>1, TypeFacts DEF Inv, ReadsInv, Traversal, TypeOK
<1>5. r.reads \in Seq(Nodes) /\ r.cached \in Seq([id : Nodes, ptr : Pointers])
      /\ r.num_seen \in Nat /\ r.disk_seen \in Nat
  BY <1>3 DEF SelectState
<1>6. Len(r.reads) \in Nat /\ Len(r.cached) \in Nat
  BY <1>5, LenProperties
<1>7. Len(r.reads) = 0 /\ Len(r.cached) = 0
  BY <1>2, <1>4, <1>6
<1>8. r.reads = <<>> /\ r.cached = <<>> /\ sector_buffers = <<>>
  BY <1>2, <1>4, <1>5, <1>7, EmptySeq
<1>9. ToSet(r.reads) = {} /\ ToSet(r.cached) = {}
  BY <1>8 DEF ToSet
<1>10. flying' = {}
  BY <1>1, <1>4, <1>7
<1>11. page_visited' = page_visited
  BY <1>1, <1>3, <1>9 DEF RoundAt
<1>12. \A i \in 1..Len(retset) : ~r.retset[i].flag /\ retset[i].id = r.retset[i].id
  <2>1. r.num_seen + r.disk_seen = 0
    BY <1>3, <1>7 DEF RoundAt
  <2>2. r.num_seen = 0 /\ r.disk_seen = 0
    <3> DEFINE a == r.num_seen
               b == r.disk_seen
    <3>1. a \in Nat /\ b \in Nat /\ a + b = 0
      BY <1>5, <2>1
    <3> HIDE DEF a, b
    <3>2. a = 0 /\ b = 0
      BY ONLY <3>1
    <3> QED BY <3>2 DEF a, b
  <2>3. ~Full(r)
    BY <2>2, ConstantFacts DEF Full
  <2>4. \A i \in 1..Len(retset) : i <= Len(retset)
    OBVIOUS
  <2> QED BY <1>3, <2>3, <2>4 DEF RoundAt
<1>13. ASSUME FewReads, NEW n \in page_visited PROVE Expanded(n)
  <2>1. ~Pending(n)
    BY <1>1, <1>8 DEF Pending
  <2> QED BY <1>1, <1>13, <2>1 DEF Inv, TraversalInv, Traversal
<1>14. ASSUME FewReads, NEW i \in 1..Len(retset) PROVE Expanded(retset[i].id)
  <2> DEFINE n == retset[i].id
  <2>1. \/ retset[i].flag \/ Expanded(n)
        \/ \E k \in 1..Len(cached_node) : cached_node[k].id = n
        \/ n \in page_visited
    BY <1>1, <1>14 DEF Inv, TraversalInv, Traversal
  <2>2. \A k : ~(k \in 1..Len(cached_node))
    BY <1>1
  <2>3. retset[i].flag => Queued(n, r.cached) \/ n \in r.page_visited
    BY <1>3, <1>12 DEF RoundAt
  <2>4. ~Queued(n, r.cached)
    BY <1>9 DEF Queued
  <2> QED BY <1>1, <1>11, <1>13, <1>14, <2>1, <2>2, <2>3, <2>4
<1> QED BY <1>1, <1>8, <1>10, <1>11, <1>12, <1>14 DEF r

\* The reads issued behind those issued before.
LEMMA Lengthened ==
  ASSUME NEW S, NEW a \in Seq(S), NEW b \in Seq(S), NEW c, c = a \o b
  PROVE  /\ c \in Seq(S)
         /\ Len(c) = Len(a) + Len(b)
         /\ \A i \in 1..Len(a) : i \in 1..Len(c) /\ c[i] = a[i]
         /\ \A i \in 1..Len(b) : Len(a) + i \in 1..Len(c) /\ c[Len(a) + i] = b[i]
<1>1. /\ a \o b \in Seq(S)
      /\ Len(a \o b) = Len(a) + Len(b)
      /\ \A i \in 1..Len(a) : i \in 1..Len(a \o b) /\ (a \o b)[i] = a[i]
      /\ \A i \in 1..Len(b) : /\ Len(a) + i \in 1..Len(a \o b)
                              /\ (a \o b)[Len(a) + i] = b[i]
  BY Joined
<1> DEFINE both == a \o b
<1>2. /\ both \in Seq(S)
      /\ Len(both) = Len(a) + Len(b)
      /\ \A i \in 1..Len(a) : i \in 1..Len(both) /\ both[i] = a[i]
      /\ \A i \in 1..Len(b) : Len(a) + i \in 1..Len(both) /\ both[Len(a) + i] = b[i]
  BY ONLY <1>1
<1> HIDE DEF both
<1>3. c = both
  BY DEF both
<1> QED BY ONLY <1>2, <1>3

\* A round marks candidates and issues reads; when it is empty the traversal is
\* at its fixed point.
LEMMA DispatchKeeps ==
  ASSUME Inv, Dispatch
  PROVE  Inv'
<1> DEFINE r == Round
           L == Len(frontier)
           C == [id : Nodes, ptr : Pointers]
<1>1. /\ pc = "dispatch" /\ RoundOpen /\ flying = {} /\ cached_node = <<>>
      /\ retset' = r.retset /\ page_visited' = r.page_visited
      /\ frontier' = frontier \o r.reads
      /\ flying' = (L + 1)..(L + Len(r.reads)) /\ n_io_in_q' = Len(r.reads)
      /\ cached_node' = r.cached /\ n_cached_in_q' = Len(r.cached)
      /\ pc' = IF LoopEnds(r) THEN "refine" ELSE "process"
      /\ UNCHANGED <<pq, exact, visited, full_retset, loaded, sector_buffers, n_proc_in_q,
                     refine, indices>>
  BY DispatchParts
<1>2. r \in SelectState /\ RoundAt(Len(retset), r)
  BY RoundFacts
<1>3. LoopEnds(r) =>
        /\ flying' = {} /\ page_visited' = page_visited
        /\ sector_buffers = <<>> /\ cached_node' = <<>>
        /\ \A i \in 1..Len(retset) : ~r.retset[i].flag /\ retset[i].id = r.retset[i].id
        /\ FewReads => \A i \in 1..Len(retset) : Expanded(retset[i].id)
  BY EmptyRound
<1> HIDE DEF r
<1>4. /\ L \in Nat /\ n_proc_in_q = Len(sector_buffers) /\ sector_buffers \in Seq(Nat)
      /\ \A i \in 1..Len(sector_buffers) : sector_buffers[i] \in 1..L
      /\ frontier \in Seq(Nodes)
      /\ Len(retset) \in 1..LSearch /\ KeepsBest(retset, visited, pq)
  BY <1>1, TypeFacts DEF Inv, ReadsInv, Traversal, TypeOK, ListInv
<1>5. /\ r.retset \in ListOver(Nodes, pq) /\ r.page_visited \subseteq Nodes
      /\ r.reads \in Seq(Nodes) /\ r.cached \in Seq(C)
  BY <1>2 DEF SelectState
<1> HIDE DEF C
<1>6. Len(r.reads) \in Nat /\ Len(r.cached) \in Nat
  BY <1>5, LenProperties
<1>7. /\ frontier' \in Seq(Nodes)
      /\ Len(frontier') = L + Len(r.reads)
      /\ \A t \in 1..L : t \in 1..Len(frontier') /\ frontier'[t] = frontier[t]
      /\ \A i \in 1..Len(r.reads) : /\ L + i \in 1..Len(frontier')
                                    /\ frontier'[L + i] = r.reads[i]
  <2>1. frontier \in Seq(Nodes) /\ r.reads \in Seq(Nodes)
    BY <1>4, <1>5
  <2>2. frontier' = frontier \o r.reads
    BY <1>1
  <2> QED BY ONLY <2>1, <2>2, Lengthened DEF L
<1>8. /\ flying' \subseteq 1..Len(frontier') /\ Cardinality(flying') = Len(r.reads)
      /\ \A i \in 1..Len(r.reads) : L + i \in flying'
  <2>1. frontier \in Seq(Nodes) /\ r.reads \in Seq(Nodes)
    BY <1>4, <1>5
  <2>2. LET w == (L + 1)..(L + Len(r.reads))
        IN  /\ w \subseteq 1..Len(frontier \o r.reads) /\ Cardinality(w) = Len(r.reads)
            /\ \A i \in 1..Len(r.reads) : L + i \in w
    BY ONLY <2>1, Issued
  <2> QED BY <1>1, <2>2
<1> HIDE DEF L
<1>9. /\ Len(r.retset) = Len(retset)
      /\ \A i \in 1..Len(retset) :
           /\ r.retset[i].id = retset[i].id /\ r.retset[i].distance = retset[i].distance
           /\ \/ r.retset[i].flag
              \/ ~retset[i].flag
              \/ Queued(retset[i].id, r.cached) \/ retset[i].id \in r.page_visited
      /\ page_visited \subseteq r.page_visited
      /\ r.page_visited \subseteq page_visited \cup ToSet(r.reads)
      /\ \A c \in ToSet(r.cached) : KnownPointer(c)
  BY <1>2 DEF RoundAt
<1>10. /\ ToSet(r.reads) = {r.reads[i] : i \in 1..Len(r.reads)}
       /\ ToSet(r.cached) = {r.cached[i] : i \in 1..Len(r.cached)}
  BY <1>5, LenProperties DEF ToSet
<1>11. FewReads' => FewReads
  <2>1. Len(frontier) \in Nat /\ Len(frontier') = Len(frontier) + Len(r.reads)
    BY <1>4, <1>7 DEF L
  <2> QED BY <1>6, <2>1, ConstantFacts DEF FewReads
<1>12. TypeOK'
  <2>1. pc' \in {"process", "refine"}
    BY <1>1
  <2>2. retset' \in ListOver(Nodes, pq) /\ page_visited' \subseteq Nodes /\ cached_node' \in Seq(C)
    BY <1>1, <1>5
  <2>3. n_io_in_q' \in Nat /\ n_cached_in_q' \in Nat
    BY <1>1, <1>6
  <2> QED BY <1>1, <1>7, <1>8, <2>1, <2>2, <2>3 DEF Inv, TypeOK, Traversal, refine, C
<1>13. ListInv'
  <2>1. KeepsBest(r.retset, visited, pq)
    <3>1. Len(retset) \in Nat \ {0} /\ KeepsBest(retset, visited, pq) /\ Len(r.retset) = Len(retset)
          /\ \A i \in 1..Len(retset) :
               r.retset[i].id = retset[i].id /\ r.retset[i].distance = retset[i].distance
      BY <1>4, <1>9
    <3> QED BY ONLY <3>1, SameEntries
  <2>2. pc' # "start"
    BY <1>1
  <2> QED BY <1>1, <1>4, <1>9, <2>1, <2>2 DEF ListInv
<1>14. ReadsInv'
  <2>1. \A i \in 1..Len(sector_buffers') : sector_buffers'[i] \in 1..Len(frontier')
    BY <1>1, <1>4, <1>7
  <2>2. n_io_in_q' = Cardinality(flying') /\ n_proc_in_q' = Len(sector_buffers')
        /\ n_cached_in_q' = Len(cached_node')
    BY <1>1, <1>4, <1>8
  <2> QED BY <1>1, <1>3, <2>1, <2>2 DEF ReadsInv, Refined, Traversal
<1>15. PointerInv'
  <2> DEFINE Right(n, ptr) == /\ ptr.read \in 1..Len(frontier')
                              /\ ptr.slot \in 1..Len(Copied[frontier'[ptr.read]])
                              /\ Copied[frontier'[ptr.read]][ptr.slot] = n
  <2>1. ASSUME NEW n, NEW ptr, RightPointer(n, ptr) PROVE Right(n, ptr)
    <3>1. ptr.read \in 1..L
      BY <2>1 DEF RightPointer, L
    <3> QED BY <1>7, <2>1, <3>1 DEF RightPointer
  <2>2. \A n \in DOMAIN loaded : RightPointer(n, loaded[n])
    BY DEF Inv, PointerInv
  <2>3. ASSUME NEW i \in 1..Len(r.cached)
        PROVE  r.cached[i].ptr = InMemory \/ RightPointer(r.cached[i].id, r.cached[i].ptr)
    <3>1. KnownPointer(r.cached[i])
      BY <1>9, <1>10
    <3> QED BY <2>2, <3>1 DEF KnownPointer
  <2> HIDE DEF Right
  <2>4. loaded' = loaded /\ cached_node' = r.cached
    BY <1>1
  <2>5. \A n \in DOMAIN loaded' : Right(n, loaded'[n])
    BY ONLY <2>1, <2>2, <2>4
  <2>6. \A i \in 1..Len(cached_node') :
          cached_node'[i].ptr = InMemory \/ Right(cached_node'[i].id, cached_node'[i].ptr)
    BY ONLY <2>1, <2>3, <2>4
  <2> QED BY Zenon, <2>5, <2>6 DEF PointerInv, RightPointer, Right, InMemory
<1>16. ASSUME NEW n \in page_visited, Pending(n) PROVE Pending(n)'
  <2>1. PICK t \in 1..L :
          /\ frontier[t] = n
          /\ t \in flying \/ \E i \in 1..Len(sector_buffers) : sector_buffers[i] = t
    BY <1>16 DEF Pending, L
  <2>2. \E i \in 1..Len(sector_buffers') : sector_buffers'[i] = t
    BY <1>1, <2>1
  <2> QED BY <1>7, <2>1, <2>2 DEF Pending
<1>17. ASSUME NEW n \in page_visited', n \notin page_visited PROVE Pending(n)'
  <2>1. PICK i \in 1..Len(r.reads) : r.reads[i] = n
    BY <1>1, <1>9, <1>10, <1>17
  <2> QED BY <1>7, <1>8, <2>1 DEF Pending
<1>18. TraversalInv'
  <2>1. ASSUME FewReads, NEW n \in page_visited' PROVE Pending(n)' \/ Expanded(n)'
    <3>1. CASE n \in page_visited
      <4>1. Pending(n) \/ Expanded(n)
        BY <1>1, <2>1, <3>1 DEF Inv, TraversalInv, Traversal
      <4> QED BY <1>1, <1>16, <3>1, <4>1 DEF Expanded
    <3>2. CASE n \notin page_visited
      BY <1>17, <3>2
    <3> QED BY <3>1, <3>2
  <2>2. ASSUME FewReads, NEW i \in 1..Len(retset)
        PROVE  \/ r.retset[i].flag \/ ToSet(Nbrs[r.retset[i].id]) \subseteq visited
               \/ \E k \in 1..Len(r.cached) : r.cached[k].id = r.retset[i].id
               \/ r.retset[i].id \in r.page_visited
    <3>1. \/ retset[i].flag \/ Expanded(retset[i].id)
          \/ \E k \in 1..Len(cached_node) : cached_node[k].id = retset[i].id
          \/ retset[i].id \in page_visited
      BY <1>1, <2>2 DEF Inv, TraversalInv, Traversal
    <3>2. \A k : ~(k \in 1..Len(cached_node))
      BY <1>1
    <3>3. Queued(retset[i].id, r.cached) =>
            \E k \in 1..Len(r.cached) : r.cached[k].id = retset[i].id
      BY <1>10 DEF Queued
    <3> QED BY <1>9, <3>1, <3>2, <3>3 DEF Expanded
  <2>3. LoopEnds(r) /\ FewReads =>
          \A i \in 1..Len(retset) :
            ~r.retset[i].flag /\ ToSet(Nbrs[r.retset[i].id]) \subseteq visited
    BY <1>3 DEF Expanded
  <2>4. /\ retset' = r.retset /\ Len(r.retset) = Len(retset) /\ visited' = visited
        /\ cached_node' = r.cached /\ page_visited' = r.page_visited
    BY <1>1, <1>9
  <2>5. FewReads =>
          /\ \A n \in page_visited' : Pending(n)' \/ Expanded(n)'
          /\ \A i \in 1..Len(retset') :
               \/ retset'[i].flag \/ ToSet(Nbrs[retset'[i].id]) \subseteq visited'
               \/ \E k \in 1..Len(cached_node') : cached_node'[k].id = retset'[i].id
               \/ retset'[i].id \in page_visited'
    BY ONLY <2>1, <2>2, <2>4
  <2>6. LoopEnds(r) /\ FewReads =>
          \A i \in 1..Len(retset') :
            ~retset'[i].flag /\ ToSet(Nbrs[retset'[i].id]) \subseteq visited'
    BY ONLY <2>3, <2>4
  <2>7. pc' \notin Traversal => LoopEnds(r)
    BY <1>1 DEF Traversal
  <2> QED BY <1>11, <2>5, <2>6, <2>7 DEF TraversalInv, TraversalClosed, Expanded
<1>19. RefineInv'
  <2>1. ASSUME NEW n \in page_visited' PROVE Pending(n)' \/ full_retset[n] > 0
    BY <1>16, <1>17 DEF Inv, RefineInv
  <2> QED BY <1>1, <2>1 DEF RefineInv, AnswerNearest
<1> QED BY <1>12, <1>13, <1>14, <1>15, <1>18, <1>19 DEF Inv
-----------------------------------------------------------------------------
(* The refinement.                                                         *)

\* The states of a batch.
BatchState == [page_visited : SUBSET Nodes, vectors : Seq(Nodes), reads : Seq(Nodes)]

\* After j candidates of a batch: every new page has its read, and each candidate
\* will be evaluated from memory or has its page read.
BatchAt(j, s) ==
  /\ Len(s.reads) <= j
  /\ page_visited \subseteq s.page_visited /\ s.page_visited \subseteq page_visited \cup ToSet(s.reads)
  /\ \A i \in 1..j : \/ CandidateId(l_idx + i) \in s.page_visited
                     \/ CandidateId(l_idx + i) \in ToSet(s.vectors)

\* Behind the list there are entries of node 0.
LEMMA CandidateIsNode ==
  ASSUME Inv, NEW i \in Nat \ {0}
  PROVE  CandidateId(i) \in Nodes
<1>1. Len(retset) \in Nat /\ 0 \in Nodes /\ \A k \in 1..Len(retset) : retset[k].id \in Nodes
  BY TypeFacts, ConstantFacts DEF Inv
<1> QED BY <1>1 DEF CandidateId

\* A candidate is asked for.
LEMMA RequestKeeps ==
  ASSUME Inv, NEW j \in Nat \ {0}, NEW s \in BatchState, BatchAt(j - 1, s)
  PROVE  Request(s, l_idx + j) \in BatchState /\ BatchAt(j, Request(s, l_idx + j))
<1> DEFINE n == CandidateId(l_idx + j)
           t == Request(s, l_idx + j)
           Made(p, v, r) == [page_visited |-> p, vectors |-> v, reads |-> r]
<1>1. n \in Nodes
  <2>1. l_idx \in Nat
    BY DEF Inv, TypeOK
  <2>2. l_idx + j \in Nat \ {0}
    BY <2>1
  <2> QED BY <2>2, CandidateIsNode
<1>2. s.page_visited \subseteq Nodes /\ s.vectors \in Seq(Nodes) /\ s.reads \in Seq(Nodes)
  BY DEF BatchState
<1>3. /\ Len(s.reads) <= j - 1 /\ page_visited \subseteq s.page_visited
      /\ s.page_visited \subseteq page_visited \cup ToSet(s.reads)
      /\ \A i \in 1..(j - 1) : \/ CandidateId(l_idx + i) \in s.page_visited
                               \/ CandidateId(l_idx + i) \in ToSet(s.vectors)
  BY DEF BatchAt
<1>4. \A i \in 1..j : i \in 1..(j - 1) \/ i = j
  OBVIOUS
<1>5. Len(s.reads) <= j /\ Len(s.reads) + 1 <= j
  <2>1. Len(s.reads) \in Nat
    BY <1>2, LenProperties
  <2> QED BY <1>3, <2>1
<1>6. CASE n \in s.page_visited
  <2>1. t = s
    BY <1>6 DEF Request
  <2>2. BatchAt(j, s)
    BY <1>3, <1>4, <1>5, <1>6 DEF BatchAt
  <2> QED BY <2>1, <2>2
<1>7. CASE n \notin s.page_visited /\ n \in MemEmb
  <2> DEFINE more == Append(s.vectors, n)
             u == Made(s.page_visited, more, s.reads)
  <2>1. t = u
    <3>1. t = [s EXCEPT !.vectors = more]
      BY <1>7 DEF Request
    <3> HIDE DEF more
    <3> QED BY <3>1 DEF BatchState
  <2>2. more \in Seq(Nodes) /\ n \in ToSet(more) /\ ToSet(s.vectors) \subseteq ToSet(more)
    BY <1>1, <1>2, Appended
  <2> HIDE DEF more
  <2>3. u \in BatchState
    BY <1>2, <2>2 DEF BatchState
  <2>4. BatchAt(j, u)
    BY <1>3, <1>4, <1>5, <2>2 DEF BatchAt
  <2> HIDE DEF t, u
  <2> QED BY <2>1, <2>3, <2>4 DEF t
<1>8. CASE n \notin s.page_visited /\ n \notin MemEmb
  <2> DEFINE more == Append(s.reads, n)
             pages == s.page_visited \cup {n}
             u == Made(pages, s.vectors, more)
  <2>1. t = u
    <3>1. t = [s EXCEPT !.reads = more, !.page_visited = pages]
      BY <1>8 DEF Request
    <3> HIDE DEF more, pages
    <3> QED BY <3>1 DEF BatchState
  <2>2. /\ more \in Seq(Nodes) /\ Len(more) = Len(s.reads) + 1
        /\ ToSet(more) = ToSet(s.reads) \cup {n}
    BY <1>1, <1>2, Appended
  <2> HIDE DEF more
  <2>3. /\ n \in pages /\ s.page_visited \subseteq pages /\ pages \subseteq Nodes
        /\ pages \subseteq page_visited \cup ToSet(more) /\ page_visited \subseteq pages
    BY <1>1, <1>2, <1>3, <2>2
  <2> HIDE DEF pages
  <2>4. u \in BatchState
    BY <1>2, <2>2, <2>3 DEF BatchState
  <2>5. BatchAt(j, u)
    BY <1>3, <1>4, <1>5, <2>2, <2>3 DEF BatchAt
  <2> HIDE DEF t, u
  <2> QED BY <2>1, <2>4, <2>5 DEF t
<1> QED BY <1>6, <1>7, <1>8

\* Entering one node in full_retset, and the loop that does.
Push(full, n) == [full EXCEPT ![n] = @ + 1]
PushFold == INSTANCE CandidateListProofs WITH Op <- Push

\* Evaluating one node after the other.
LEMMA PushAllKeeps ==
  ASSUME full_retset \in [Nodes -> Nat], NEW v \in Seq(Nodes)
  PROVE  LET f == FoldLeft(Push, full_retset, v)
         IN  /\ f \in [Nodes -> Nat] /\ \A n \in Nodes : full_retset[n] <= f[n]
             /\ \A n \in ToSet(v) : f[n] > 0
<1> DEFINE k == Len(v)
           S == [i \in 0..k |->
                  {f \in [Nodes -> Nat] : /\ \A n \in Nodes : full_retset[n] <= f[n]
                                          /\ \A j \in 1..i : f[v[j]] > 0}]
<1>1. k \in Nat /\ DOMAIN v = 1..k /\ \A i \in 1..k : v[i] \in Nodes
  BY LenProperties, ElementOfSeq
<1>2. full_retset \in S[0]
  <2>1. \A n \in Nodes : full_retset[n] \in Nat
    OBVIOUS
  <2> QED BY <1>1, <2>1
<1>3. ASSUME NEW i \in 1..k, NEW f \in S[i - 1] PROVE Push(f, v[i]) \in S[i]
  <2> DEFINE g == Push(f, v[i])
  <2>1. i - 1 \in 0..k /\ i \in 0..k /\ v[i] \in Nodes
    BY <1>1
  <2>2. /\ f \in [Nodes -> Nat] /\ \A n \in Nodes : full_retset[n] <= f[n]
        /\ \A j \in 1..(i - 1) : f[v[j]] > 0
    BY <2>1
  <2>3. g \in [Nodes -> Nat] /\ g[v[i]] = f[v[i]] + 1 /\ \A n \in Nodes : f[n] <= g[n]
    BY <2>1, <2>2 DEF Push
  <2> HIDE DEF g
  <2>4. \A n \in Nodes : full_retset[n] <= g[n]
    <3>1. \A n \in Nodes : full_retset[n] \in Nat /\ f[n] \in Nat /\ g[n] \in Nat
      BY <2>2, <2>3
    <3> QED BY <3>1, <2>2, <2>3
  <2>5. \A j \in 1..i : g[v[j]] > 0
    <3> SUFFICES ASSUME NEW j \in 1..i PROVE g[v[j]] > 0
      OBVIOUS
    <3>1. v[j] \in Nodes /\ f[v[j]] \in Nat /\ g[v[j]] \in Nat /\ f[v[j]] <= g[v[j]]
      BY <1>1, <2>2, <2>3
    <3>2. CASE j = i
      BY <3>1, <3>2, <2>3
    <3>3. CASE j # i
      <4>1. j \in 1..(i - 1)
        BY <3>3
      <4>2. f[v[j]] > 0
        BY <4>1, <2>2
      <4> HIDE DEF Push
      <4> QED BY ONLY <3>1, <4>2
    <3> QED BY <3>2, <3>3
  <2> QED BY <2>1, <2>3, <2>4, <2>5 DEF g
<1> HIDE DEF S, k
<1>4. PushFold!FoldLeft(Push, full_retset, v) \in S[k]
  BY <1>1, <1>2, <1>3, PushFold!FoldKeeps
<1> DEFINE f == FoldLeft(Push, full_retset, v)
<1>5. f = PushFold!FoldLeft(Push, full_retset, v)
  BY Zenon DEF FoldLeft, MapThenFoldSet, Max, PushFold!FoldLeft,
               PushFold!MapThenFoldSet, PushFold!Max
<1> HIDE DEF f
<1>6. f \in S[k]
  BY <1>4, <1>5
<1>7. ToSet(v) = {v[i] : i \in 1..k}
  BY <1>1 DEF ToSet
<1>8. /\ f \in [Nodes -> Nat] /\ \A n \in Nodes : full_retset[n] <= f[n]
      /\ \A j \in 1..k : f[v[j]] > 0
  BY <1>1, <1>6 DEF S
<1> QED BY <1>7, <1>8 DEF f

\* The requests of a batch.
Batch ==
  FoldLeft(Request, [page_visited |-> page_visited, vectors |-> <<>>, reads |-> <<>>],
           [i \in 1..BatchSize |-> l_idx + i])

\* The loop over the candidates of a batch.
RequestFold == INSTANCE CandidateListProofs WITH Op <- Request

LEMMA BatchFacts ==
  ASSUME Inv, l_idx < embedding_search_L
  PROVE  BatchSize \in Nat /\ Batch \in BatchState /\ BatchAt(BatchSize, Batch)
<1> DEFINE k == BatchSize
           b == [page_visited |-> page_visited, vectors |-> <<>>, reads |-> <<>>]
           q == [i \in 1..k |-> l_idx + i]
           S == [i \in 0..k |-> {s \in BatchState : BatchAt(i, s)}]
<1>1. k \in Nat
  <2>1. l_idx \in Nat /\ embedding_search_L \in Nat /\ MaxReads \in Nat
    BY ConstantFacts DEF Inv, TypeOK
  <2> QED BY <2>1 DEF BatchSize
<1>2. DOMAIN q = 1..k /\ \A i \in 1..k : q[i] = l_idx + i
  OBVIOUS
<1>3. b \in S[0]
  <2>1. page_visited \subseteq Nodes
    BY DEF Inv, TypeOK
  <2>2. b \in BatchState
    BY <2>1 DEF BatchState
  <2>3. BatchAt(0, b)
    BY DEF BatchAt
  <2> HIDE DEF b
  <2> QED BY <1>1, <2>2, <2>3
<1> HIDE DEF q
<1>4. ASSUME NEW i \in 1..k, NEW s \in S[i - 1] PROVE Request(s, q[i]) \in S[i]
  <2> DEFINE t == Request(s, l_idx + i)
  <2> HIDE DEF k
  <2>1. i - 1 \in 0..k /\ i \in 0..k /\ i \in Nat \ {0}
    BY <1>1
  <2>2. s \in BatchState /\ BatchAt(i - 1, s)
    BY <2>1
  <2>3. t \in BatchState /\ BatchAt(i, t)
    BY <2>1, <2>2, RequestKeeps
  <2> HIDE DEF t
  <2> QED BY <1>2, <2>1, <2>3 DEF t
<1> HIDE DEF S, k
<1>5. RequestFold!FoldLeft(Request, b, q) \in S[k]
  BY <1>1, <1>2, <1>3, <1>4, RequestFold!FoldKeeps
<1>6. Batch = RequestFold!FoldLeft(Request, b, q)
  BY Zenon DEF Batch, b, q, k, FoldLeft, MapThenFoldSet, Max, RequestFold!FoldLeft,
               RequestFold!MapThenFoldSet, RequestFold!Max
<1> HIDE DEF b
<1>7. Batch \in S[k]
  BY <1>5, <1>6
<1> QED BY <1>1, <1>7 DEF S, k

\* A batch of the refinement is submitted: every page it needs is in flight, and
\* its candidates are evaluated or their pages someone reads or has read.
LEMMA SubmitEmbeddingsKeeps ==
  ASSUME Inv, SubmitEmbeddings
  PROVE  Inv'
<1> DEFINE r == Batch
           L == Len(frontier)
<1>1. /\ pc = "embed" /\ pc' = "drain" /\ l_idx < embedding_search_L
      /\ page_visited' = r.page_visited /\ frontier' = frontier \o r.reads
      /\ flying' = flying \cup (L + 1)..(L + Len(r.reads))
      /\ n_ops' = Len(r.reads) /\ full_retset' = FoldLeft(Push, full_retset, r.vectors)
      /\ l_idx' = l_idx + BatchSize
      /\ UNCHANGED <<pq, exact, retset, visited, loaded, sector_buffers, cached, n_io_in_q,
                     n_proc_in_q, embedding_search_L, indices>>
  BY Zenon DEF SubmitEmbeddings, Batch, Push
<1>2. BatchSize \in Nat /\ r \in BatchState /\ BatchAt(BatchSize, r)
  BY <1>1, BatchFacts
<1> HIDE DEF r
<1>3. r.page_visited \subseteq Nodes /\ r.vectors \in Seq(Nodes) /\ r.reads \in Seq(Nodes)
  BY <1>2 DEF BatchState
<1>4. /\ frontier \in Seq(Nodes) /\ flying = {} /\ sector_buffers = <<>>
      /\ full_retset \in [Nodes -> Nat] /\ l_idx \in Nat /\ Len(retset) \in Nat
      /\ \A i \in 1..Len(retset) : retset[i].id \in Nodes
      /\ page_visited \subseteq Nodes /\ L \in Nat
  BY <1>1, TypeFacts DEF Inv, ReadsInv, TypeOK, Traversal
<1>5. /\ full_retset' \in [Nodes -> Nat] /\ \A n \in Nodes : full_retset[n] <= full_retset'[n]
      /\ \A n \in ToSet(r.vectors) : full_retset'[n] > 0
  BY <1>1, <1>3, <1>4, PushAllKeeps
<1>6. \A n \in Nodes : full_retset[n] > 0 => full_retset'[n] > 0
  BY <1>4, <1>5
<1>7. /\ frontier' \in Seq(Nodes) /\ Len(frontier') = L + Len(r.reads)
      /\ \A t \in 1..L : t \in 1..Len(frontier') /\ frontier'[t] = frontier[t]
      /\ \A i \in 1..Len(r.reads) : /\ L + i \in 1..Len(frontier')
                                    /\ frontier'[L + i] = r.reads[i]
  <2>1. frontier \in Seq(Nodes) /\ r.reads \in Seq(Nodes)
    BY <1>3, <1>4
  <2>2. frontier' = frontier \o r.reads
    BY <1>1
  <2> QED BY ONLY <2>1, <2>2, Lengthened DEF L
<1>8. /\ flying' \subseteq 1..Len(frontier') /\ Cardinality(flying') = Len(r.reads)
      /\ \A i \in 1..Len(r.reads) : L + i \in flying'
      /\ Len(r.reads) \in Nat
  <2> DEFINE w == (L + 1)..(L + Len(r.reads))
  <2>1. frontier \in Seq(Nodes) /\ r.reads \in Seq(Nodes)
    BY <1>3, <1>4
  <2>2. /\ w \subseteq 1..Len(frontier \o r.reads) /\ Cardinality(w) = Len(r.reads)
        /\ \A i \in 1..Len(r.reads) : L + i \in w
    BY ONLY <2>1, Issued
  <2>3. Len(r.reads) \in Nat
    BY <2>1, LenProperties
  <2>4. flying' = w /\ frontier' = frontier \o r.reads
    BY <1>1, <1>4
  <2> HIDE DEF w, L
  <2>5. flying' \subseteq 1..Len(frontier')
    BY Zenon, <2>2, <2>4
  <2>6. Cardinality(flying') = Len(r.reads)
    BY Zenon, <2>2, <2>4
  <2>7. \A i \in 1..Len(r.reads) : L + i \in flying'
    BY Zenon, <2>2, <2>4
  <2> QED BY <2>3, <2>5, <2>6, <2>7
<1> HIDE DEF L
<1>9. TypeOK'
  <2>1. l_idx' \in Nat /\ n_ops' \in Nat /\ page_visited' \subseteq Nodes
    BY <1>1, <1>2, <1>3, <1>4, <1>8
  <2>2. pc' \in {"drain"} /\ full_retset' \in [Nodes -> Nat] /\ flying' \subseteq 1..Len(frontier')
        /\ frontier' \in Seq(Nodes)
    BY <1>1, <1>5, <1>7, <1>8
  <2>3. UNCHANGED <<pq, exact, retset, visited, loaded, sector_buffers, cached_node, n_cached_in_q,
                    n_io_in_q, n_proc_in_q, embedding_search_L, indices>>
    BY <1>1 DEF cached
  <2> QED BY <2>1, <2>2, <2>3 DEF Inv, TypeOK
<1>10. ListInv'
  BY <1>1, ListUnchanged
<1>11. ReadsInv'
  BY <1>1, <1>4, <1>8 DEF ReadsInv, Traversal, Refined
<1>12. PointerInv'
  <2> DEFINE Right(n, ptr) == /\ ptr.read \in 1..Len(frontier')
                              /\ ptr.slot \in 1..Len(Copied[frontier'[ptr.read]])
                              /\ Copied[frontier'[ptr.read]][ptr.slot] = n
  <2>1. ASSUME NEW n, NEW ptr, RightPointer(n, ptr) PROVE Right(n, ptr)
    <3>1. ptr.read \in 1..L
      BY <2>1 DEF RightPointer, L
    <3> QED BY <1>7, <2>1, <3>1 DEF RightPointer
  <2>2. /\ \A n \in DOMAIN loaded : RightPointer(n, loaded[n])
        /\ \A i \in 1..Len(cached_node) : \/ cached_node[i].ptr = InMemory
                                          \/ RightPointer(cached_node[i].id, cached_node[i].ptr)
    BY DEF Inv, PointerInv
  <2> HIDE DEF Right
  <2>3. loaded' = loaded /\ cached_node' = cached_node
    BY <1>1 DEF cached
  <2>4. /\ \A n \in DOMAIN loaded' : Right(n, loaded'[n])
        /\ \A i \in 1..Len(cached_node') :
             cached_node'[i].ptr = InMemory \/ Right(cached_node'[i].id, cached_node'[i].ptr)
    BY ONLY <2>1, <2>2, <2>3
  <2> QED BY Zenon, <2>4 DEF PointerInv, RightPointer, Right, InMemory
<1>13. TraversalInv'
  <2>1. FewReads' => FewReads
    <3>1. Len(frontier) \in Nat /\ Len(frontier') = Len(frontier) + Len(r.reads)
      BY <1>4, <1>7 DEF L
    <3> QED BY <1>8, <3>1, ConstantFacts DEF FewReads
  <2> QED BY <1>1, <2>1, StaysClosed DEF Traversal
<1>14. ASSUME NEW n \in page_visited' PROVE Pending(n)' \/ full_retset'[n] > 0
  <2>1. CASE n \in page_visited
    <3>1. ~Pending(n)
      BY <1>4 DEF Pending
    <3>2. full_retset[n] > 0 /\ n \in Nodes
      BY <1>4, <2>1, <3>1 DEF Inv, RefineInv
    <3> QED BY <1>6, <3>2
  <2>2. CASE n \notin page_visited
    <3>1. n \in ToSet(r.reads)
      BY <1>1, <1>2, <1>14, <2>2 DEF BatchAt
    <3>2. PICK i \in 1..Len(r.reads) : r.reads[i] = n
      <4>1. ToSet(r.reads) = {r.reads[i] : i \in 1..Len(r.reads)}
        BY <1>3, LenProperties DEF ToSet
      <4> QED BY <3>1, <4>1
    <3> QED BY <1>7, <1>8, <3>2 DEF Pending
  <2> QED BY <2>1, <2>2
<1>15. ASSUME NEW i \in 1..Len(retset), i <= l_idx + BatchSize
       PROVE  full_retset'[retset[i].id] > 0 \/ retset[i].id \in page_visited'
  <2> DEFINE n == retset[i].id
  <2>1. n \in Nodes
    BY <1>4
  <2> HIDE DEF n
  <2>2. page_visited \subseteq page_visited'
    BY <1>1, <1>2 DEF BatchAt
  <2>3. CASE i <= l_idx
    <3>1. full_retset[n] > 0 \/ n \in page_visited
      BY <1>1, <2>3 DEF Inv, RefineInv, n
    <3> QED BY <1>6, <2>1, <2>2, <3>1 DEF n
  <2>4. CASE i > l_idx
    <3> DEFINE j == i - l_idx
    <3>1. j \in 1..BatchSize /\ l_idx + j = i
      BY <1>2, <1>4, <1>15, <2>4
    <3>2. CandidateId(i) = n
      BY <1>4 DEF CandidateId, n
    <3> HIDE DEF j
    <3>3. n \in r.page_visited \/ n \in ToSet(r.vectors)
      BY <1>2, <3>1, <3>2 DEF BatchAt
    <3> QED BY <1>1, <1>5, <3>3 DEF n
  <2> QED BY <1>4, <2>3, <2>4
<1>16. RefineInv'
  BY <1>1, <1>14, <1>15 DEF RefineInv, AnswerNearest
<1> QED BY <1>9, <1>10, <1>11, <1>12, <1>13, <1>16 DEF Inv

\* Pages of the batch have come: their nodes are evaluated.
LEMMA DrainEmbeddingsKeeps ==
  ASSUME Inv, NEW finished \in SUBSET flying, DrainEmbeddings(finished)
  PROVE  Inv'
<1> DEFINE came(n) == {t \in finished : frontier[t] = n}
<1>1. /\ pc = "drain" /\ pc' = "drain" /\ Cardinality(finished) \in 1..n_ops
      /\ full_retset' = [n \in Nodes |-> full_retset[n] + Cardinality(came(n))]
      /\ flying' = flying \ finished /\ n_ops' = n_ops - Cardinality(finished)
      /\ UNCHANGED <<pq, exact, retset, visited, page_visited, loaded, frontier, sector_buffers,
                     cached, n_io_in_q, n_proc_in_q, embedding_search_L, l_idx, indices>>
  BY DEF DrainEmbeddings
<1>2. /\ flying \subseteq 1..Len(frontier) /\ IsFiniteSet(flying) /\ n_ops = Cardinality(flying)
      /\ full_retset \in [Nodes -> Nat] /\ page_visited \subseteq Nodes /\ sector_buffers = <<>>
      /\ n_ops \in Nat /\ \A i \in 1..Len(retset) : retset[i].id \in Nodes
  BY <1>1, TypeFacts DEF Inv, ReadsInv, TypeOK, Traversal
<1>3. Cardinality(flying \ finished) = n_ops - Cardinality(finished)
  <2>1. IsFiniteSet(finished) /\ IsFiniteSet(flying \ finished)
    <3>1. flying \ finished \in SUBSET flying
      OBVIOUS
    <3> QED BY <1>2, <3>1, FS_Subset
  <2>2. finished \cup (flying \ finished) = flying /\ finished \cap (flying \ finished) = {}
    OBVIOUS
  <2>3. Cardinality(flying) =
          Cardinality(finished) + Cardinality(flying \ finished) - Cardinality({})
    BY <2>1, <2>2, FS_Union
  <2>4. Cardinality({}) = 0 /\ Cardinality(flying \ finished) \in Nat /\ Cardinality(finished) \in Nat
    BY <2>1, FS_EmptySet, FS_CardinalityType
  <2> QED BY <1>2, <2>3, <2>4
<1>4. \A n : /\ IsFiniteSet(came(n)) /\ Cardinality(came(n)) \in Nat
             /\ came(n) # {} => Cardinality(came(n)) # 0
  <2> TAKE n
  <2>1. came(n) \in SUBSET flying
    OBVIOUS
  <2> HIDE DEF came
  <2> QED BY <1>2, <2>1, FS_Subset, FS_CardinalityType, FS_EmptySet
<1> HIDE DEF came
<1>5. /\ full_retset' \in [Nodes -> Nat]
      /\ \A n \in Nodes : full_retset[n] > 0 \/ came(n) # {} => full_retset'[n] > 0
  <2>1. \A n \in Nodes : full_retset[n] \in Nat
    BY <1>2
  <2> QED BY <1>1, <1>4, <2>1
<1>6. TypeOK'
  <2>1. flying' \subseteq 1..Len(frontier) /\ n_ops' \in Nat
    BY <1>1, <1>2
  <2> QED BY <1>1, <1>5, <2>1 DEF Inv, TypeOK, cached
<1>7. ListInv'
  BY <1>1, ListUnchanged
<1>8. ReadsInv'
  BY <1>1, <1>2, <1>3 DEF ReadsInv, Traversal, Refined
<1>9. PointerInv'
  BY <1>1, PointersUnchanged DEF cached
<1>10. TraversalInv'
  BY <1>1, StaysClosed DEF Traversal, FewReads
<1>11. ASSUME NEW n \in page_visited PROVE Pending(n)' \/ full_retset'[n] > 0
  <2>1. n \in Nodes /\ (Pending(n) \/ full_retset[n] > 0)
    BY <1>2 DEF Inv, RefineInv
  <2>2. ASSUME Pending(n) PROVE Pending(n)' \/ came(n) # {}
    <3>1. PICK t \in 1..Len(frontier) : frontier[t] = n /\ t \in flying
      BY <1>2, <2>2 DEF Pending
    <3>2. CASE t \in finished
      BY <3>1, <3>2 DEF came
    <3>3. CASE t \notin finished
      BY <1>1, <3>1, <3>3 DEF Pending
    <3> QED BY <3>2, <3>3
  <2> QED BY <1>5, <2>1, <2>2
<1>12. ASSUME NEW i \in 1..Len(retset), i <= l_idx
       PROVE  full_retset'[retset[i].id] > 0 \/ retset[i].id \in page_visited
  <2>1. full_retset[retset[i].id] > 0 \/ retset[i].id \in page_visited
    BY <1>1, <1>12 DEF Inv, RefineInv
  <2> QED BY <1>2, <1>5, <2>1
<1>13. RefineInv'
  BY <1>1, <1>11, <1>12 DEF RefineInv, AnswerNearest
<1> QED BY <1>6, <1>7, <1>8, <1>9, <1>10, <1>13 DEF Inv

\* The nodes nearest first are those nodes, each once, and in order.
LEMMA NearestFirstFacts ==
  ASSUME exact \in [Nodes -> Int], IsInjective(exact), NEW S \in SUBSET Nodes
  PROVE  LET s == NearestFirst(S)
         IN  /\ s \in Seq(S) /\ Len(s) = Cardinality(S) /\ S = {s[i] : i \in 1..Len(s)}
             /\ \A i, j \in 1..Len(s) : i < j => exact[s[i]] < exact[s[j]]
<1> DEFINE c == Cardinality(S)
           Nearer(n) == {m \in S : exact[m] < exact[n]}
           rank == [n \in S |-> Cardinality(Nearer(n))]
           s == NearestFirst(S)
<1>1. IsFiniteSet(S) /\ c \in Nat
  BY ConstantFacts, FS_Subset, FS_CardinalityType
<1>2. \A n \in S : exact[n] \in Int
  OBVIOUS
<1>3. \A n \in S : IsFiniteSet(Nearer(n)) /\ Cardinality(Nearer(n)) \in Nat
  <2>1. \A n \in S : Nearer(n) \in SUBSET S
    OBVIOUS
  <2> HIDE DEF Nearer
  <2> QED BY <1>1, <2>1, FS_Subset, FS_CardinalityType
<1>4. ASSUME NEW m \in S, NEW n \in S, exact[m] < exact[n] PROVE rank[m] < rank[n]
  <2>1. Nearer(m) \cup {m} \in SUBSET Nearer(n) /\ m \notin Nearer(m)
    BY <1>2, <1>4
  <2> HIDE DEF Nearer
  <2>2. Cardinality(Nearer(m) \cup {m}) = Cardinality(Nearer(m)) + 1
    BY <1>3, <2>1, FS_AddElement
  <2>3. Cardinality(Nearer(m) \cup {m}) <= Cardinality(Nearer(n))
    BY <1>3, <2>1, FS_Subset
  <2> QED BY <1>3, <2>2, <2>3
<1>5. ASSUME NEW n \in S PROVE rank[n] \in 0..(c - 1)
  <2>1. Nearer(n) \cup {n} \in SUBSET S /\ n \notin Nearer(n)
    BY <1>2
  <2> HIDE DEF Nearer
  <2>2. Cardinality(Nearer(n) \cup {n}) = Cardinality(Nearer(n)) + 1
    BY <1>3, <2>1, FS_AddElement
  <2>3. Cardinality(Nearer(n) \cup {n}) <= c
    BY <1>1, <2>1, FS_Subset
  <2> HIDE DEF c
  <2> QED BY <1>1, <1>3, <2>2, <2>3
<1>6. \A m, n \in S : rank[m] = rank[n] => m = n
  <2> SUFFICES ASSUME NEW m \in S, NEW n \in S, rank[m] = rank[n], m # n PROVE FALSE
    OBVIOUS
  <2>1. exact[m] # exact[n]
    BY DEF IsInjective
  <2>2. exact[m] < exact[n] \/ exact[n] < exact[m]
    BY <1>2, <2>1
  <2>3. rank[m] < rank[n] \/ rank[n] < rank[m]
    BY <1>4, <2>2
  <2>4. rank[m] \in Nat /\ rank[n] \in Nat
    BY <1>3
  <2> HIDE DEF rank
  <2> QED BY <2>3, <2>4
<1> HIDE DEF Nearer
<1>7. \A i \in 0..(c - 1) : \E n \in S : rank[n] = i
  <2>1. rank \in Injection(S, 0..(c - 1))
    <3>1. rank \in [S -> 0..(c - 1)]
      BY <1>5
    <3> HIDE DEF rank
    <3>2. DOMAIN rank = S
      BY <3>1
    <3> QED BY <1>6, <3>1, <3>2 DEF Injection, IsInjective
  <2>2. IsFiniteSet(0..(c - 1)) /\ Cardinality(0..(c - 1)) = c
    <3> HIDE DEF c
    <3>1. 0 \in Int /\ c - 1 \in Int
      BY <1>1
    <3>2. /\ IsFiniteSet(0..(c - 1))
          /\ Cardinality(0..(c - 1)) = IF 0 > c - 1 THEN 0 ELSE (c - 1) - 0 + 1
      BY ONLY <3>1, FS_Interval
    <3> QED BY <1>1, <3>2
  <2> HIDE DEF rank
  <2>3. rank \in Surjection(S, 0..(c - 1))
    BY <1>1, <2>1, <2>2, FS_Injection
  <2> QED BY <2>3 DEF Surjection
<1>8. s = [i \in 1..c |-> CHOOSE n \in S : rank[n] = i - 1]
  <2>1. \A n \in S : Rank(n, S) = rank[n]
    BY DEF Rank, Nearer
  <2> HIDE DEF rank
  <2>2. \A i \in 1..c : (CHOOSE n \in S : Rank(n, S) = i - 1) = CHOOSE n \in S : rank[n] = i - 1
    BY <2>1
  <2> QED BY <2>2 DEF NearestFirst
<1> HIDE DEF s, rank, c
<1>9. \A i \in 1..c : s[i] \in S /\ rank[s[i]] = i - 1
  <2> SUFFICES ASSUME NEW i \in 1..c PROVE s[i] \in S /\ rank[s[i]] = i - 1
    OBVIOUS
  <2>1. \E n \in S : rank[n] = i - 1
    <3>1. i - 1 \in 0..(c - 1)
      BY <1>1
    <3> QED BY <1>7, <3>1
  <2>2. s[i] = CHOOSE n \in S : rank[n] = i - 1
    BY <1>8
  <2> QED BY <2>1, <2>2
<1>10. s \in Seq(S) /\ Len(s) = c
  <2>1. s \in [1..c -> S]
    <3>1. DOMAIN s = 1..c /\ s = [i \in 1..c |-> s[i]]
      BY <1>8
    <3> QED BY <1>9, <3>1
  <2> QED BY <1>1, <2>1
<1>11. \A n \in S : \E i \in 1..c : n = s[i]
  <2> SUFFICES ASSUME NEW n \in S PROVE \E i \in 1..c : n = s[i]
    OBVIOUS
  <2> DEFINE k == rank[n]
  <2>1. k \in 0..(c - 1)
    BY <1>5
  <2> HIDE DEF k
  <2>2. k + 1 \in 1..c /\ (k + 1) - 1 = k
    BY <1>1, <2>1
  <2>3. s[k + 1] \in S /\ rank[s[k + 1]] = k
    BY <1>9, <2>2
  <2> QED BY <1>6, <2>2, <2>3 DEF k
<1>12. ASSUME NEW i \in 1..c, NEW j \in 1..c, i < j PROVE exact[s[i]] < exact[s[j]]
  <2>1. s[i] \in S /\ s[j] \in S /\ rank[s[i]] = i - 1 /\ rank[s[j]] = j - 1
    BY <1>9
  <2>2. exact[s[i]] \in Int /\ exact[s[j]] \in Int
    BY <1>2, <2>1
  <2>3. ~(exact[s[j]] < exact[s[i]])
    <3> SUFFICES ASSUME exact[s[j]] < exact[s[i]] PROVE FALSE
      OBVIOUS
    <3>1. rank[s[j]] < rank[s[i]]
      BY <1>4, <2>1
    <3>2. j - 1 < i - 1
      BY <2>1, <3>1
    <3> QED BY ONLY <1>1, <1>12, <3>2, i \in 1..c, j \in 1..c
  <2>4. exact[s[i]] # exact[s[j]]
    <3>1. s[i] # s[j]
      BY <1>1, <1>12, <2>1
    <3> QED BY <2>1, <3>1 DEF IsInjective
  <2> QED BY <2>2, <2>3, <2>4
<1>13. S = {s[i] : i \in 1..c}
  BY <1>9, <1>11
<1> QED BY <1>10, <1>12, <1>13 DEF s, c

\* The nearest k of the evaluated nodes are returned.
LEMMA EndQueryKeeps ==
  ASSUME Inv, EndQuery
  PROVE  Inv'
<1> DEFINE S == {n \in Nodes : full_retset[n] > 0}
           s == NearestFirst(S)
<1> USE DEF sets, ring, cached, refine
<1>1. /\ pc = "embed" /\ l_idx >= embedding_search_L
      /\ IF Len(s) < KSearch THEN pc' = "too_few" /\ indices' = s
         ELSE pc' = "done" /\ indices' = SubSeq(s, 1, KSearch)
      /\ UNCHANGED <<pq, exact, sets, ring, cached, n_io_in_q, n_proc_in_q, refine>>
  BY Zenon DEF EndQuery
<1>2. /\ s \in Seq(S) /\ S = {s[i] : i \in 1..Len(s)}
      /\ \A i, j \in 1..Len(s) : i < j => exact[s[i]] < exact[s[j]]
  <2>1. exact \in [Nodes -> Int] /\ IsInjective(exact) /\ S \in SUBSET Nodes
    BY DEF Inv, TypeOK
  <2> HIDE DEF S
  <2> QED BY ONLY <2>1, NearestFirstFacts
<1> HIDE DEF s
<1>3. pc' \in Refined /\ flying = {} /\ sector_buffers = <<>>
  BY <1>1 DEF Refined, Inv, ReadsInv, Traversal
<1>4. TypeOK'
  BY <1>1, <1>3 DEF Inv, TypeOK
<1>5. ListInv'
  BY <1>1, <1>3, ListUnchanged DEF Refined
<1>6. ReadsInv'
  BY <1>1, <1>3 DEF Inv, ReadsInv, Traversal, Refined
<1>7. PointerInv'
  BY <1>1, PointersUnchanged
<1>8. TraversalInv'
  <2>1. pc \notin Traversal /\ pc' \notin Traversal
    BY <1>1, <1>3 DEF Traversal, Refined
  <2> QED BY <1>1, <2>1, StaysClosed DEF FewReads
<1>9. \A n \in page_visited : full_retset[n] > 0
  BY <1>3 DEF Inv, RefineInv, Pending
<1>10. ASSUME NEW i \in 1..embedding_search_L, i <= Len(retset)
       PROVE  full_retset[retset[i].id] > 0
  <2>1. l_idx \in Nat /\ embedding_search_L \in Nat /\ Len(retset) \in Nat
    BY TypeFacts DEF Inv, TypeOK
  <2>2. i \in 1..Len(retset) /\ i <= l_idx
    BY ONLY <1>1, <1>10, <2>1, i \in 1..embedding_search_L
  <2> QED BY <1>1, <1>9, <2>2 DEF Inv, RefineInv
<1>11. ASSUME pc' = "done"
       PROVE  /\ IsInjective(indices')
              /\ \A n \in Nodes \ ToSet(indices') :
                   full_retset[n] > 0 => exact[Last(indices')] <= exact[n]
  <2>1. Len(s) \in Nat /\ KSearch \in Nat /\ KSearch >= 1 /\ \A i \in 1..Len(s) : s[i] \in Nodes
    <3>1. s \in Seq(S) /\ \A n \in S : n \in Nodes
      BY <1>2
    <3> HIDE DEF S
    <3> QED BY ConstantFacts, <3>1, LenProperties, ElementOfSeq
  <2>2. ~(Len(s) < KSearch) /\ indices' = SubSeq(s, 1, KSearch)
    BY <1>1, <1>11
  <2>3. KSearch <= Len(s)
    BY <2>1, <2>2
  <2>4. indices' = [i \in 1..KSearch |-> s[i]]
    <3> HIDE DEF S
    <3> QED BY <1>2, <2>1, <2>2, <2>3, SubSeqProperties
  <2> HIDE DEF S
  <2>5. /\ DOMAIN indices' = 1..KSearch /\ Len(indices') = KSearch
        /\ \A i \in 1..KSearch : indices'[i] = s[i] /\ i \in 1..Len(s)
    BY <2>1, <2>3, <2>4
  <2>6. \A i \in 1..Len(s) : exact[s[i]] \in Int
    BY <2>1 DEF Inv, TypeOK
  <2>7. ASSUME NEW i \in 1..KSearch, NEW j \in 1..KSearch, indices'[i] = indices'[j] PROVE i = j
    <3>1. s[i] = s[j] /\ i \in 1..Len(s) /\ j \in 1..Len(s)
      BY <2>5, <2>7
    <3>2. exact[s[i]] \in Int /\ exact[s[j]] = exact[s[i]]
      BY <2>6, <3>1
    <3>3. /\ i < j => exact[s[i]] < exact[s[j]]
          /\ j < i => exact[s[j]] < exact[s[i]]
      BY <1>2, <3>1
    <3>4. ~(exact[s[i]] < exact[s[i]])
      BY ONLY <3>2
    <3>5. ~(i < j) /\ ~(j < i)
      BY <3>2, <3>3, <3>4
    <3> QED BY ONLY <3>1, <3>5, <2>1
  <2>8. ASSUME NEW n \in Nodes \ ToSet(indices'), full_retset[n] > 0
        PROVE  exact[Last(indices')] <= exact[n]
    <3>1. PICK i \in 1..Len(s) : s[i] = n
      BY <1>2, <2>8 DEF S
    <3>2. i \notin 1..KSearch
      BY <2>5, <2>8, <3>1 DEF ToSet
    <3>3. KSearch < i /\ KSearch \in 1..Len(s)
      BY ONLY <2>1, <2>3, <3>2, i \in 1..Len(s)
    <3>4. exact[s[KSearch]] < exact[s[i]]
      BY <1>2, <3>3
    <3>5. Last(indices') = s[KSearch]
      BY <2>1, <2>5 DEF Last
    <3> QED BY <2>6, <3>1, <3>3, <3>4, <3>5
  <2> QED BY <2>5, <2>7, <2>8 DEF IsInjective
<1>12. RefineInv'
  <2>1. AnswerNearest'
    BY <1>1, <1>10, <1>11 DEF AnswerNearest
  <2> QED BY <1>1, <1>3, <1>9, <2>1 DEF RefineInv, Refined
<1> QED BY <1>4, <1>5, <1>6, <1>7, <1>8, <1>12 DEF Inv

\* Every step keeps the invariant.
LEMMA NextInv ==
  ASSUME Inv, [Next]_vars
  PROVE  Inv'
<1>1. CASE \E list \in StartLists : StartQuery(list)
  BY <1>1, StartQueryKeeps
<1>2. CASE Process
  BY <1>2, ProcessKeeps
<1>3. CASE \E n \in 0..n_io_in_q : Collect(n)
  BY <1>3, CollectKeeps
<1>4. CASE Dispatch
  BY <1>4, DispatchKeeps
<1>5. CASE SkipDispatch
  BY <1>5, SkipDispatchKeeps
<1>6. CASE BeginRefine
  BY <1>6, BeginRefineKeeps
<1>7. CASE SubmitEmbeddings
  BY <1>7, SubmitEmbeddingsKeeps
<1>8. CASE \E finished \in SUBSET flying : DrainEmbeddings(finished)
  BY <1>8, DrainEmbeddingsKeeps
<1>9. CASE EndBatch
  BY <1>9, EndBatchKeeps
<1>10. CASE EndQuery
  BY <1>10, EndQueryKeeps
<1>11. CASE UNCHANGED vars
  <2>1. UNCHANGED <<pc, pq, exact, retset, visited, page_visited, full_retset, loaded, frontier,
                    flying, sector_buffers, cached_node, n_io_in_q, n_proc_in_q, n_cached_in_q,
                    embedding_search_L, l_idx, n_ops, indices>>
    BY <1>11 DEF vars, sets, ring, cached, refine
  <2>2. TypeOK'
    BY <2>1 DEF Inv, TypeOK
  <2>3. ListInv' /\ ReadsInv'
    BY <2>1 DEF Inv, ListInv, ReadsInv
  <2>4. PointerInv'
    BY <2>1, PointersUnchanged
  <2>5. TraversalInv'
    BY <2>1 DEF Inv, TraversalInv, TraversalClosed, FewReads, Pending, Expanded
  <2>6. RefineInv'
    BY <2>1 DEF Inv, RefineInv, AnswerNearest, Pending
  <2> QED BY <2>2, <2>3, <2>4, <2>5, <2>6 DEF Inv
<1> QED BY <1>1, <1>2, <1>3, <1>4, <1>5, <1>6, <1>7, <1>8, <1>9, <1>10, <1>11 DEF Next, Stopped

\* The invariant holds in every behaviour of the search.
LEMMA InvHolds ==
  Spec => []Inv
<1>1. Init => Inv
  BY InitInv
<1>2. Inv /\ [Next]_vars => Inv'
  BY NextInv
<1> QED BY <1>1, <1>2, PTL DEF Spec
-----------------------------------------------------------------------------
\* Every pointer to a copy leads to the neighbours of its node until its sector
\* buffer is handed out again, however often the ring went round: a copy that is
\* still there is never taken for that of another node.
THEOREM NeighboursAreOwn ==
  Spec => []AdjacencyIsOwn
<1>1. Inv => AdjacencyIsOwn
  <2> SUFFICES ASSUME Inv PROVE AdjacencyIsOwn
    OBVIOUS
  <2>1. /\ frontier \in Seq(Nodes) /\ cached_node \in Seq([id : Nodes, ptr : Pointers])
        /\ DOMAIN loaded \subseteq Nodes /\ \A n \in DOMAIN loaded : loaded[n] \in Pointers
    BY LoadsFacts DEF Inv, TypeOK
  <2>2. ASSUME NEW n \in DOMAIN loaded, StillThere(loaded[n])
        PROVE  NbrsAt(n, loaded[n]) = Nbrs[n]
    <3>1. RightPointer(n, loaded[n])
      BY DEF Inv, PointerInv
    <3> QED BY <2>1, <2>2, <3>1, NbrsAtFacts
  <2>3. ASSUME NEW i \in DOMAIN cached_node, StillThere(cached_node[i].ptr)
        PROVE  NbrsAt(cached_node[i].id, cached_node[i].ptr) = Nbrs[cached_node[i].id]
    <3>1. i \in 1..Len(cached_node)
      BY <2>1
    <3>2. cached_node[i] \in [id : Nodes, ptr : Pointers]
      BY <2>1, <3>1, ElementOfSeq
    <3>3. \/ cached_node[i].ptr = InMemory
          \/ RightPointer(cached_node[i].id, cached_node[i].ptr)
      BY <3>1 DEF Inv, PointerInv
    <3>4. cached_node[i].id \in Nodes /\ cached_node[i].ptr \in Pointers
      BY <3>2
    <3> QED BY <2>1, <2>3, <3>3, <3>4, NbrsAtFacts
  <2> QED BY <2>2, <2>3 DEF AdjacencyIsOwn
<1> QED BY <1>1, InvHolds, PTL

\* A traversal that used no sector buffer twice ended at a fixed point of greedy
\* search: every candidate of the list has been expanded, whichever of the ways
\* it took.
THEOREM TraversalReachesFixedPoint ==
  Spec => []TraversalClosed
<1>1. Inv => TraversalClosed
  BY DEF Inv, TraversalInv
<1> QED BY <1>1, InvHolds, PTL

\* However its buffers were used, a query answers with distinct nodes, the nearest
\* of all it evaluated, to which every candidate that the refinement looked at
\* belongs.
THEOREM AnswersAreNearest ==
  Spec => []AnswerNearest
<1>1. Inv => AnswerNearest
  BY DEF Inv, RefineInv
<1> QED BY <1>1, InvHolds, PTL
-----------------------------------------------------------------------------
(* The search as a query of the pipeline.                                  *)

\* The values the pipeline's variables have in the search, as in Pipeline.
PipePc == IF pc \in Refined THEN "start" ELSE pc
PipeQuery == IF pc = "start" THEN 0 ELSE 1
PipeFlying == {t - 1 : t \in flying}
PipeQueue == [i \in DOMAIN sector_buffers |-> sector_buffers[i] - 1]

\* The places of the loop over rounds.
Loop == {"process", "collect", "dispatch"}

\* The reads of T, of L that were issued, each under its sector buffer.
MapOf(T, L) ==
  [b \in {(t - 1) % MaxReads : t \in T} |->
     CHOOSE t \in 0..L : t + 1 \in T /\ t % MaxReads = b]
PipeMap == MapOf(TraversalReads, Len(frontier))

Ring == INSTANCE ReadPipelineProofs WITH
  DispatchBelow <- (BeamWidth \div 2) + 1, MemoryShare <- BeamWidth - 1,
  IoLimit <- Cardinality(Nodes) + 1, MaxCandidates <- Cardinality(Nodes),
  EmbeddingL <- LSearch, Queries <- 1,
  pc <- PipePc, query <- PipeQuery, base <- 0, issued <- Len(frontier),
  flying <- PipeFlying, sector_buffers <- PipeQueue, sec_buf2ftr <- PipeMap

\* The ring has room for the beam.
RingFits == 2 * BeamWidth + (BeamWidth \div 2 + 1) - 2 <= MaxReads

\* The pipeline's assumptions on its constants.
LEMMA RingAssumption ==
  ASSUME RingFits
  PROVE  Ring!PipelineAssumption /\ Ring!RingHoldsWindow /\ Ring!NoIoLimit
<1>1. /\ LSearch \in Nat \ {0} /\ BeamWidth \in Nat \ {0} /\ MaxReads \in Nat \ {0}
      /\ BeamWidth \div 2 \in Nat /\ 2 * (BeamWidth \div 2) <= BeamWidth
      /\ BeamWidth <= 2 * (BeamWidth \div 2) + 1
  BY ConstantFacts
<1>2. Cardinality(Nodes) \in Nat /\ 2 * BeamWidth + (BeamWidth \div 2 + 1) - 2 <= MaxReads
  BY FS_CardinalityType, ConstantFacts DEF RingFits
<1>3. BeamWidth <= MaxReads /\ BeamWidth - 1 \in Nat /\ BeamWidth \div 2 + 1 \in Nat
  BY <1>1, ConstantFacts
<1> QED BY <1>1, <1>2, <1>3 DEF Ring!PipelineAssumption, Ring!RingHoldsWindow,
           Ring!NoIoLimit

\* The pipeline's invariant, from ReadPipelineProofs.
LEMMA RingStep ==
  ASSUME RingFits, Ring!IInv, [Ring!Next]_(Ring!vars)
  PROVE  Ring!IInv'
BY RingAssumption, Ring!NextIInv

\* The pipeline's invariant at its start.
LEMMA RingInit ==
  ASSUME RingFits, Ring!Init
  PROVE  Ring!IInv
BY RingAssumption, Ring!InitIInv
-----------------------------------------------------------------------------
(* How many candidates a query can select.                                 *)

\* The nodes seen that are not to be selected any more.
Chosen == {n \in visited : \A i \in 1..Len(retset) : retset[i].flag => retset[i].id # n}

\* Each selected candidate is one of them; nothing is selected nor issued before
\* the query starts.
Counted ==
  /\ selected \in Nat /\ selected <= Cardinality(Chosen)
  /\ pc = "start" =>
       /\ frontier = <<>> /\ sector_buffers = <<>> /\ selected = 0
       /\ n_io_in_q = 0 /\ n_proc_in_q = 0 /\ n_cached_in_q = 0
       /\ embedding_search_L = 0 /\ l_idx = 0 /\ n_ops = 0

\* They are no more than the nodes.
LEMMA ChosenFinite ==
  ASSUME RingFits, TypeOK
  PROVE  /\ IsFiniteSet(Chosen) /\ Cardinality(Chosen) \in Nat
         /\ Cardinality(Chosen) <= Cardinality(Nodes)
<1>1. Chosen \subseteq Nodes
  BY DEF Chosen, TypeOK
<1> QED BY <1>1, FS_Subset, FS_CardinalityType, ConstantFacts

\* What is seen anew is on the list to be selected, or was evicted for good.
LEMMA ProcessCounted ==
  ASSUME RingFits, Inv, Inv', Counted, Process
  PROVE  Counted'
<1>1. /\ visited \subseteq visited'
      /\ \A i \in 1..Len(retset') :
           retset'[i].id \notin visited \/ \E j \in 1..Len(retset) : retset'[i] = retset[j]
  BY ProcessedFacts
<1>2. Chosen \subseteq Chosen'
  BY <1>1 DEF Chosen
<1>3. IsFiniteSet(Chosen') /\ Cardinality(Chosen') \in Nat /\ Cardinality(Chosen) \in Nat
  <2>1. Chosen' \subseteq Nodes
    BY DEF Chosen, Inv, TypeOK
  <2> QED BY <2>1, ChosenFinite, FS_Subset, FS_CardinalityType, ConstantFacts DEF Inv
<1>4. Cardinality(Chosen) <= Cardinality(Chosen')
  BY <1>2, <1>3, FS_Subset
<1>5. selected' = selected /\ pc' # "start"
  BY Zenon DEF Process
<1> QED BY <1>3, <1>4, <1>5 DEF Counted

\* A round marks what it selects.
LEMMA DispatchCounted ==
  ASSUME RingFits, Inv, Inv', Counted, Dispatch
  PROVE  /\ Counted' /\ Len(Round.reads) <= BeamWidth
         /\ Len(Round.reads) + Len(Round.cached) <= BeamWidth + (BeamWidth - 1)
         /\ selected' = selected + Len(Round.reads) + Len(Round.cached)
<1> DEFINE r == Round
           k == Len(retset)
           lr == Len(r.reads)
           lc == Len(r.cached)
           M == Marks(k, r)
           new == {retset[i].id : i \in M}
<1>1. retset' = r.retset /\ visited' = visited
  BY DispatchParts
<1>2. selected' = selected + lr + lc /\ pc' # "start"
  BY DispatchParts
<1>3. r \in SelectState /\ RoundAt(k, r)
  BY RoundFacts
<1> HIDE DEF r
<1>4. /\ lr \in Nat /\ lc \in Nat /\ lr + lc <= Cardinality(M)
      /\ lr <= BeamWidth /\ lr + lc <= BeamWidth + (BeamWidth - 1)
      /\ Len(r.retset) = k
      /\ \A i \in 1..k : /\ r.retset[i].id = retset[i].id
                         /\ r.retset[i].flag => retset[i].flag
  <2> DEFINE a == r.num_seen
             b == r.disk_seen
             C == [id : Nodes, ptr : Pointers]
  <2>1. r.reads \in Seq(Nodes) /\ r.cached \in Seq(C) /\ a \in Nat /\ b \in Nat
    BY <1>3 DEF SelectState
  <2>2. /\ a + b = lr + lc /\ lr <= a /\ a + b <= Cardinality(M)
        /\ a <= BeamWidth /\ a + b < 2 * BeamWidth
    BY <1>3 DEF RoundAt
  <2>3. /\ Len(r.retset) = k
        /\ \A i \in 1..k : /\ r.retset[i].id = retset[i].id
                           /\ r.retset[i].flag => retset[i].flag
    BY <1>3 DEF RoundAt
  <2> HIDE DEF C
  <2>4. lr \in Nat /\ lc \in Nat
    BY <2>1, LenProperties
  <2>5. BeamWidth \in Nat
    BY ConstantFacts
  <2>6. a \in Nat /\ b \in Nat
    BY <2>1
  <2> HIDE DEF a, b, lr, lc
  <2>7. /\ lr <= BeamWidth /\ lr + lc <= BeamWidth + (BeamWidth - 1)
        /\ lr + lc <= Cardinality(M)
    BY ONLY <2>2, <2>4, <2>5, <2>6
  <2> QED BY <2>3, <2>4, <2>7
<1> HIDE DEF lr, lc
<1>5. k \in Nat /\ \A i, j \in 1..k : retset[i].id = retset[j].id => i = j
  <2>1. k \in Nat /\ \A i, j \in 1..k : i < j => retset[i].id # retset[j].id
    BY TypeFacts DEF Inv, ListInv, KeepsBest
  <2> QED BY <2>1
<1>6. M \subseteq 1..k /\ \A i \in M : retset[i].flag /\ ~r.retset[i].flag
  BY DEF Marks
<1> HIDE DEF M, k
<1>7. IsFiniteSet(M) /\ Cardinality(M) \in Nat
  <2>1. IsFiniteSet(1..k)
    BY <1>5, FS_Interval
  <2> QED BY <1>6, <2>1, FS_Subset, FS_CardinalityType
<1>8. IsFiniteSet(new) /\ Cardinality(new) = Cardinality(M)
  <2> DEFINE f == [i \in M |-> retset[i].id]
  <2>1. f \in Bijection(M, new)
    <3>1. f \in [M -> new] /\ \A i, j \in M : f[i] = f[j] => i = j
      BY <1>5, <1>6
    <3>2. \A n \in new : \E i \in M : f[i] = n
      OBVIOUS
    <3> QED BY <3>1, <3>2 DEF Bijection, Injection, Surjection, IsInjective
  <2>2. ExistsBijection(M, new)
    BY <2>1 DEF ExistsBijection
  <2> QED BY <2>2, <1>7, FS_Bijection
<1>9. Chosen \cup new \subseteq Chosen' /\ Chosen \cap new = {}
  <2>1. \A i \in 1..k : retset[i].id \in visited
    BY DEF Inv, ListInv, KeepsBest, Ids, k
  <2>2. Chosen' = {n \in visited : \A i \in 1..k : r.retset[i].flag => r.retset[i].id # n}
    BY <1>1, <1>4 DEF Chosen
  <2>3. Chosen = {n \in visited : \A i \in 1..k : retset[i].flag => retset[i].id # n}
    BY DEF Chosen, k
  <2>4. Chosen \subseteq Chosen'
    BY <1>4, <2>2, <2>3
  <2>5. new \subseteq Chosen'
    <3> SUFFICES ASSUME NEW i \in M PROVE retset[i].id \in Chosen'
      OBVIOUS
    <3> QED BY <1>4, <1>5, <1>6, <2>1, <2>2
  <2> QED BY <1>6, <2>3, <2>4, <2>5
<1>10. /\ IsFiniteSet(Chosen) /\ Cardinality(Chosen) \in Nat
       /\ IsFiniteSet(Chosen') /\ Cardinality(Chosen') \in Nat
  <2>1. Chosen' \subseteq Nodes
    BY DEF Chosen, Inv, TypeOK
  <2> QED BY <2>1, ChosenFinite, FS_Subset, FS_CardinalityType, ConstantFacts DEF Inv
<1>11. Cardinality(Chosen) + Cardinality(new) <= Cardinality(Chosen')
  <2>1. Cardinality(Chosen \cup new) = Cardinality(Chosen) + Cardinality(new)
    <3>1. Cardinality(Chosen \cup new) =
            Cardinality(Chosen) + Cardinality(new) - Cardinality(Chosen \cap new)
      BY <1>8, <1>10, FS_Union
    <3>2. Cardinality(Chosen \cap new) = 0
      BY <1>9, FS_EmptySet
    <3> QED BY <3>1, <3>2, <1>7, <1>8, <1>10
  <2>2. Cardinality(Chosen \cup new) <= Cardinality(Chosen')
    BY <1>9, <1>10, FS_Subset
  <2> QED BY <2>1, <2>2
<1>12. selected \in Nat /\ selected <= Cardinality(Chosen)
  BY DEF Counted
<1> HIDE DEF new
<1>13. selected + lr + lc <= Cardinality(Chosen') /\ selected + lr + lc \in Nat
  <2>1. Cardinality(new) \in Nat /\ lr + lc <= Cardinality(new)
    BY <1>4, <1>7, <1>8
  <2> QED BY ONLY <2>1, <1>4, <1>10, <1>11, <1>12
<1>14. Counted'
  BY <1>2, <1>13 DEF Counted
<1>15. /\ lr <= BeamWidth /\ lr + lc <= BeamWidth + (BeamWidth - 1)
       /\ selected' = selected + lr + lc
  BY <1>2, <1>4
<1> QED BY Zenon, <1>14, <1>15 DEF r, lr, lc

\* No other step selects anything.
LEMMA NextCounted ==
  ASSUME RingFits, Inv, Inv', Counted, [Next]_vars
  PROVE  Counted'
<1> USE DEF sets, ring, cached, refine
<1>1. CASE Process
  BY <1>1, ProcessCounted
<1>2. CASE Dispatch
  BY <1>2, DispatchCounted
<1>3. CASE \E list \in StartLists : StartQuery(list)
  <2>1. pc = "start" /\ pc' = "process" /\ selected' = selected
    BY <1>3 DEF StartQuery
  <2>2. Chosen' \subseteq Nodes
    BY DEF Chosen, Inv, TypeOK
  <2>3. Cardinality(Chosen') \in Nat
    BY <2>2, FS_Subset, FS_CardinalityType, ConstantFacts
  <2> QED BY <2>1, <2>3 DEF Counted
<1>4. ASSUME retset' = retset, visited' = visited, selected' = selected,
             pc' # "start" \/ UNCHANGED vars
      PROVE  Counted'
  <2>1. Chosen' = Chosen
    BY <1>4 DEF Chosen
  <2> QED BY <1>4, <2>1 DEF Counted, vars
<1>5. CASE \E n \in 0..n_io_in_q : Collect(n)
  BY <1>4, <1>5 DEF Collect
<1>6. CASE SkipDispatch \/ BeginRefine
  BY <1>4, <1>6 DEF SkipDispatch, BeginRefine
<1>7. CASE SubmitEmbeddings
  <2>1. retset' = retset /\ visited' = visited /\ selected' = selected /\ pc' # "start"
    BY Zenon, <1>7 DEF SubmitEmbeddings
  <2> QED BY <1>4, <2>1
<1>8. CASE \E finished \in SUBSET flying : DrainEmbeddings(finished)
  <2>1. retset' = retset /\ visited' = visited /\ selected' = selected /\ pc' # "start"
    BY Zenon, <1>8 DEF DrainEmbeddings
  <2> QED BY <1>4, <2>1
<1>9. CASE EndBatch
  BY <1>4, <1>9 DEF EndBatch
<1>10. CASE EndQuery
  <2>1. retset' = retset /\ visited' = visited /\ selected' = selected /\ pc' # "start"
    BY Zenon, <1>10 DEF EndQuery
  <2> QED BY <1>4, <2>1
<1>11. CASE UNCHANGED vars
  BY <1>4, <1>11 DEF vars
<1> QED BY <1>1, <1>2, <1>3, <1>5, <1>6, <1>7, <1>8, <1>9, <1>10, <1>11 DEF Next, Stopped
-----------------------------------------------------------------------------
(* What the pipeline's invariant says of the search.                       *)

\* The pipeline's queue holds the same reads.
LEMMA QueueFacts ==
  ASSUME TypeOK
  PROVE  /\ PipeQueue \in Seq(Int) /\ Len(PipeQueue) = Len(sector_buffers)
         /\ Len(sector_buffers) \in Nat /\ Len(frontier) \in Nat
         /\ \A i \in 1..Len(sector_buffers) :
              sector_buffers[i] \in Nat /\ PipeQueue[i] = sector_buffers[i] - 1
         /\ ToSet(sector_buffers) = {sector_buffers[i] : i \in 1..Len(sector_buffers)}
<1> DEFINE k == Len(sector_buffers)
<1>1. sector_buffers \in Seq(Nat) /\ k \in Nat /\ DOMAIN sector_buffers = 1..k
      /\ \A i \in 1..k : sector_buffers[i] \in Nat
  BY TypeFacts, LenProperties, ElementOfSeq DEF TypeOK
<1>2. Len(frontier) \in Nat
  BY TypeFacts
<1> HIDE DEF k
<1>3. PipeQueue = [i \in 1..k |-> sector_buffers[i] - 1]
  BY <1>1 DEF PipeQueue
<1>4. PipeQueue \in Seq(Int) /\ Len(PipeQueue) = k
  BY <1>1, <1>3
<1>5. ToSet(sector_buffers) = {sector_buffers[i] : i \in 1..k}
  BY <1>1 DEF ToSet
<1> QED BY <1>1, <1>2, <1>3, <1>4, <1>5 DEF k

\* A map of reads is known by its buffers and what it says of them.
LEMMA MapIs ==
  ASSUME NEW L \in Nat, NEW T, T \subseteq 1..L,
         \A s, t \in T : (s - 1) % MaxReads = (t - 1) % MaxReads => s = t,
         NEW f, f = [b \in DOMAIN f |-> f[b]],
         DOMAIN f = {(t - 1) % MaxReads : t \in T},
         \A t \in T : f[(t - 1) % MaxReads] = t - 1
  PROVE  MapOf(T, L) = f
<1>1. ASSUME NEW t \in T
      PROVE  (CHOOSE c \in 0..L : c + 1 \in T /\ c % MaxReads = (t - 1) % MaxReads) = t - 1
  <2> DEFINE P(c) == c \in 0..L /\ c + 1 \in T /\ c % MaxReads = (t - 1) % MaxReads
  <2>1. P(t - 1)
    <3>1. t \in Nat /\ t - 1 \in 0..L /\ (t - 1) + 1 = t
      OBVIOUS
    <3> QED BY <3>1
  <2>2. ASSUME NEW c, P(c) PROVE c = t - 1
    <3>1. (c + 1) - 1 = c
      BY <2>2
    <3>2. ((c + 1) - 1) % MaxReads = (t - 1) % MaxReads /\ c + 1 \in T
      BY <2>2, <3>1
    <3>3. c + 1 = t
      BY <3>2
    <3> QED BY <3>1, <3>3
  <2> HIDE DEF P
  <2>3. (CHOOSE c : P(c)) = t - 1
    BY <2>1, <2>2
  <2> QED BY Zenon, <2>3 DEF P
<1>2. \A b \in DOMAIN f :
        (CHOOSE c \in 0..L : c + 1 \in T /\ c % MaxReads = b) = f[b]
  <2> SUFFICES ASSUME NEW t \in T
               PROVE  (CHOOSE c \in 0..L : c + 1 \in T /\ c % MaxReads = (t - 1) % MaxReads)
                        = f[(t - 1) % MaxReads]
    OBVIOUS
  <2> QED BY Zenon, <1>1
<1>3. MapOf(T, L) = [b \in DOMAIN f |-> CHOOSE c \in 0..L : c + 1 \in T /\ c % MaxReads = b]
  BY Zenon DEF MapOf
<1> QED BY Zenon, <1>2, <1>3

\* Of the reads that are owed: where they are, how old, and no two in one buffer.
LEMMA RingFacts ==
  ASSUME RingFits, Inv, Ring!IInv
  PROVE  /\ selected \in 0..Cardinality(Nodes)
         /\ pc \in Loop => Len(frontier) <= selected
         /\ pc \notin Loop => sector_buffers = <<>> /\ TraversalReads = {}
         /\ pc \in Loop =>
              /\ TraversalReads = flying \cup ToSet(sector_buffers)
              /\ flying \cap ToSet(sector_buffers) = {}
              /\ \A i, j \in 1..Len(sector_buffers) : sector_buffers[i] = sector_buffers[j] => i = j
              /\ n_proc_in_q + n_io_in_q < BeamWidth + (BeamWidth \div 2 + 1)
              /\ \A i \in 1..Len(sector_buffers) :
                   Len(frontier) - (sector_buffers[i] - 1)
                     <= BeamWidth + (Len(sector_buffers) - i) + n_io_in_q
         /\ TraversalReads \subseteq 1..Len(frontier)
         /\ \A s, t \in TraversalReads : (s - 1) % MaxReads = (t - 1) % MaxReads => s = t
<1> DEFINE k == Len(sector_buffers)
           L == Len(frontier)
<1>1. /\ PipeQueue \in Seq(Int) /\ Len(PipeQueue) = k /\ k \in Nat /\ L \in Nat
      /\ \A i \in 1..k : sector_buffers[i] \in Nat /\ PipeQueue[i] = sector_buffers[i] - 1
      /\ ToSet(sector_buffers) = {sector_buffers[i] : i \in 1..k}
  BY QueueFacts DEF Inv
<1>2. flying \subseteq 1..L /\ flying \subseteq Nat
  BY <1>1 DEF Inv, TypeOK
<1>3. PipePc \in Ring!Traversal <=> pc \in Loop
  BY DEF PipePc, Ring!Traversal, Traversal, Loop, Refined, Inv, TypeOK
<1>4. selected \in 0..Cardinality(Nodes)
  BY DEF Ring!IInv, Ring!TypeOK
<1>5. pc \in Loop => L <= selected
  BY <1>1, <1>3 DEF Ring!IInv
<1>6. pc \notin Loop => sector_buffers = <<>>
  <2> SUFFICES ASSUME pc \notin Loop PROVE sector_buffers = <<>>
    OBVIOUS
  <2>1. PipeQueue = <<>>
    BY <1>3 DEF Ring!IInv
  <2>2. k = 0
    BY <2>1, <1>1
  <2> QED BY <2>2, EmptySeq DEF Inv, TypeOK
<1>7. pc \notin Loop => TraversalReads = {}
  <2>1. pc \notin Loop /\ pc # "drain" => flying = {}
    BY DEF Inv, ReadsInv, TypeOK, Traversal, Loop, Refined
  <2>2. sector_buffers = <<>> => ToSet(sector_buffers) = {}
    BY DEF ToSet
  <2> QED BY <1>6, <2>1, <2>2 DEF TraversalReads
<1>8. pc \in Loop => TraversalReads = flying \cup ToSet(sector_buffers)
  BY DEF TraversalReads, Traversal, Loop
<1>9. Ring!OwedOnce /\ Ring!Window
  BY DEF Ring!IInv
<1>10. flying \cap ToSet(sector_buffers) = {}
  <2> SUFFICES ASSUME NEW i \in 1..k, sector_buffers[i] \in flying PROVE FALSE
    BY <1>1
  <2>1. PipeQueue[i] \in PipeFlying
    BY <1>1 DEF PipeFlying
  <2>2. PipeQueue[i] \in Ring!InQueue
    BY <1>1 DEF Ring!InQueue
  <2> QED BY <2>1, <2>2, <1>9 DEF Ring!OwedOnce
<1>11. \A i, j \in 1..k : sector_buffers[i] = sector_buffers[j] => i = j
  BY <1>1, <1>9 DEF Ring!OwedOnce
<1>12. pc \in Loop =>
         /\ n_proc_in_q + n_io_in_q < BeamWidth + (BeamWidth \div 2 + 1)
         /\ \A i \in 1..k : L - PipeQueue[i] <= BeamWidth + (k - i) + n_io_in_q
  BY <1>1, <1>3, <1>9 DEF Ring!Window
<1>13. pc \in Loop =>
         \A i \in 1..k : L - (sector_buffers[i] - 1) <= BeamWidth + (k - i) + n_io_in_q
  <2> SUFFICES ASSUME pc \in Loop, NEW i \in 1..k
               PROVE  L - (sector_buffers[i] - 1) <= BeamWidth + (k - i) + n_io_in_q
    BY Zenon
  <2>1. L - PipeQueue[i] <= BeamWidth + (k - i) + n_io_in_q
    BY <1>12
  <2>2. PipeQueue[i] = sector_buffers[i] - 1
    BY <1>1
  <2> QED BY <2>1, <2>2
<1>14. TraversalReads \subseteq 1..L
  <2>1. pc \in Loop => \A i \in 1..k : sector_buffers[i] \in 1..L
    BY DEF Inv, ReadsInv
  <2>2. pc \in Loop => ToSet(sector_buffers) \subseteq 1..L
    BY <2>1, <1>1
  <2> HIDE DEF L
  <2> QED BY <2>2, <1>2, <1>7, <1>8
<1>15. Ring!BuffersExclusive
  BY RingAssumption, Ring!Exclusive
<1>16. ASSUME NEW s \in TraversalReads, NEW t \in TraversalReads,
              (s - 1) % MaxReads = (t - 1) % MaxReads
       PROVE  s = t
  <2>1. \A r \in TraversalReads : r - 1 \in Ring!Owed
    <3>1. \A r \in TraversalReads : r \in flying \/ \E i \in 1..k : r = sector_buffers[i]
      BY <1>1, <1>7, <1>8
    <3> QED BY <3>1, <1>1 DEF Ring!Owed, Ring!InQueue, PipeFlying
  <2>2. s - 1 = t - 1
    BY <2>1, <1>15, <1>16 DEF Ring!BuffersExclusive, Ring!Buffer
  <2>3. s \in Nat /\ t \in Nat
    BY <1>14
  <2> QED BY <2>2, <2>3
<1> QED BY <1>4, <1>5, <1>6, <1>7, <1>8, <1>10, <1>11, <1>12, <1>13, <1>14, <1>16
-----------------------------------------------------------------------------
(* Every step of the search is a step of the pipeline.                     *)

\* Without reads the map is empty.
LEMMA EmptyMap ==
  ASSUME NEW L
  PROVE  MapOf({}, L) = Ring!NoEntries
<1>1. {(t - 1) % MaxReads : t \in {}} = {}
  OBVIOUS
<1> QED BY <1>1 DEF MapOf, Ring!NoEntries

\* The traversal is not cut by io_limit.
LEMMA LoopGoesOn ==
  ASSUME RingFits, NEW n \in Nat, n <= Cardinality(Nodes)
  PROVE  Ring!LoopEntry(n) = "process"
BY FS_CardinalityType, ConstantFacts DEF Ring!LoopEntry

\* A round begins when the pipeline says so.
LEMMA SameRounds ==
  ASSUME TypeOK
  PROVE  Ring!RoundOpen <=> RoundOpen
<1>1. n_proc_in_q \in Nat /\ BeamWidth \div 2 \in Nat
  BY ConstantFacts DEF TypeOK
<1> DEFINE half == BeamWidth \div 2
<1> HIDE DEF half
<1>2. n_proc_in_q < half + 1 <=> n_proc_in_q <= half
  BY <1>1 DEF half
<1> QED BY <1>2 DEF RoundOpen, Ring!RoundOpen, half

\* A query starts.
LEMMA StartQueryStep ==
  ASSUME RingFits, Inv, Counted, NEW list, StartQuery(list)
  PROVE  Ring!StartQuery
<1>1. /\ pc = "start" /\ pc' = "process"
      /\ UNCHANGED <<frontier, flying, sector_buffers, n_io_in_q, n_proc_in_q, n_cached_in_q,
                     embedding_search_L, l_idx, n_ops, selected>>
  BY DEF StartQuery, ring, cached, refine
<1>2. /\ frontier = <<>> /\ sector_buffers = <<>> /\ selected = 0 /\ flying = {}
      /\ n_io_in_q = 0 /\ n_proc_in_q = 0 /\ n_cached_in_q = 0
      /\ embedding_search_L = 0 /\ l_idx = 0 /\ n_ops = 0
  BY <1>1 DEF Counted, Inv, ReadsInv
<1>3. PipePc = "start" /\ PipePc' = "process" /\ PipeQuery = 0 /\ PipeQuery' = 1
  BY <1>1 DEF PipePc, PipeQuery, Refined
<1>4. Len(frontier) = 0 /\ Len(frontier') = 0
  BY <1>1, <1>2
<1>5. PipeMap' = Ring!NoEntries
  <2>1. ToSet(<<>>) = {}
    BY DEF ToSet
  <2>2. TraversalReads' = {}
    BY <1>1, <1>2, <2>1 DEF TraversalReads
  <2> QED BY <2>2, EmptyMap DEF PipeMap
<1>6. PipeFlying' = PipeFlying /\ PipeQueue' = PipeQueue
  BY <1>1 DEF PipeFlying, PipeQueue
<1>7. Ring!LoopEntry(0) = "process"
  BY LoopGoesOn, FS_CardinalityType, ConstantFacts
<1>8. 0 \in 0..0 /\ MaxReads * 0 = 0 /\ 0 < 0 + MaxReads
  BY ConstantFacts
<1> QED BY <1>1, <1>2, <1>3, <1>4, <1>5, <1>6, <1>7, <1>8 DEF Ring!StartQuery

\* Outside of the traversal the pipeline has no sector buffers on its map.
LEMMA QuietMap ==
  ASSUME TypeOK, TraversalReads = {}, TraversalReads' = {}
  PROVE  PipeMap' = PipeMap
BY EmptyMap DEF PipeMap

\* No round starts: the loop goes on.
LEMMA SkipDispatchStep ==
  ASSUME RingFits, Inv, Ring!IInv, SkipDispatch
  PROVE  Ring!SkipDispatch
<1>1. /\ pc = "dispatch" /\ pc' = "process" /\ ~RoundOpen
      /\ UNCHANGED <<frontier, flying, sector_buffers, n_io_in_q, n_proc_in_q, n_cached_in_q,
                     embedding_search_L, l_idx, n_ops, selected>>
  BY DEF SkipDispatch, ring, cached, refine
<1>2. PipePc = "dispatch" /\ PipePc' = "process" /\ PipeQuery' = PipeQuery
  BY <1>1 DEF PipePc, PipeQuery, Refined
<1>3. PipeFlying' = PipeFlying /\ PipeQueue' = PipeQueue /\ TraversalReads' = TraversalReads
  BY <1>1 DEF PipeFlying, PipeQueue, TraversalReads
<1>4. PipeMap' = PipeMap
  BY <1>1, <1>3 DEF PipeMap
<1>5. Ring!LoopEntry(Len(frontier) - 0) = "process"
  <2>1. Len(frontier) \in Nat /\ Len(frontier) <= Cardinality(Nodes) /\ Len(frontier) - 0 = Len(frontier)
    BY <1>1, RingFacts, QueueFacts, FS_CardinalityType, ConstantFacts DEF Traversal, Loop, Inv
  <2> QED BY <2>1, LoopGoesOn
<1>6. ~Ring!RoundOpen
  BY <1>1, SameRounds DEF Inv
<1> QED BY <1>1, <1>2, <1>3, <1>4, <1>5, <1>6 DEF Ring!SkipDispatch, Ring!ring,
           Ring!counters, Ring!embedding

\* The refinement looks at no more candidates than the list can have.
LEMMA BeginRefineStep ==
  ASSUME RingFits, Inv, Ring!IInv, BeginRefine
  PROVE  Ring!BeginRefine
<1> DEFINE share == (Len(retset) * EmbNum) \div EmbDen
<1>1. /\ pc = "refine" /\ pc' = "embed" /\ l_idx' = 0
      /\ embedding_search_L' = IF share < KSearch THEN KSearch ELSE share
      /\ UNCHANGED <<frontier, flying, sector_buffers, n_io_in_q, n_proc_in_q, n_cached_in_q,
                     n_ops, selected>>
  BY DEF BeginRefine, ring, cached
<1>2. PipePc = "refine" /\ PipePc' = "embed" /\ PipeQuery' = PipeQuery
  BY <1>1 DEF PipePc, PipeQuery, Refined
<1>3. PipeFlying' = PipeFlying /\ PipeQueue' = PipeQueue /\ TraversalReads' = TraversalReads
  BY <1>1 DEF PipeFlying, PipeQueue, TraversalReads
<1>4. PipeMap' = PipeMap
  BY <1>1, <1>3 DEF PipeMap
<1>5. embedding_search_L' \in 0..LSearch
  <2>1. /\ Len(retset) \in Nat /\ Len(retset) <= LSearch /\ LSearch \in Nat
        /\ EmbNum \in Nat /\ EmbNum <= EmbDen /\ EmbDen \in Nat \ {0}
        /\ KSearch \in 1..LSearch
    <3>1. Len(retset) \in 1..LSearch
      BY <1>1 DEF Inv, ListInv
    <3> QED BY <3>1, ConstantFacts, TypeFacts DEF Inv
  <2> DEFINE x == Len(retset)
             e == EmbNum
  <2> HIDE DEF x, e
  <2>2. x \in Nat /\ e \in Nat /\ e <= EmbDen /\ EmbDen \in Nat \ {0} /\ x <= LSearch
    BY <2>1 DEF x, e
  <2>3. x * e \in Nat /\ x * e <= x * EmbDen
    BY <2>2, SMT
  <2>4. (x * e) \div EmbDen \in 0..x
    BY <2>2, <2>3, ShareBound
  <2>5. share \in 0..LSearch
    BY <2>2, <2>4, ConstantFacts DEF x, e
  <2> HIDE DEF share
  <2> QED BY <1>1, <2>1, <2>5
<1> QED BY <1>1, <1>2, <1>3, <1>4, <1>5 DEF Ring!BeginRefine, Ring!ring, Ring!counters

\* A batch is complete.
LEMMA EndBatchStep ==
  ASSUME RingFits, Inv, Inv', Ring!IInv, EndBatch
  PROVE  Ring!EndBatch
<1>1. /\ pc = "drain" /\ pc' = "embed" /\ n_ops = 0
      /\ UNCHANGED <<frontier, flying, sector_buffers, n_io_in_q, n_proc_in_q, n_cached_in_q,
                     embedding_search_L, l_idx, n_ops, selected>>
  BY DEF EndBatch, ring, cached, refine
<1>2. PipePc = "drain" /\ PipePc' = "embed" /\ PipeQuery' = PipeQuery
  BY <1>1 DEF PipePc, PipeQuery, Refined
<1>3. PipeFlying' = PipeFlying /\ PipeQueue' = PipeQueue
  BY <1>1 DEF PipeFlying, PipeQueue
<1>4. TraversalReads = {} /\ TraversalReads' = {}
  <2>1. TraversalReads = {} /\ sector_buffers = <<>>
    BY <1>1, RingFacts DEF Traversal, Loop
  <2>2. flying' = {}
    BY <1>1 DEF Inv, ReadsInv
  <2>3. ToSet(<<>>) = {}
    BY DEF ToSet
  <2> QED BY <1>1, <2>1, <2>2, <2>3 DEF TraversalReads
<1>5. PipeMap' = PipeMap
  BY <1>4, QuietMap DEF Inv
<1> QED BY <1>1, <1>2, <1>3, <1>5 DEF Ring!EndBatch, Ring!ring, Ring!counters,
           Ring!embedding

\* With the answer the pipeline has done its part.
LEMMA EndQueryStep ==
  ASSUME RingFits, Inv, Ring!IInv, EndQuery
  PROVE  Ring!EndQuery
<1>1. /\ pc = "embed" /\ pc' \in Refined /\ l_idx >= embedding_search_L
      /\ UNCHANGED <<frontier, flying, sector_buffers, n_io_in_q, n_proc_in_q, n_cached_in_q,
                     embedding_search_L, l_idx, n_ops, selected>>
  BY DEF EndQuery, ring, cached, refine, Refined
<1>2. PipePc = "embed" /\ PipePc' = "start" /\ PipeQuery' = PipeQuery
  BY <1>1 DEF PipePc, PipeQuery, Refined
<1>3. PipeFlying' = PipeFlying /\ PipeQueue' = PipeQueue /\ TraversalReads' = TraversalReads
  BY <1>1 DEF PipeFlying, PipeQueue, TraversalReads, Refined
<1>4. PipeMap' = PipeMap
  BY <1>1, <1>3 DEF PipeMap
<1> QED BY <1>1, <1>2, <1>3, <1>4 DEF Ring!EndQuery, Ring!ring, Ring!counters,
           Ring!embedding

\* In the traversal the map has every read that is owed under its buffer.
LEMMA MapEntries ==
  ASSUME RingFits, Inv, Ring!IInv, pc \in Loop
  PROVE  /\ DOMAIN PipeMap = {(t - 1) % MaxReads : t \in TraversalReads}
         /\ \A t \in TraversalReads : PipeMap[(t - 1) % MaxReads] = t - 1
<1>1. DOMAIN PipeMap = {(t - 1) % MaxReads : t \in TraversalReads}
  BY DEF PipeMap, MapOf
<1>2. PipePc \in Ring!Traversal
  BY DEF PipePc, Ring!Traversal, Traversal, Loop, Refined
<1>3. \A t \in Ring!Owed : PipeMap[t % MaxReads] = t
  BY <1>2 DEF Ring!IInv, Ring!MapExact, Ring!Buffer
<1>4. ASSUME NEW t \in TraversalReads PROVE t - 1 \in Ring!Owed
  <2>1. \/ t \in flying
        \/ \E i \in 1..Len(sector_buffers) : t = sector_buffers[i]
    BY QueueFacts DEF TraversalReads, Traversal, Loop, Inv
  <2>2. CASE t \in flying
    BY <2>2 DEF Ring!Owed, PipeFlying
  <2>3. ASSUME NEW i \in 1..Len(sector_buffers), t = sector_buffers[i]
        PROVE  t - 1 \in Ring!Owed
    BY <2>3, QueueFacts DEF Ring!Owed, Ring!InQueue, Inv
  <2> QED BY <2>1, <2>2, <2>3
<1> QED BY <1>1, <1>3, <1>4

\* Parsing a page takes the oldest read off the queue and off the map.
LEMMA ProcessStep ==
  ASSUME RingFits, Inv, Ring!IInv, Process
  PROVE  Ring!Process
<1> DEFINE k == Len(sector_buffers)
           h == Head(sector_buffers)
<1>1. /\ pc = "process" /\ pc' = "collect" /\ n_cached_in_q' = 0
      /\ IF n_proc_in_q > 0
           THEN sector_buffers' = Tail(sector_buffers) /\ n_proc_in_q' = n_proc_in_q - 1
           ELSE UNCHANGED <<sector_buffers, n_proc_in_q>>
      /\ UNCHANGED <<frontier, flying, n_io_in_q, embedding_search_L, l_idx, n_ops, selected>>
  BY Zenon DEF Process, refine
<1>2. PipePc = "process" /\ PipePc' = "collect" /\ PipeQuery' = PipeQuery
  BY <1>1 DEF PipePc, PipeQuery, Refined
<1>3. PipeFlying' = PipeFlying /\ Len(frontier') = Len(frontier)
  BY <1>1 DEF PipeFlying
<1>4. n_proc_in_q \in Nat /\ k = n_proc_in_q
  BY <1>1 DEF Inv, ReadsInv, TypeOK, Traversal, Loop
<1>5. CASE n_proc_in_q = 0
  <2>1. sector_buffers' = sector_buffers /\ n_proc_in_q' = n_proc_in_q
    BY <1>1, <1>5
  <2>2. PipeQueue' = PipeQueue /\ TraversalReads' = TraversalReads
    BY <1>1, <2>1 DEF PipeQueue, TraversalReads
  <2>3. PipeMap' = PipeMap
    BY <1>3, <2>2 DEF PipeMap
  <2> QED BY <1>1, <1>2, <1>3, <1>5, <2>1, <2>2, <2>3 DEF Ring!Process, Ring!embedding
<1>6. CASE n_proc_in_q > 0
  <2> DEFINE b == Ring!Buffer(Head(PipeQueue))
             T == TraversalReads
             L == Len(frontier)
             f == Ring!Erase(b)
  <2>1. /\ sector_buffers' = Tail(sector_buffers) /\ n_proc_in_q' = n_proc_in_q - 1
    BY <1>1, <1>6
  <2>2. /\ sector_buffers \in Seq(Nat) /\ k \in Nat /\ k > 0 /\ L \in Nat
        /\ PipeQueue \in Seq(Int) /\ Len(PipeQueue) = k
        /\ \A i \in 1..k : sector_buffers[i] \in Nat /\ PipeQueue[i] = sector_buffers[i] - 1
        /\ ToSet(sector_buffers) = {sector_buffers[i] : i \in 1..k}
    BY <1>4, <1>6, QueueFacts DEF Inv, TypeOK
  <2>3. /\ h = sector_buffers[1] /\ Head(PipeQueue) = h - 1 /\ h \in Nat
    BY <2>2
  <2>4. /\ Len(sector_buffers') = k - 1 /\ DOMAIN sector_buffers' = 1..(k - 1)
        /\ \A i \in 1..(k - 1) : sector_buffers'[i] = sector_buffers[i + 1]
    BY <2>1, <2>2
  <2>5. PipeQueue' = Tail(PipeQueue)
    <3>1. PipeQueue' = [i \in 1..(k - 1) |-> sector_buffers[i + 1] - 1]
      BY <2>4 DEF PipeQueue
    <3>2. Tail(PipeQueue) = [i \in 1..(k - 1) |-> PipeQueue[i + 1]]
      <4>1. PipeQueue \in Seq(Int) /\ Len(PipeQueue) = k /\ k > 0
        BY <2>2
      <4> HIDE DEF k
      <4> QED BY ONLY <4>1, TailIs
    <3>3. \A i \in 1..(k - 1) : i + 1 \in 1..k
      BY <2>2
    <3> HIDE DEF k
    <3> QED BY <2>2, <3>1, <3>2, <3>3
  <2>6. b \in DOMAIN PipeMap /\ PipeMap[b] = h - 1 /\ b = (h - 1) % MaxReads
    <3>1. PipePc \in Ring!Traversal
      BY <1>2 DEF Ring!Traversal
    <3>2. b \in DOMAIN PipeMap /\ PipeMap[b] = Head(PipeQueue)
      BY <1>6, <3>1, RingAssumption, Ring!HeadRecorded
    <3> QED BY <2>3, <3>2 DEF Ring!Buffer
  <2>7. h - 1 # Ring!NoNode
    <3>1. 1 \in 1..k
      BY <2>2
    <3>2. h \in 1..L
      BY <1>1, <2>3, <3>1 DEF Inv, ReadsInv, Traversal, Loop
    <3> QED BY <3>2, <2>2 DEF Ring!NoNode
  <2>8. /\ T = flying \cup ToSet(sector_buffers) /\ flying \cap ToSet(sector_buffers) = {}
        /\ \A i, j \in 1..k : sector_buffers[i] = sector_buffers[j] => i = j
        /\ T \subseteq 1..L
        /\ \A s, t \in T : (s - 1) % MaxReads = (t - 1) % MaxReads => s = t
    BY <1>1, RingFacts DEF Traversal, Loop
  <2>9. TraversalReads' = T \ {h} /\ h \in T
    <3>1. ToSet(sector_buffers') = {sector_buffers[i + 1] : i \in 1..(k - 1)}
      BY <2>4 DEF ToSet
    <3>2. TraversalReads' = flying \cup ToSet(sector_buffers')
      BY <1>1 DEF TraversalReads
    <3>3. /\ \A i \in 1..(k - 1) : i + 1 \in 1..k /\ i + 1 # 1
          /\ \A i \in 1..k : i # 1 => i - 1 \in 1..(k - 1) /\ (i - 1) + 1 = i
          /\ 1 \in 1..k
      BY <2>2
    <3> HIDE DEF k
    <3>4. ToSet(sector_buffers') = ToSet(sector_buffers) \ {h}
      <4>1. ASSUME NEW x \in ToSet(sector_buffers'), x \notin ToSet(sector_buffers) \ {h}
            PROVE  FALSE
        <5>1. PICK i \in 1..(k - 1) : x = sector_buffers[i + 1]
          BY <3>1, <4>1
        <5>2. i + 1 \in 1..k /\ i + 1 # 1
          BY <3>3
        <5>3. x \in ToSet(sector_buffers) /\ x # h
          BY <5>1, <5>2, <2>2, <2>3, <2>8, <3>3
        <5> QED BY <4>1, <5>3
      <4>2. ASSUME NEW x \in ToSet(sector_buffers), x # h
            PROVE  x \in ToSet(sector_buffers')
        <5>1. PICK i \in 1..k : x = sector_buffers[i]
          BY <2>2
        <5>2. i # 1
          BY <4>2, <5>1, <2>3
        <5>3. i - 1 \in 1..(k - 1) /\ (i - 1) + 1 = i
          BY <3>3, <5>2
        <5> QED BY <3>1, <5>1, <5>3
      <4> QED BY <4>1, <4>2
    <3>5. h \in ToSet(sector_buffers)
      BY <2>2, <2>3, <3>3
    <3> QED BY <2>8, <3>2, <3>4, <3>5
  <2>10. /\ DOMAIN PipeMap = {(t - 1) % MaxReads : t \in T}
         /\ \A t \in T : PipeMap[(t - 1) % MaxReads] = t - 1
    BY <1>1, MapEntries DEF Traversal, Loop
  <2>11. f = [c \in DOMAIN PipeMap \ {b} |-> PipeMap[c]]
    BY DEF Ring!Erase
  <2> HIDE DEF f, b, h, k, T, L
  <2>12. /\ f = [c \in DOMAIN f |-> f[c]]
         /\ DOMAIN f = {(t - 1) % MaxReads : t \in T \ {h}}
         /\ \A t \in T \ {h} : f[(t - 1) % MaxReads] = t - 1
    <3>1. DOMAIN f = DOMAIN PipeMap \ {b} /\ \A c \in DOMAIN f : f[c] = PipeMap[c]
      BY <2>11
    <3>2. \A t \in T : (t - 1) % MaxReads = b <=> t = h
      BY <2>6, <2>8, <2>9
    <3>3. DOMAIN f = {(t - 1) % MaxReads : t \in T \ {h}}
      BY <2>10, <3>1, <3>2
    <3>4. \A t \in T \ {h} : f[(t - 1) % MaxReads] = t - 1
      BY <2>10, <3>1, <3>3
    <3>5. f = [c \in DOMAIN f |-> f[c]]
      BY <2>11
    <3> QED BY <3>3, <3>4, <3>5
  <2>13. MapOf(T \ {h}, L) = f
    <3>1. T \ {h} \subseteq 1..L /\ L \in Nat
      BY <2>2, <2>8
    <3>2. \A s, t \in T \ {h} : (s - 1) % MaxReads = (t - 1) % MaxReads => s = t
      BY <2>8
    <3> QED BY ONLY <3>1, <3>2, <2>12, MapIs
  <2>14. PipeMap' = f
    BY <1>3, <2>9, <2>13 DEF PipeMap, T, L
  <2> QED BY <1>1, <1>2, <1>3, <1>6, <2>1, <2>5, <2>6, <2>7, <2>14 DEF Ring!Process,
             Ring!embedding, f, b
<1> QED BY <1>4, <1>5, <1>6

\* Collecting moves reads from the flight to the queue; the map has them already.
LEMMA CollectStep ==
  ASSUME RingFits, Inv, Ring!IInv, NEW n \in 0..n_io_in_q, Collect(n)
  PROVE  Ring!Collect(n)
<1> DEFINE k == Len(sector_buffers)
           T == TraversalReads
<1>1. /\ pc = "collect" /\ pc' = "dispatch" /\ n <= n_io_in_q
      /\ n_io_in_q > 0 /\ n_proc_in_q = 0 => n >= 1
      /\ n_io_in_q' = n_io_in_q - n /\ n_proc_in_q' = n_proc_in_q + n
      /\ UNCHANGED <<frontier, n_cached_in_q, embedding_search_L, l_idx, n_ops, selected>>
  BY DEF Collect, cached, refine
<1>2. PICK finished \in SUBSET flying :
        /\ Cardinality(finished) = n
        /\ \E s \in SetToSeqs(finished) :
             sector_buffers' = sector_buffers \o s /\ flying' = flying \ finished
  BY DEF Collect, kSubset
<1>3. PICK s \in SetToSeqs(finished) :
        sector_buffers' = sector_buffers \o s /\ flying' = flying \ finished
  BY <1>2
<1>4. IsFiniteSet(finished) /\ finished \subseteq Nat /\ n \in Nat
  <2>0. TypeOK
    BY DEF Inv
  <2>1. IsFiniteSet(flying) /\ flying \subseteq 1..Len(frontier) /\ Len(frontier) \in Nat
        /\ n_io_in_q \in Nat
    BY <2>0, TypeFacts DEF TypeOK
  <2>3. flying \subseteq Nat
    BY ONLY <2>1
  <2>2. IsFiniteSet(finished)
    BY <2>1, FS_Subset
  <2> QED BY <2>1, <2>3, <2>2
<1>5. /\ s \in Seq(Nat) /\ Len(s) = n /\ finished = {s[i] : i \in 1..n}
      /\ \A i \in 1..n : s[i] \in flying /\ s[i] \in Nat
      /\ \A i, j \in 1..n : s[i] = s[j] => i = j
  <2>1. s \in Seq(finished) /\ Len(s) = n /\ finished = {s[i] : i \in 1..n}
    <3>1. IsFiniteSet(finished) /\ s \in SetToSeqs(finished)
      BY <1>4
    <3>2. /\ s \in Seq(finished) /\ Len(s) = Cardinality(finished)
          /\ finished = {s[i] : i \in 1..Len(s)}
      BY ONLY <3>1, CompletionOrder
    <3> QED BY <1>2, <3>2
  <2>2. \A i, j \in 1..n : i # j => s[i] # s[j]
    BY <1>2 DEF SetToSeqs
  <2>3. s \in [1..n -> Nat]
    BY <2>1, <1>4
  <2> QED BY <1>4, <2>1, <2>2, <2>3
<1>6. /\ sector_buffers \in Seq(Nat) /\ k \in Nat
      /\ PipeQueue \in Seq(Int) /\ Len(PipeQueue) = k
      /\ \A i \in 1..k : sector_buffers[i] \in Nat /\ PipeQueue[i] = sector_buffers[i] - 1
  BY QueueFacts DEF Inv, TypeOK
<1> DEFINE a == [i \in 1..n |-> s[i] - 1]
<1>7. a \in Ring!Arrivals(n)
  <2>1. a \in [1..n -> PipeFlying]
    BY <1>5 DEF PipeFlying
  <2>2. \A i, j \in 1..n : a[i] = a[j] => i = j
    <3> SUFFICES ASSUME NEW i \in 1..n, NEW j \in 1..n, s[i] - 1 = s[j] - 1 PROVE i = j
      OBVIOUS
    <3>1. s[i] \in Nat /\ s[j] \in Nat
      BY <1>5
    <3>2. s[i] = s[j]
      BY <3>1
    <3> QED BY <1>5, <3>2
  <2> QED BY <2>1, <2>2 DEF Ring!Arrivals
<1>8. Ring!ReadsOf(a) = {t - 1 : t \in finished}
  <2>1. Len(a) = n
    BY <1>4
  <2> QED BY <1>5, <2>1 DEF Ring!ReadsOf
<1>9. PipeFlying' = PipeFlying \ Ring!ReadsOf(a)
  <2>1. PipeFlying' = {t - 1 : t \in flying \ finished}
    BY <1>3 DEF PipeFlying
  <2>2. \A t, r \in flying : t - 1 = r - 1 => t = r
    BY DEF Inv, TypeOK
  <2> QED BY <1>8, <2>1, <2>2 DEF PipeFlying
<1>10. PipeQueue' = PipeQueue \o a
  <2> DEFINE both == sector_buffers \o s
  <2>1. /\ Len(both) = k + n /\ DOMAIN both = 1..(k + n)
        /\ \A i \in 1..(k + n) : both[i] = IF i <= k THEN sector_buffers[i] ELSE s[i - k]
    <3>1. sector_buffers \in Seq(Nat) /\ s \in Seq(Nat)
      BY <1>5, <1>6
    <3>2. /\ both \in Seq(Nat) /\ Len(both) = k + Len(s)
          /\ \A i \in 1..(k + Len(s)) :
               both[i] = IF i <= k THEN sector_buffers[i] ELSE s[i - k]
      BY ONLY <3>1, ConcatProperties
    <3>3. DOMAIN both = 1..Len(both)
      BY ONLY <3>2, LenProperties
    <3> QED BY <1>5, <3>2, <3>3
  <2>2. a \in Seq(Int) /\ Len(a) = n
    BY <1>4, <1>5
  <2>3. /\ PipeQueue \o a \in Seq(Int) /\ Len(PipeQueue \o a) = k + n
        /\ \A i \in 1..(k + n) : (PipeQueue \o a)[i] = IF i <= k THEN PipeQueue[i] ELSE a[i - k]
    <3> HIDE DEF a, k
    <3>1. /\ PipeQueue \in Seq(Int) /\ Len(PipeQueue) = k
          /\ a \in Seq(Int) /\ Len(a) = n
      BY ONLY <1>6, <2>2
    <3>2. /\ PipeQueue \o a \in Seq(Int) /\ Len(PipeQueue \o a) = Len(PipeQueue) + Len(a)
          /\ \A i \in 1..(Len(PipeQueue) + Len(a)) :
               (PipeQueue \o a)[i] = IF i <= Len(PipeQueue) THEN PipeQueue[i]
                                     ELSE a[i - Len(PipeQueue)]
      BY ONLY <3>1, ConcatProperties
    <3> QED BY ONLY <3>1, <3>2
  <2>4. PipeQueue' = [i \in 1..(k + n) |-> both[i] - 1]
    BY <1>3, <2>1 DEF PipeQueue
  <2>5. \A i \in 1..(k + n) : both[i] - 1 = (PipeQueue \o a)[i]
    <3> SUFFICES ASSUME NEW i \in 1..(k + n) PROVE both[i] - 1 = (PipeQueue \o a)[i]
      OBVIOUS
    <3>1. CASE i <= k
      <4>1. i \in 1..k
        BY <3>1, <1>4, <1>6
      <4> QED BY <3>1, <4>1, <1>6, <2>1, <2>3
    <3>2. CASE ~(i <= k)
      <4>1. i - k \in 1..n
        BY <3>2, <1>4, <1>6
      <4>2. a[i - k] = s[i - k] - 1
        BY <4>1
      <4> HIDE DEF a, k, both
      <4> QED BY <3>2, <4>2, <2>1, <2>3
    <3> QED BY <3>1, <3>2
  <2> DEFINE qa == PipeQueue \o a
  <2>6. qa = [i \in 1..(k + n) |-> qa[i]]
    <3>1. qa \in Seq(Int) /\ Len(qa) = k + n
      BY <2>3
    <3> HIDE DEF qa, k
    <3> QED BY <3>1, LenProperties
  <2>7. \A i \in 1..(k + n) : both[i] - 1 = qa[i]
    BY <2>5
  <2> HIDE DEF both, k
  <2>8. PipeQueue' = qa
    <3> HIDE DEF qa
    <3> QED BY <2>4, <2>6, <2>7
  <2> QED BY <2>8
<1>11. TraversalReads' = T
  <2>1. ToSet(sector_buffers') = ToSet(sector_buffers) \cup ToSet(s)
    <3>1. s \in Seq(Nat) /\ sector_buffers \in Seq(Nat)
      BY <1>5, <1>6
    <3>2. ToSet(sector_buffers \o s) = ToSet(sector_buffers) \cup ToSet(s)
      BY ONLY <3>1, Joined
    <3> QED BY <1>3, <3>2
  <2>2. ToSet(s) = finished
    <3>1. DOMAIN s = 1..n
      BY <1>5, LenProperties
    <3> QED BY <1>5, <3>1 DEF ToSet
  <2> QED BY <1>1, <1>3, <2>1, <2>2 DEF TraversalReads
<1>12. PipeMap' = PipeMap
  BY <1>1, <1>11 DEF PipeMap
<1>13. PipeMap = Ring!TouchAll(Ring!ReadsOf(a))
  <2> DEFINE M == PipeMap
  <2>1. DOMAIN M = {(t - 1) % MaxReads : t \in T}
    BY <1>1, MapEntries DEF Traversal, Loop
  <2>2. finished \subseteq T
    BY <1>1 DEF TraversalReads
  <2>3. {Ring!Buffer(t) : t \in Ring!ReadsOf(a)} \subseteq DOMAIN M
    BY <1>8, <2>1, <2>2 DEF Ring!Buffer
  <2>4. M = [b \in DOMAIN M |-> M[b]]
    BY DEF PipeMap, MapOf
  <2>5. DOMAIN M \cup {Ring!Buffer(t) : t \in Ring!ReadsOf(a)} = DOMAIN M
    BY <2>3
  <2>6. Ring!TouchAll(Ring!ReadsOf(a)) =
          [b \in DOMAIN M |-> IF b \in DOMAIN M THEN M[b] ELSE Ring!NoNode]
    BY Zenon, <2>5 DEF Ring!TouchAll
  <2> HIDE DEF M
  <2> QED BY <2>4, <2>6 DEF M
<1>14. PipePc = "collect" /\ PipePc' = "dispatch" /\ PipeQuery' = PipeQuery
       /\ Len(frontier') = Len(frontier)
  BY <1>1 DEF PipePc, PipeQuery, Refined
<1> HIDE DEF a, k, T
<1>15. \E x \in Ring!Arrivals(n) :
         /\ PipeQueue' = PipeQueue \o x
         /\ PipeFlying' = PipeFlying \ Ring!ReadsOf(x)
         /\ PipeMap' = Ring!TouchAll(Ring!ReadsOf(x))
  BY <1>7, <1>9, <1>10, <1>12, <1>13
<1> QED BY <1>1, <1>14, <1>15 DEF Ring!Collect, Ring!embedding

\* A round's reads find their sector buffers free, and go on the map.
LEMMA DispatchMap ==
  ASSUME RingFits, Inv, Ring!IInv, pc = "dispatch", RoundOpen, NEW r \in 0..BeamWidth
  PROVE  LET L == Len(frontier)
         IN  MapOf(ToSet(sector_buffers) \cup (L + 1)..(L + r), L + r)
               = Ring!InsertNew(L..(L + r - 1))
<1> DEFINE k == Len(sector_buffers)
           L == Len(frontier)
           T == ToSet(sector_buffers)
           new == (L + 1)..(L + r)
           issue == L..(L + r - 1)
           f == Ring!InsertNew(issue)
<1>1. /\ n_io_in_q = 0 /\ n_proc_in_q < BeamWidth \div 2 + 1 /\ flying = {} /\ k = n_proc_in_q
      /\ k \in Nat /\ L \in Nat /\ r \in Nat /\ r <= BeamWidth
  <2>1. n_io_in_q = Cardinality(flying) /\ n_proc_in_q = k /\ IsFiniteSet(flying)
    BY TypeFacts DEF Inv, ReadsInv, Traversal, Loop
  <2>2. flying = {}
    BY <2>1, FS_EmptySet DEF RoundOpen
  <2> QED BY <2>1, <2>2, TypeFacts, ConstantFacts DEF RoundOpen, Inv
<1>2. /\ BeamWidth \in Nat \ {0} /\ BeamWidth \div 2 + 1 \in Nat /\ MaxReads \in Nat \ {0}
      /\ 2 * BeamWidth + (BeamWidth \div 2 + 1) - 2 <= MaxReads /\ BeamWidth <= MaxReads
  BY ConstantFacts, RingAssumption DEF Ring!PipelineAssumption, RingFits
<1>3. /\ TraversalReads = T
      /\ \A i \in 1..k : sector_buffers[i] \in Nat
      /\ T = {sector_buffers[i] : i \in 1..k}
      /\ T \subseteq 1..L
      /\ \A i \in 1..k : L - (sector_buffers[i] - 1) <= BeamWidth + (k - i) + n_io_in_q
  <2>1. pc \in Loop
    BY DEF Traversal, Loop
  <2> QED BY <1>1, <2>1, RingFacts, QueueFacts DEF Inv
<1>4. \A t \in T \cup new : t \in 1..(L + r) /\ (L + r) - (t - 1) <= MaxReads
  <2>1. ASSUME NEW t \in T PROVE t \in 1..(L + r) /\ (L + r) - (t - 1) <= MaxReads
    <3>1. PICK i \in 1..k : t = sector_buffers[i]
      BY <1>3
    <3>2. L - (t - 1) <= BeamWidth + (k - i) + n_io_in_q /\ t \in 1..L
      BY <1>3, <3>1
    <3> DEFINE half == BeamWidth \div 2 + 1
    <3>3. k < half /\ half \in Nat /\ 2 * BeamWidth + half - 2 <= MaxReads
      BY <1>1, <1>2
    <3> HIDE DEF half, k, L
    <3> QED BY <1>1, <1>2, <3>2, <3>3
  <2>2. ASSUME NEW t \in new PROVE t \in 1..(L + r) /\ (L + r) - (t - 1) <= MaxReads
    BY <1>1, <1>2
  <2> QED BY <2>1, <2>2
<1>5. ASSUME NEW s \in T \cup new, NEW t \in T \cup new,
             (s - 1) % MaxReads = (t - 1) % MaxReads
      PROVE  s = t
  <2> DEFINE x == s - 1
             y == t - 1
             next == L + r
  <2>1. /\ next \in Nat /\ x \in 0..(next - 1) /\ y \in 0..(next - 1)
        /\ next - x <= MaxReads /\ next - y <= MaxReads
    <3>1. /\ s \in 1..(L + r) /\ (L + r) - (s - 1) <= MaxReads
          /\ t \in 1..(L + r) /\ (L + r) - (t - 1) <= MaxReads
      BY <1>4
    <3>2. L + r \in Nat
      BY <1>1
    <3> HIDE DEF L
    <3> QED BY ONLY <3>1, <3>2
  <2>2. Ring!Buffer(x) = Ring!Buffer(y)
    BY <1>5 DEF Ring!Buffer
  <2> HIDE DEF x, y, next
  <2>3. x = y
    BY <2>1, <2>2, RingAssumption, Ring!WindowExclusive
  <2>4. s \in Nat /\ t \in Nat
    BY <1>4
  <2> QED BY <2>3, <2>4 DEF x, y
<1>6. /\ DOMAIN PipeMap = {(t - 1) % MaxReads : t \in T}
      /\ \A t \in T : PipeMap[(t - 1) % MaxReads] = t - 1
  <2>1. pc \in Loop
    BY DEF Traversal, Loop
  <2> QED BY <1>3, <2>1, MapEntries
<1>7. f = [b \in DOMAIN PipeMap \cup {t % MaxReads : t \in issue} |->
             IF b \in DOMAIN PipeMap THEN PipeMap[b]
             ELSE CHOOSE t \in issue : t % MaxReads = b]
  BY Zenon DEF Ring!InsertNew, Ring!Buffer
<1>8. /\ \A t \in new : t - 1 \in issue /\ t \in Nat
      /\ \A u \in issue : u + 1 \in new /\ (u + 1) - 1 = u
  BY <1>1
<1> HIDE DEF f, issue, new, T, k, L
<1>9. {t % MaxReads : t \in issue} = {(t - 1) % MaxReads : t \in new}
  BY <1>8
<1>10. /\ DOMAIN f = {(t - 1) % MaxReads : t \in T \cup new}
       /\ f = [b \in DOMAIN f |-> f[b]]
  <2>1. DOMAIN f = DOMAIN PipeMap \cup {t % MaxReads : t \in issue}
    BY <1>7
  <2>2. DOMAIN f = {(t - 1) % MaxReads : t \in T \cup new}
    <3>1. {(t - 1) % MaxReads : t \in T \cup new}
            = {(t - 1) % MaxReads : t \in T} \cup {(t - 1) % MaxReads : t \in new}
      OBVIOUS
    <3> QED BY <1>6, <1>9, <2>1, <3>1
  <2>3. f = [b \in DOMAIN f |-> f[b]]
    BY <1>7
  <2> QED BY <2>2, <2>3
<1>11. ASSUME NEW t \in T PROVE f[(t - 1) % MaxReads] = t - 1
  <2>1. (t - 1) % MaxReads \in DOMAIN PipeMap
    BY <1>6
  <2>2. f[(t - 1) % MaxReads] = PipeMap[(t - 1) % MaxReads]
    BY <1>7, <2>1
  <2> QED BY <1>6, <2>2
<1>12. ASSUME NEW t \in new, t \notin T PROVE f[(t - 1) % MaxReads] = t - 1
  <2> DEFINE b == (t - 1) % MaxReads
  <2>1. b \notin DOMAIN PipeMap
    BY <1>5, <1>6, <1>12
  <2>2. b \in {u % MaxReads : u \in issue}
    BY <1>9
  <2>3. f[b] = CHOOSE u \in issue : u % MaxReads = b
    BY <1>7, <2>1, <2>2
  <2> DEFINE P(u) == u \in issue /\ u % MaxReads = b
  <2>4. P(t - 1)
    BY <1>8
  <2>5. ASSUME NEW u, P(u) PROVE u = t - 1
    <3>1. u + 1 \in new /\ (u + 1) - 1 = u
      BY <1>8, <2>5
    <3>2. ((u + 1) - 1) % MaxReads = (t - 1) % MaxReads
      BY <2>5, <3>1
    <3>3. u + 1 = t
      BY <1>5, <3>1, <3>2
    <3> QED BY <3>1, <3>3
  <2> HIDE DEF P
  <2>6. (CHOOSE u : P(u)) = t - 1
    BY <2>4, <2>5
  <2> QED BY Zenon, <2>3, <2>6 DEF P
<1>13. \A t \in T \cup new : f[(t - 1) % MaxReads] = t - 1
  BY <1>11, <1>12
<1>14. L + r \in Nat /\ T \cup new \subseteq 1..(L + r)
  BY <1>1, <1>4
<1>15. \A s, t \in T \cup new : (s - 1) % MaxReads = (t - 1) % MaxReads => s = t
  BY <1>5
<1>16. MapOf(T \cup new, L + r) = f
  BY ONLY <1>10, <1>13, <1>14, <1>15, MapIs
<1> QED BY <1>16 DEF f, issue, new, T, L

\* A round of the search is a round of the pipeline.
LEMMA DispatchStep ==
  ASSUME RingFits, Inv, Inv', Counted, Ring!IInv, Dispatch
  PROVE  \E r \in 0..BeamWidth, c \in 0..(BeamWidth + (BeamWidth - 1)) : Ring!Dispatch(r, c)
<1> DEFINE r == Len(Round.reads)
           c == Len(Round.cached)
           L == Len(frontier)
<1>1. /\ pc = "dispatch" /\ RoundOpen /\ flying = {} /\ n_io_in_q = 0 /\ n_cached_in_q = 0
      /\ frontier' = frontier \o Round.reads
      /\ flying' = (L + 1)..(L + r)
      /\ n_io_in_q' = r /\ n_cached_in_q' = c
      /\ pc' = IF LoopEnds(Round) THEN "refine" ELSE "process"
      /\ UNCHANGED <<sector_buffers, n_proc_in_q, embedding_search_L, l_idx, n_ops>>
  BY DispatchParts DEF RoundOpen, refine
<1>2. /\ r <= BeamWidth /\ r + c <= BeamWidth + (BeamWidth - 1)
      /\ selected' = selected + r + c /\ selected' <= Cardinality(Nodes)
  <2>1. /\ Counted' /\ r <= BeamWidth /\ r + c <= BeamWidth + (BeamWidth - 1)
        /\ selected' = selected + r + c
    BY DispatchCounted
  <2>2. Chosen' \subseteq Nodes
    BY DEF Chosen, Inv, TypeOK
  <2>3. /\ Cardinality(Chosen') \in Nat /\ Cardinality(Nodes) \in Nat
        /\ Cardinality(Chosen') <= Cardinality(Nodes)
    BY <2>2, FS_Subset, FS_CardinalityType, ConstantFacts
  <2>4. selected' \in Nat /\ selected' <= Cardinality(Chosen')
    BY <2>1 DEF Counted
  <2>5. selected' <= Cardinality(Nodes)
    BY <2>3, <2>4
  <2> QED BY <2>1, <2>5
<1>3. /\ Round.reads \in Seq(Nodes) /\ frontier \in Seq(Nodes)
      /\ Round.cached \in Seq([id : Nodes, ptr : Pointers])
  BY RoundFacts DEF SelectState, Inv, TypeOK
<1>4. /\ r \in Nat /\ c \in Nat /\ L \in Nat /\ BeamWidth \in Nat
      /\ selected \in Nat /\ L <= selected /\ Cardinality(Nodes) \in Nat
  <2>1. r \in Nat /\ c \in Nat
    BY <1>3, LenProperties
  <2>2. L <= selected /\ selected \in Nat
    BY <1>1, RingFacts DEF Traversal, Loop
  <2> QED BY <2>1, <2>2, TypeFacts, ConstantFacts, FS_CardinalityType DEF Inv
<1>5. Len(frontier') = L + r
  <2>1. Len(frontier \o Round.reads) = Len(frontier) + Len(Round.reads)
    BY ONLY <1>3, Joined
  <2> QED BY <1>1, <2>1
<1> HIDE DEF r, c, L
<1>6. r \in 0..BeamWidth /\ c \in 0..(BeamWidth + (BeamWidth - 1))
      /\ r + c <= BeamWidth + (BeamWidth - 1)
  BY <1>2, <1>4
<1>7. selected' = selected + r + c /\ selected + r + c <= Cardinality(Nodes)
  BY <1>2, <1>4
<1>8. PipeFlying' = PipeFlying \cup L..(L + r - 1)
  <2>1. PipeFlying' = {t - 1 : t \in (L + 1)..(L + r)} /\ PipeFlying = {}
    BY <1>1 DEF PipeFlying
  <2>2. \A u \in L..(L + r - 1) : u + 1 \in (L + 1)..(L + r) /\ (u + 1) - 1 = u
    BY <1>4
  <2>3. \A t \in (L + 1)..(L + r) : t - 1 \in L..(L + r - 1)
    BY <1>4
  <2> QED BY <2>1, <2>2, <2>3
<1>9. PipeQueue' = PipeQueue
  BY <1>1 DEF PipeQueue
<1>10. TraversalReads' = ToSet(sector_buffers) \cup (L + 1)..(L + r)
  <2>1. pc' # "drain" /\ flying' = (L + 1)..(L + r) /\ sector_buffers' = sector_buffers
    BY <1>1
  <2> QED BY <2>1 DEF TraversalReads
<1>11. PipeMap' = Ring!InsertNew(L..(L + r - 1))
  <2>1. PipeMap' = MapOf(ToSet(sector_buffers) \cup (L + 1)..(L + r), L + r)
    BY <1>5, <1>10 DEF PipeMap
  <2> QED BY <1>1, <1>6, <2>1, DispatchMap DEF L
<1>12. Ring!LoopEntry(L + r - 0) = "process"
  <2>1. L + r - 0 \in Nat /\ L + r - 0 <= Cardinality(Nodes)
    BY <1>4, <1>7
  <2> QED BY <2>1, LoopGoesOn
<1>13. LoopEnds(Round) <=> Ring!LoopEnds(r, c)
  BY DEF LoopEnds, Ring!LoopEnds, r, c
<1>14. PipePc = "dispatch" /\ PipeQuery' = PipeQuery
       /\ PipePc' = IF Ring!LoopEnds(r, c) THEN "refine" ELSE Ring!LoopEntry(L + r - 0)
  <2>1. PipePc = "dispatch" /\ PipeQuery' = PipeQuery /\ PipePc' = pc'
    BY <1>1 DEF PipePc, PipeQuery, Refined
  <2> QED BY <1>1, <1>12, <1>13, <2>1
<1>15. Ring!RoundOpen
  BY <1>1, SameRounds DEF Inv
<1>16. n_io_in_q' = n_io_in_q + r /\ n_cached_in_q' = n_cached_in_q + c
  BY <1>1, <1>4
<1>17. Ring!Dispatch(r, c)
  BY <1>1, <1>5, <1>6, <1>7, <1>8, <1>9, <1>11, <1>14, <1>15, <1>16
     DEF Ring!Dispatch, Ring!embedding, L
<1> QED BY <1>6, <1>17

\* A batch of the refinement is one of the pipeline; the map stays empty.
LEMMA SubmitStep ==
  ASSUME RingFits, Inv, Ring!IInv, SubmitEmbeddings
  PROVE  \E r \in 0..MaxReads : Ring!SubmitEmbeddings(r)
<1> DEFINE r == Len(Batch.reads)
           L == Len(frontier)
<1>1. /\ pc = "embed" /\ pc' = "drain" /\ l_idx < embedding_search_L
      /\ frontier' = frontier \o Batch.reads
      /\ flying' = flying \cup (L + 1)..(L + r)
      /\ n_ops' = r
      /\ l_idx' = l_idx + BatchSize
      /\ UNCHANGED <<sector_buffers, n_io_in_q, n_proc_in_q, n_cached_in_q,
                     embedding_search_L, selected>>
  BY Zenon DEF SubmitEmbeddings, Batch, cached
<1>2. BatchSize \in Nat /\ Batch \in BatchState /\ r <= BatchSize
  BY <1>1, BatchFacts DEF BatchAt
<1>3. BatchSize <= MaxReads /\ BatchSize = Ring!BatchSize
  <2>1. l_idx \in Nat /\ embedding_search_L \in Nat /\ MaxReads \in Nat
    BY ConstantFacts DEF Inv, TypeOK
  <2> QED BY <2>1 DEF BatchSize, Ring!BatchSize
<1>4. Batch.reads \in Seq(Nodes) /\ frontier \in Seq(Nodes)
  BY <1>2 DEF BatchState, Inv, TypeOK
<1>5. r \in Nat /\ L \in Nat /\ MaxReads \in Nat
  BY <1>4, LenProperties, ConstantFacts
<1>6. Len(frontier') = L + r
  <2>1. Len(frontier \o Batch.reads) = Len(frontier) + Len(Batch.reads)
    BY ONLY <1>4, Joined
  <2> QED BY <1>1, <2>1
<1> HIDE DEF r, L
<1>7. r \in 0..MaxReads
  BY <1>2, <1>3, <1>5
<1>8. PipeFlying' = PipeFlying \cup L..(L + r - 1)
  <2>1. PipeFlying' = {t - 1 : t \in flying \cup (L + 1)..(L + r)}
    BY <1>1 DEF PipeFlying
  <2>2. \A u \in L..(L + r - 1) : u + 1 \in (L + 1)..(L + r) /\ (u + 1) - 1 = u
    BY <1>5
  <2>3. \A t \in (L + 1)..(L + r) : t - 1 \in L..(L + r - 1)
    BY <1>5
  <2>4. {t - 1 : t \in (L + 1)..(L + r)} = L..(L + r - 1)
    BY <2>2, <2>3
  <2>5. {t - 1 : t \in flying \cup (L + 1)..(L + r)}
          = {t - 1 : t \in flying} \cup {t - 1 : t \in (L + 1)..(L + r)}
    OBVIOUS
  <2> QED BY <2>1, <2>4, <2>5 DEF PipeFlying
<1>9. PipeQueue' = PipeQueue
  BY <1>1 DEF PipeQueue
<1>10. TraversalReads = {} /\ TraversalReads' = {}
  BY <1>1, RingFacts DEF Traversal, Loop, TraversalReads
<1>11. PipeMap' = PipeMap
  BY <1>10, QuietMap DEF Inv
<1>12. PipePc = "embed" /\ PipePc' = "drain" /\ PipeQuery' = PipeQuery
  BY <1>1 DEF PipePc, PipeQuery, Refined
<1>13. Ring!SubmitEmbeddings(r)
  BY <1>1, <1>2, <1>3, <1>6, <1>8, <1>9, <1>11, <1>12
     DEF Ring!SubmitEmbeddings, Ring!counters, L
<1> QED BY <1>7, <1>13

\* The pipeline's module counts as this one does.
LEMMA RingCardinality ==
  ASSUME NEW S
  PROVE  Ring!Cardinality(S) = Cardinality(S)
BY DEF Ring!Cardinality, Cardinality

\* The refinement's reads complete.
LEMMA DrainStep ==
  ASSUME RingFits, Inv, Ring!IInv, NEW finished \in SUBSET flying, DrainEmbeddings(finished)
  PROVE  \E done \in SUBSET PipeFlying : Ring!DrainEmbeddings(done)
<1> DEFINE done == {t - 1 : t \in finished}
<1>1. /\ pc = "drain" /\ pc' = "drain"
      /\ Cardinality(finished) \in 1..n_ops
      /\ flying' = flying \ finished /\ n_ops' = n_ops - Cardinality(finished)
      /\ UNCHANGED <<frontier, sector_buffers, n_io_in_q, n_proc_in_q, n_cached_in_q,
                     embedding_search_L, l_idx, selected>>
  BY Zenon DEF DrainEmbeddings, cached
<1>2. flying \subseteq Nat /\ IsFiniteSet(flying)
  BY TypeFacts DEF Inv, TypeOK
<1>3. finished \subseteq Nat /\ IsFiniteSet(finished)
  BY <1>2, FS_Subset
<1>4. Cardinality(done) = Cardinality(finished)
  BY <1>3, SameNumber
<1>5. PipeFlying' = PipeFlying \ done /\ done \in SUBSET PipeFlying
  <2>1. PipeFlying' = {t - 1 : t \in flying \ finished}
    BY <1>1 DEF PipeFlying
  <2>2. \A t, u \in flying : t - 1 = u - 1 => t = u
    <3> SUFFICES ASSUME NEW t \in flying, NEW u \in flying, t - 1 = u - 1 PROVE t = u
      OBVIOUS
    <3>1. t \in Nat /\ u \in Nat
      BY <1>2
    <3> QED BY <3>1
  <2> QED BY <2>1, <2>2 DEF PipeFlying
<1>6. PipeQueue' = PipeQueue
  BY <1>1 DEF PipeQueue
<1>7. TraversalReads = {} /\ TraversalReads' = {}
  BY <1>1 DEF TraversalReads
<1>8. PipeMap' = PipeMap
  BY <1>7, QuietMap DEF Inv
<1>9. PipePc = "drain" /\ PipePc' = "drain" /\ PipeQuery' = PipeQuery
      /\ Len(frontier') = Len(frontier)
  BY <1>1 DEF PipePc, PipeQuery, Refined
<1> HIDE DEF done
<1>10. Ring!DrainEmbeddings(done)
  BY <1>1, <1>4, <1>5, RingCardinality, <1>6, <1>8, <1>9 DEF Ring!DrainEmbeddings,
     Ring!counters
<1> QED BY <1>5, <1>10

\* Every step of the search is one of the pipeline, or none of its business.
LEMMA RingNext ==
  ASSUME RingFits, Inv, Inv', Counted, Ring!IInv, [Next]_vars
  PROVE  [Ring!Next]_(Ring!vars)
<1>1. CASE \E list \in StartLists : StartQuery(list)
  BY <1>1, StartQueryStep DEF Ring!Next
<1>2. CASE Process
  BY <1>2, ProcessStep DEF Ring!Next
<1>3. CASE \E n \in 0..n_io_in_q : Collect(n)
  BY <1>3, CollectStep DEF Ring!Next
<1>4. CASE Dispatch
  BY <1>4, DispatchStep DEF Ring!Next
<1>5. CASE SkipDispatch
  BY <1>5, SkipDispatchStep DEF Ring!Next
<1>6. CASE BeginRefine
  BY <1>6, BeginRefineStep DEF Ring!Next
<1>7. CASE SubmitEmbeddings
  BY <1>7, SubmitStep DEF Ring!Next
<1>8. CASE \E finished \in SUBSET flying : DrainEmbeddings(finished)
  BY <1>8, DrainStep DEF Ring!Next
<1>9. CASE EndBatch
  BY <1>9, EndBatchStep DEF Ring!Next
<1>10. CASE EndQuery
  BY <1>10, EndQueryStep DEF Ring!Next
<1>11. CASE UNCHANGED vars
  <2>1. /\ pc' = pc
        /\ UNCHANGED <<frontier, flying, sector_buffers, n_io_in_q, n_proc_in_q, n_cached_in_q,
                       embedding_search_L, l_idx, n_ops, selected>>
    BY <1>11 DEF vars, ring, cached, refine
  <2>2. PipePc' = PipePc /\ PipeQuery' = PipeQuery
    BY <2>1 DEF PipePc, PipeQuery
  <2>3. PipeFlying' = PipeFlying /\ PipeQueue' = PipeQueue /\ TraversalReads' = TraversalReads
    BY <2>1 DEF PipeFlying, PipeQueue, TraversalReads
  <2>4. PipeMap' = PipeMap
    BY <2>1, <2>3 DEF PipeMap
  <2> QED BY <2>1, <2>2, <2>3, <2>4 DEF Ring!vars, Ring!ring, Ring!counters, Ring!embedding
<1> QED BY Zenon, <1>1, <1>2, <1>3, <1>4, <1>5, <1>6, <1>7, <1>8, <1>9, <1>10, <1>11
        DEF Next, Stopped

\* A query and the pipeline start with nothing read.
LEMMA RingBegins ==
  ASSUME RingFits, Init
  PROVE  Counted /\ Ring!Init
<1>1. /\ pc = "start" /\ frontier = <<>> /\ flying = {} /\ sector_buffers = <<>>
      /\ n_io_in_q = 0 /\ n_proc_in_q = 0 /\ n_cached_in_q = 0
      /\ embedding_search_L = 0 /\ l_idx = 0 /\ n_ops = 0 /\ selected = 0
  BY DEF Init
<1>2. Counted
  <2>1. Cardinality(Chosen) \in Nat
    BY InitInv, ChosenFinite DEF Inv
  <2> QED BY <1>1, <2>1 DEF Counted
<1>3. PipePc = "start" /\ PipeQuery = 0 /\ PipeFlying = {} /\ PipeQueue = <<>>
      /\ Len(frontier) = 0
  BY <1>1 DEF PipePc, PipeQuery, PipeFlying, PipeQueue, Refined
<1>4. PipeMap = Ring!NoEntries
  <2>1. TraversalReads = {}
    BY <1>1 DEF TraversalReads, ToSet
  <2> QED BY <2>1, EmptyMap DEF PipeMap
<1> QED BY <1>1, <1>2, <1>3, <1>4 DEF Ring!Init

\* The pipeline of DupGraphSearch and of its proofs are the same.
LEMMA SamePipeline ==
  /\ Ring!Init => Pipeline!Init
  /\ [Ring!Next]_(Ring!vars) => [Pipeline!Next]_(Pipeline!vars)
<1> USE DEF PipePc, PipeQuery, PipeFlying, PipeQueue, PipeMap, MapOf
<1>1. Ring!Init => Pipeline!Init
  BY DEF Ring!Init, Pipeline!Init, Ring!NoEntries, Pipeline!NoEntries, Ring!NoNode,
     Pipeline!NoNode
<1>2. Ring!vars = Pipeline!vars
  BY DEF Ring!vars, Ring!ring, Ring!counters, Ring!embedding,
         Pipeline!vars, Pipeline!ring, Pipeline!counters, Pipeline!embedding
<1>3. Ring!StartQuery => Pipeline!StartQuery
  BY DEF Ring!StartQuery, Pipeline!StartQuery, Ring!NoEntries, Pipeline!NoEntries,
     Ring!LoopEntry, Pipeline!LoopEntry, Ring!NoNode, Pipeline!NoNode
<1>4. Ring!Process => Pipeline!Process
  BY DEF Ring!Process, Pipeline!Process, Ring!Buffer, Pipeline!Buffer, Ring!Erase,
     Pipeline!Erase, Ring!NoNode, Pipeline!NoNode, Ring!embedding, Pipeline!embedding
<1>5. ASSUME NEW n, Ring!Collect(n) PROVE Pipeline!Collect(n)
  BY <1>5 DEF Ring!Collect, Pipeline!Collect, Ring!Arrivals, Pipeline!Arrivals,
     Ring!ReadsOf, Pipeline!ReadsOf, Ring!TouchAll, Pipeline!TouchAll, Ring!Buffer,
     Pipeline!Buffer, Ring!NoNode, Pipeline!NoNode, Ring!embedding, Pipeline!embedding
<1>6. ASSUME NEW r, NEW c, Ring!Dispatch(r, c) PROVE Pipeline!Dispatch(r, c)
  BY <1>6 DEF Ring!Dispatch, Pipeline!Dispatch, Ring!RoundOpen, Pipeline!RoundOpen,
     Ring!InsertNew, Pipeline!InsertNew, Ring!Buffer, Pipeline!Buffer, Ring!LoopEnds,
     Pipeline!LoopEnds, Ring!LoopEntry, Pipeline!LoopEntry, Ring!embedding,
     Pipeline!embedding
<1>7. Ring!SkipDispatch => Pipeline!SkipDispatch
  BY DEF Ring!SkipDispatch, Pipeline!SkipDispatch, Ring!RoundOpen, Pipeline!RoundOpen,
     Ring!LoopEntry, Pipeline!LoopEntry, Ring!ring, Pipeline!ring, Ring!counters,
     Pipeline!counters, Ring!embedding, Pipeline!embedding
<1>8. Ring!BeginRefine => Pipeline!BeginRefine
  BY DEF Ring!BeginRefine, Pipeline!BeginRefine, Ring!ring, Pipeline!ring, Ring!counters,
     Pipeline!counters
<1>9. ASSUME NEW r, Ring!SubmitEmbeddings(r) PROVE Pipeline!SubmitEmbeddings(r)
  BY <1>9 DEF Ring!SubmitEmbeddings, Pipeline!SubmitEmbeddings, Ring!BatchSize,
     Pipeline!BatchSize, Ring!counters, Pipeline!counters
<1>10. ASSUME NEW done, Ring!DrainEmbeddings(done) PROVE Pipeline!DrainEmbeddings(done)
  <2>1. Ring!Cardinality(done) = Pipeline!Cardinality(done)
    BY DEF Ring!Cardinality, Pipeline!Cardinality
  <2> QED BY <1>10, <2>1 DEF Ring!DrainEmbeddings, Pipeline!DrainEmbeddings,
             Ring!counters, Pipeline!counters
<1>11. Ring!EndBatch => Pipeline!EndBatch
  BY DEF Ring!EndBatch, Pipeline!EndBatch, Ring!ring, Pipeline!ring, Ring!counters,
     Pipeline!counters, Ring!embedding, Pipeline!embedding
<1>12. Ring!EndQuery => Pipeline!EndQuery
  BY DEF Ring!EndQuery, Pipeline!EndQuery, Ring!ring, Pipeline!ring, Ring!counters,
     Pipeline!counters, Ring!embedding, Pipeline!embedding
<1>13. Ring!Stopped => Pipeline!Stopped
  <2>1. (Ring!vars)' = (Pipeline!vars)'
    BY DEF Ring!vars, Ring!ring, Ring!counters, Ring!embedding,
           Pipeline!vars, Pipeline!ring, Pipeline!counters, Pipeline!embedding
  <2>2. UNCHANGED Ring!vars => UNCHANGED Pipeline!vars
    BY Zenon, <1>2, <2>1
  <2> QED BY Zenon, <2>2 DEF Ring!Stopped, Pipeline!Stopped
<1>14. Ring!Next => Pipeline!Next
  BY Zenon, <1>3, <1>4, <1>5, <1>6, <1>7, <1>8, <1>9, <1>10, <1>11, <1>12, <1>13
     DEF Ring!Next, Pipeline!Next
<1>15. [Ring!Next]_(Ring!vars) => [Pipeline!Next]_(Pipeline!vars)
  <2>1. (Ring!vars)' = (Pipeline!vars)'
    BY DEF Ring!vars, Ring!ring, Ring!counters, Ring!embedding,
           Pipeline!vars, Pipeline!ring, Pipeline!counters, Pipeline!embedding
  <2> QED BY Zenon, <1>2, <1>14, <2>1
<1> QED BY <1>1, <1>15

\* What every step preserves: the search's invariant, how many candidates were
\* selected, and the pipeline's invariant of the search's reads.
PipeInv == Inv /\ Counted /\ Ring!IInv

\* It is inductive, and makes every step one of the pipeline.
LEMMA PipeInvHolds ==
  ASSUME RingFits
  PROVE  /\ Init => PipeInv
         /\ PipeInv /\ [Next]_vars => PipeInv' /\ [Ring!Next]_(Ring!vars)
<1>1. Init => PipeInv
  BY InitInv, RingBegins, RingInit DEF PipeInv
<1>2. ASSUME PipeInv, [Next]_vars PROVE PipeInv' /\ [Ring!Next]_(Ring!vars)
  <2> USE DEF PipeInv
  <2>1. Inv'
    BY <1>2, NextInv
  <2>2. Counted'
    BY <1>2, <2>1, NextCounted
  <2>3. [Ring!Next]_(Ring!vars)
    BY <1>2, <2>1, RingNext
  <2>4. Ring!IInv'
    BY <1>2, <2>3, RingStep
  <2> QED BY <2>1, <2>2, <2>3, <2>4
<1> QED BY <1>1, <1>2

\* ImplementsPipeline: when the ring has room for the beam, a query issues,
\* collects and parses its reads as the pipeline does, whatever the graph, the
\* distances and the order of completions; which candidates a round selects and
\* how many a batch has to read are among the choices the pipeline leaves open.
THEOREM SearchImplementsPipeline ==
  ASSUME RingFits
  PROVE  Spec => ImplementsPipeline
<1>1. Init => PipeInv /\ Pipeline!Init
  BY PipeInvHolds, RingBegins, SamePipeline
<1>2. PipeInv /\ [Next]_vars => PipeInv' /\ [Pipeline!Next]_(Pipeline!vars)
  BY PipeInvHolds, SamePipeline
<1> QED BY <1>1, <1>2, PTL DEF Spec, ImplementsPipeline, Pipeline!Spec

\* What is proved of the pipeline holds of the search: no sector buffer is handed
\* to the kernel while a page in it is owed to the query, a page is parsed under
\* the node it was read for, the loop's counters are exact, the refinement and
\* the next query find the ring quiet, and the queue of reads and that of nodes
\* that need none stay within their places.
RingSafe ==
  /\ Ring!BuffersExclusive /\ Ring!RightNode /\ Ring!CountersExact
  /\ Ring!QuietHandover /\ Ring!QueuesFit

\* RingSafe holds throughout every query of page_search_dup_graph, with its real
\* choice of candidates, when the ring has room for the beam.
THEOREM SearchKeepsRingSafe ==
  ASSUME RingFits
  PROVE  Spec => []RingSafe
<1>1. Init => PipeInv
  BY PipeInvHolds
<1>2. PipeInv /\ [Next]_vars => PipeInv'
  BY PipeInvHolds
<1>3. ASSUME PipeInv PROVE RingSafe
  <2>1. Ring!IInv
    BY <1>3 DEF PipeInv
  <2>2. Ring!BuffersExclusive
    BY <2>1, RingAssumption, Ring!Exclusive
  <2>3. Ring!RightNode
    BY <2>1, RingAssumption, Ring!HeadRecorded DEF Ring!RightNode, Ring!Traversal
  <2>4. Ring!CountersExact /\ Ring!QuietHandover
    BY <2>1 DEF Ring!IInv, Ring!QuietHandover, Ring!Owed, Ring!InQueue, Ring!Traversal
  <2>5. Ring!CachedQueueHoldsRound
    BY ConstantFacts DEF RingFits, Ring!CachedQueueHoldsRound
  <2>6. Ring!QueuesFit
    BY <2>1, <2>5, RingAssumption, Ring!QueuesBounded
  <2> QED BY <2>2, <2>3, <2>4, <2>6 DEF RingSafe
<1>4. PipeInv => RingSafe
  BY <1>3
<1> QED BY <1>1, <1>2, <1>4, PTL DEF Spec
=============================================================================
