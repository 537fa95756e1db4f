-------------------------- MODULE PageSearchProofs --------------------------
(***************************************************************************)
(* Proofs about PageSearch for every graph, layout, pair of caches, list   *)
(* size, beam, filter and order of completions, whatever the distances     *)
(* are: the list keeps the nearest that were seen; without a filter that   *)
(* matters the traversal ends at a fixed point and every candidate of the  *)
(* refinement is evaluated; the answer is the nearest of what was          *)
(* evaluated; and when the ring has room for the beam, the search          *)
(* implements ReadPipeline, so that its ring is safe.                      *)
(***************************************************************************)
EXTENDS PageSearch, CandidateListProofs

LEMMA ConstantFacts ==
  /\ LSearch \in Nat \ {0} /\ BeamWidth \in Nat \ {0}
  /\ EmbDen \in Nat \ {0} /\ MaxReads \in Nat \ {0}
  /\ Nodes \subseteq Nat /\ 0 \in Nodes
  /\ \A n \in Nodes : Nbrs[n] \in Seq(Nodes)
BY SearchAssumption DEF SearchAssumption
-----------------------------------------------------------------------------
(* The states of a search between two of its steps.                        *)

SearchState ==
  [retset : ListOver(Nodes, pq), visited : SUBSET Nodes, full_retset : [Nodes -> Nat],
   vis_cand : Seq(Nodes), exact_id : Nodes \cup {NoNode}]

\* The list is neither empty nor too long, and keeps the nearest.
Good(s) ==
  /\ s \in SearchState
  /\ Len(s.retset) \in 1..LSearch
  /\ KeepsBest(s.retset, s.visited, pq)

\* A candidate was in the list before, or had not been seen.
OldOrUnseen(s, t) ==
  \A i \in 1..Len(t.retset) :
    t.retset[i].id \notin s.visited \/ \E j \in 1..Len(s.retset) : t.retset[i] = s.retset[j]

\* What is seen or evaluated stays so, and a candidate that is not to be selected
\* was in the list before or belongs to the page.
Later(s, t) ==
  /\ OldOrUnseen(s, t)
  /\ s.visited \subseteq t.visited
  /\ \A n \in Nodes : s.full_retset[n] <= t.full_retset[n]
  /\ \A i \in 1..Len(t.retset) :
       \/ t.retset[i].flag
       \/ t.retset[i].id \in ToSet(t.vis_cand)
       \/ \E j \in 1..Len(s.retset) : t.retset[i] = s.retset[j]

\* Nothing but the list and the nodes seen differs.
SameParse(s, t) ==
  t.full_retset = s.full_retset /\ t.vis_cand = s.vis_cand /\ t.exact_id = s.exact_id

LEMMA LaterReflexive ==
  ASSUME NEW s \in SearchState
  PROVE  Later(s, s)
<1>1. s.full_retset \in [Nodes -> Nat]
  BY DEF SearchState
<1>2. \A n \in Nodes : s.full_retset[n] \in Nat
  BY <1>1
<1> QED BY <1>2 DEF Later, OldOrUnseen

LEMMA LaterTransitive ==
  ASSUME NEW r \in SearchState, NEW s \in SearchState, NEW t \in SearchState,
         Later(r, s), Later(s, t), ToSet(s.vis_cand) \subseteq ToSet(t.vis_cand)
  PROVE  Later(r, t)
<1>1. \A n \in Nodes : /\ r.full_retset[n] \in Nat /\ s.full_retset[n] \in Nat
                       /\ t.full_retset[n] \in Nat
  BY DEF SearchState
<1>2. \A n \in Nodes : r.full_retset[n] <= t.full_retset[n]
  BY <1>1 DEF Later
<1>3. r.visited \subseteq t.visited
  BY DEF Later
<1>4. ASSUME NEW i \in 1..Len(t.retset)
      PROVE  \/ t.retset[i].flag
             \/ t.retset[i].id \in ToSet(t.vis_cand)
             \/ \E j \in 1..Len(r.retset) : t.retset[i] = r.retset[j]
  BY DEF Later
<1>5. OldOrUnseen(r, t)
  BY DEF Later, OldOrUnseen
<1> QED BY <1>2, <1>3, <1>4, <1>5 DEF Later

\* Offering a node.
LEMMA OfferKeeps ==
  ASSUME pq \in [Nodes -> Int], NEW s, Good(s), NEW m \in Nodes
  PROVE  /\ Good(OfferNbr(s, m)) /\ Later(s, OfferNbr(s, m)) /\ SameParse(s, OfferNbr(s, m))
         /\ m \in OfferNbr(s, m).visited
<1>1. s \in SearchState /\ Len(s.retset) \in 1..LSearch /\ KeepsBest(s.retset, s.visited, pq)
  BY DEF Good
<1>2. CASE m \in s.visited
  <2>1. OfferNbr(s, m) = s
    BY <1>2 DEF OfferNbr, Offered
  <2> QED BY <2>1, <1>1, <1>2, LaterReflexive DEF SameParse
<1>3. CASE m \notin s.visited
  <2> DEFINE c == Candidate(pq, m, TRUE)
             list == add_to_retset(s.retset, c)
             t == OfferNbr(s, m)
  <2>1. /\ s.retset \in ListOver(Nodes, pq) /\ s.visited \subseteq Nodes
        /\ s.full_retset \in [Nodes -> Nat] /\ s.vis_cand \in Seq(Nodes)
        /\ s.exact_id \in Nodes \cup {NoNode}
    BY <1>1 DEF SearchState
  <2>2. t = [s EXCEPT !.visited = @ \cup {m}, !.retset = add_to_retset(@, c)]
    BY Zenon, <1>3 DEF OfferNbr, Offered
  <2>3. t = [retset |-> list, visited |-> s.visited \cup {m}, full_retset |-> s.full_retset,
             vis_cand |-> s.vis_cand, exact_id |-> s.exact_id]
    <3> HIDE DEF c
    <3> QED BY <2>2, <1>1 DEF SearchState
  <2>4. /\ c \in [id : Nodes, distance : Int, flag : BOOLEAN]
        /\ c.distance = pq[c.id] /\ c.id = m /\ c.flag
    BY DEF Candidate
  <2>5. Sorted(s.retset)
    BY <1>1 DEF KeepsBest, Sorted
  <2>6. LSearch \in Nat \ {0}
    BY ConstantFacts
  <2> HIDE DEF c, list
  <2>7. /\ list \in ListOver(Nodes, pq) /\ Len(list) \in 1..LSearch
        /\ \A i \in 1..Len(list) : list[i] = c \/ \E j \in 1..Len(s.retset) : list[i] = s.retset[j]
    BY <1>1, <2>1, <2>4, <2>5, <2>6, AddKeepsList DEF list
  <2>8. KeepsBest(list, s.visited \cup {m}, pq)
    BY <1>1, <1>3, <2>1, <2>4, <2>6, AddKeepsBest DEF list
  <2>9. /\ t.retset = list /\ t.visited = s.visited \cup {m} /\ t.full_retset = s.full_retset
        /\ t.vis_cand = s.vis_cand /\ t.exact_id = s.exact_id
    BY <2>3
  <2>10. t \in SearchState
    BY <2>1, <2>3, <2>7 DEF SearchState
  <2> HIDE DEF t
  <2>11. Good(t)
    BY <2>7, <2>8, <2>9, <2>10 DEF Good
  <2>12. \A n \in Nodes : s.full_retset[n] <= t.full_retset[n]
    BY <2>1, <2>9
  <2>13. Later(s, t)
    BY <1>3, <2>4, <2>7, <2>9, <2>12 DEF Later, OldOrUnseen
  <2>14. m \in t.visited /\ SameParse(s, t)
    BY <2>9 DEF SameParse
  <2> QED BY <2>11, <2>13, <2>14 DEF t
<1> QED BY <1>2, <1>3

\* What CandidateListProofs knows of the loop over the neighbours of a node.
OfferFold == INSTANCE CandidateListProofs WITH Op <- OfferNbr

\* Expanding a node offers all its neighbours.
LEMMA ExpandKeeps ==
  ASSUME pq \in [Nodes -> Int], NEW s, Good(s), NEW n \in Nodes
  PROVE  /\ Good(Expand(s, n)) /\ Later(s, Expand(s, n)) /\ SameParse(s, Expand(s, n))
         /\ ToSet(Nbrs[n]) \subseteq Expand(s, n).visited
<1> DEFINE q == Nbrs[n]
           k == Len(q)
           S == [i \in 0..k |->
                  {t \in SearchState : /\ Good(t) /\ Later(s, t) /\ SameParse(s, t)
                                       /\ \A j \in 1..i : q[j] \in t.visited}]
<1>1. q \in Seq(Nodes) /\ k \in Nat /\ DOMAIN q = 1..k /\ \A i \in 1..k : q[i] \in Nodes
  BY ConstantFacts, LenProperties, ElementOfSeq
<1>2. s \in S[0]
  BY <1>1, LaterReflexive DEF Good, SameParse
<1>3. ASSUME NEW i \in 1..k, NEW t \in S[i - 1] PROVE OfferNbr(t, q[i]) \in S[i]
  <2> DEFINE u == OfferNbr(t, q[i])
  <2>1. i - 1 \in 0..k /\ i \in 0..k /\ q[i] \in Nodes
    BY <1>1
  <2>2. t \in SearchState /\ Good(t) /\ Later(s, t) /\ SameParse(s, t)
        /\ \A j \in 1..(i - 1) : q[j] \in t.visited
    BY <2>1
  <2>3. Good(u) /\ Later(t, u) /\ SameParse(t, u) /\ q[i] \in u.visited
    BY <2>1, <2>2, OfferKeeps
  <2> HIDE DEF u
  <2>4. u \in SearchState /\ s \in SearchState
    BY <2>3 DEF Good
  <2>5. Later(s, u)
    BY <2>2, <2>3, <2>4, LaterTransitive DEF SameParse
  <2>6. \A j \in 1..i : q[j] \in u.visited
    BY <2>2, <2>3 DEF Later
  <2> QED BY <2>1, <2>2, <2>3, <2>4, <2>5, <2>6 DEF SameParse, u
<1> HIDE DEF S, k, q
<1>4. OfferFold!FoldLeft(OfferNbr, s, q) \in S[k]
  BY <1>1, <1>2, <1>3, OfferFold!FoldKeeps
<1>5. Expand(s, n) = OfferFold!FoldLeft(OfferNbr, s, q)
  BY Zenon DEF Expand, q, FoldLeft, MapThenFoldSet, Max, OfferFold!FoldLeft,
               OfferFold!MapThenFoldSet, OfferFold!Max
<1>6. Expand(s, n) \in S[k]
  BY <1>4, <1>5
<1>7. ToSet(q) = {q[i] : i \in 1..k}
  BY <1>1 DEF ToSet
<1> QED BY <1>1, <1>6, <1>7 DEF S, q

\* The loop over the nodes of a page that are expanded.
ExpandFold == INSTANCE CandidateListProofs WITH Op <- Expand

\* Expanding one node after the other.
LEMMA ExpandAllKeeps ==
  ASSUME pq \in [Nodes -> Int], NEW s, Good(s), NEW q \in Seq(Nodes)
  PROVE  LET t == FoldLeft(Expand, s, q)
         IN  /\ Good(t) /\ Later(s, t) /\ SameParse(s, t)
             /\ \A n \in ToSet(q) : ToSet(Nbrs[n]) \subseteq t.visited
<1> DEFINE k == Len(q)
           S == [i \in 0..k |->
                  {t \in SearchState : /\ Good(t) /\ Later(s, t) /\ SameParse(s, t)
                                       /\ \A j \in 1..i : ToSet(Nbrs[q[j]]) \subseteq t.visited}]
<1>1. k \in Nat /\ DOMAIN q = 1..k /\ \A i \in 1..k : q[i] \in Nodes
  BY LenProperties, ElementOfSeq
<1>2. s \in S[0]
  BY <1>1, LaterReflexive DEF Good, SameParse
<1>3. ASSUME NEW i \in 1..k, NEW t \in S[i - 1] PROVE Expand(t, q[i]) \in S[i]
  <2> DEFINE u == Expand(t, q[i])
  <2>1. i - 1 \in 0..k /\ i \in 0..k /\ q[i] \in Nodes
    BY <1>1
  <2>2. t \in SearchState /\ Good(t) /\ Later(s, t) /\ SameParse(s, t)
        /\ \A j \in 1..(i - 1) : ToSet(Nbrs[q[j]]) \subseteq t.visited
    BY <2>1
  <2>3. Good(u) /\ Later(t, u) /\ SameParse(t, u) /\ ToSet(Nbrs[q[i]]) \subseteq u.visited
    BY <2>1, <2>2, ExpandKeeps
  <2> HIDE DEF u
  <2>4. u \in SearchState /\ s \in SearchState
    BY <2>3 DEF Good
  <2>5. Later(s, u)
    BY <2>2, <2>3, <2>4, LaterTransitive DEF SameParse
  <2>6. \A j \in 1..i : ToSet(Nbrs[q[j]]) \subseteq u.visited
    <3> SUFFICES ASSUME NEW j \in 1..i PROVE ToSet(Nbrs[q[j]]) \subseteq u.visited
      OBVIOUS
    <3>1. CASE j = i
      BY <3>1, <2>3
    <3>2. CASE j \in 1..(i - 1)
      <4>1. ToSet(Nbrs[q[j]]) \subseteq t.visited
        BY <3>2, <2>2
      <4> QED BY <4>1, <2>3 DEF Later
    <3> QED BY <3>1, <3>2
  <2> QED BY <2>1, <2>2, <2>3, <2>4, <2>5, <2>6 DEF SameParse, u
<1> HIDE DEF S, k
<1>4. ExpandFold!FoldLeft(Expand, s, q) \in S[k]
  BY <1>1, <1>2, <1>3, ExpandFold!FoldKeeps
<1>5. FoldLeft(Expand, s, q) = ExpandFold!FoldLeft(Expand, s, q)
  BY Zenon DEF FoldLeft, MapThenFoldSet, Max, ExpandFold!FoldLeft,
               ExpandFold!MapThenFoldSet, ExpandFold!Max
<1>6. FoldLeft(Expand, s, q) \in S[k]
  BY <1>4, <1>5
<1>7. ToSet(q) = {q[i] : i \in 1..k}
  BY <1>1 DEF ToSet
<1> DEFINE t == FoldLeft(Expand, s, q)
<1> HIDE DEF t
<1>8. t \in S[k]
  BY <1>6 DEF t
<1>9. /\ Good(t) /\ Later(s, t) /\ SameParse(s, t)
      /\ \A j \in 1..k : ToSet(Nbrs[q[j]]) \subseteq t.visited
  <2>1. k \in 0..k
    BY <1>1
  <2>2. S[k] = {u \in SearchState : /\ Good(u) /\ Later(s, u) /\ SameParse(s, u)
                                    /\ \A j \in 1..k : ToSet(Nbrs[q[j]]) \subseteq u.visited}
    BY ONLY <2>1 DEF S
  <2> QED BY ONLY <1>8, <2>2
<1>10. ASSUME NEW n \in ToSet(q) PROVE ToSet(Nbrs[n]) \subseteq t.visited
  BY <1>7, <1>9
<1> QED BY <1>9, <1>10 DEF t

\* Evaluating a node of the page; it is skipped only if the filter matters.
LEMMA EvaluateKeeps ==
  ASSUME pq \in [Nodes -> Int], NEW s, Good(s), NEW n \in Nodes
  PROVE  LET t == Evaluate(s, n)
         IN  /\ Good(t) /\ Later(s, t) /\ t.exact_id = s.exact_id
             /\ ToSet(s.vis_cand) \subseteq ToSet(t.vis_cand)
             /\ ~Filters => n \in ToSet(t.vis_cand) /\ t.full_retset[n] > 0
<1> DEFINE t == Evaluate(s, n)
<1>1. s \in SearchState /\ Len(s.retset) \in 1..LSearch /\ KeepsBest(s.retset, s.visited, pq)
  BY DEF Good
<1>2. /\ s.retset \in ListOver(Nodes, pq) /\ s.visited \subseteq Nodes
      /\ s.full_retset \in [Nodes -> Nat] /\ s.vis_cand \in Seq(Nodes)
      /\ s.exact_id \in Nodes \cup {NoNode}
  BY <1>1 DEF SearchState
<1>3. CASE Filtered(s, n)
  <2>1. t = s
    BY <1>3 DEF Evaluate
  <2>2. Filters
    <3> DEFINE l == Len(s.retset)
    <3>1. l \in 1..l /\ Last(s.retset) = s.retset[l]
      BY <1>1 DEF Last
    <3>2. s.retset[l].id \in Nodes
      BY <1>2, <3>1, EntryType
    <3>3. s.retset[l].distance = pq[s.retset[l].id]
      BY <1>2, <3>1 DEF ListOver
    <3> QED BY <1>3, <3>1, <3>2, <3>3 DEF Filters, Filtered
  <2> QED BY <2>1, <2>2, <1>1, LaterReflexive
<1>4. CASE ~Filtered(s, n)
  <2> DEFINE c == Candidate(pq, n, FALSE)
             list == IF n \in s.visited THEN s.retset ELSE add_to_retset(s.retset, c)
             full == [s.full_retset EXCEPT ![n] = @ + 1]
             cand == Append(s.vis_cand, n)
  <2>1. t = [s EXCEPT !.retset = IF n \in s.visited THEN @ ELSE add_to_retset(@, c),
                      !.visited = @ \cup {n},
                      !.full_retset[n] = @ + 1,
                      !.vis_cand = Append(@, n)]
    BY Zenon, <1>4 DEF Evaluate
  <2>2. t = [retset |-> list, visited |-> s.visited \cup {n}, full_retset |-> full,
             vis_cand |-> cand, exact_id |-> s.exact_id]
    <3> HIDE DEF c
    <3> QED BY <2>1, <1>1 DEF SearchState
  <2>3. full \in [Nodes -> Nat] /\ full[n] > 0 /\ \A m \in Nodes : s.full_retset[m] <= full[m]
    BY <1>2
  <2>4. /\ cand \in Seq(Nodes) /\ n \in ToSet(cand) /\ ToSet(s.vis_cand) \subseteq ToSet(cand)
    <3>1. /\ cand \in Seq(Nodes) /\ Len(cand) = Len(s.vis_cand) + 1 /\ Len(s.vis_cand) \in Nat
          /\ \A i \in 1..Len(s.vis_cand) : cand[i] = s.vis_cand[i]
          /\ cand[Len(s.vis_cand) + 1] = n
      BY <1>2, AppendProperties, LenProperties
    <3> HIDE DEF cand
    <3>2. ToSet(cand) = {cand[i] : i \in 1..Len(cand)}
          /\ ToSet(s.vis_cand) = {s.vis_cand[i] : i \in 1..Len(s.vis_cand)}
      BY <1>2, <3>1, LenProperties DEF ToSet
    <3> QED BY <3>1, <3>2
  <2>5. /\ c \in [id : Nodes, distance : Int, flag : BOOLEAN]
        /\ c.distance = pq[c.id] /\ c.id = n
    BY DEF Candidate
  <2>6. Sorted(s.retset)
    BY <1>1 DEF KeepsBest, Sorted
  <2>7. LSearch \in Nat \ {0}
    BY ConstantFacts
  <2> HIDE DEF c, full, cand, t
  <2>8. /\ list \in ListOver(Nodes, pq) /\ Len(list) \in 1..LSearch
        /\ \A i \in 1..Len(list) :
             \/ list[i] = c /\ n \notin s.visited
             \/ \E j \in 1..Len(s.retset) : list[i] = s.retset[j]
        /\ KeepsBest(list, s.visited \cup {n}, pq)
    <3>1. CASE n \in s.visited
      <4>1. list = s.retset /\ s.visited \cup {n} = s.visited
        BY <3>1
      <4> QED BY <4>1, <1>1, <1>2
    <3>2. CASE n \notin s.visited
      <4> DEFINE added == add_to_retset(s.retset, c)
      <4>1. list = added
        BY <3>2
      <4> HIDE DEF list, added
      <4>2. /\ added \in ListOver(Nodes, pq) /\ Len(added) \in 1..LSearch
            /\ \A i \in 1..Len(added) :
                 added[i] = c \/ \E j \in 1..Len(s.retset) : added[i] = s.retset[j]
        <5>1. /\ s.retset \in ListOver(Nodes, pq) /\ Len(s.retset) \in 1..LSearch
              /\ Sorted(s.retset) /\ LSearch \in Nat \ {0}
              /\ c \in [id : Nodes, distance : Int, flag : BOOLEAN] /\ c.distance = pq[c.id]
          BY <1>1, <1>2, <2>5, <2>6, <2>7
        <5> QED BY ONLY <5>1, AddKeepsList DEF added
      <4>3. KeepsBest(added, s.visited \cup {n}, pq)
        BY <1>1, <1>2, <3>2, <2>5, <2>7, AddKeepsBest DEF added
      <4> QED BY <3>2, <4>1, <4>2, <4>3
    <3> QED BY <3>1, <3>2
  <2> HIDE DEF list
  <2>9. /\ t.retset = list /\ t.visited = s.visited \cup {n} /\ t.full_retset = full
        /\ t.vis_cand = cand /\ t.exact_id = s.exact_id
    BY <2>2
  <2>10. t \in SearchState
    BY <1>2, <2>2, <2>3, <2>4, <2>8 DEF SearchState
  <2>11. Good(t)
    BY <2>8, <2>9, <2>10 DEF Good
  <2>12. Later(s, t)
    BY <2>3, <2>4, <2>5, <2>8, <2>9 DEF Later, OldOrUnseen
  <2> QED BY <2>3, <2>4, <2>9, <2>11, <2>12 DEF t
<1> QED BY <1>3, <1>4

\* The loop over the nodes of a page that are evaluated.
EvaluateFold == INSTANCE CandidateListProofs WITH Op <- Evaluate

\* Evaluating one node after the other.
LEMMA EvaluateAllKeeps ==
  ASSUME pq \in [Nodes -> Int], NEW s, Good(s), NEW q \in Seq(Nodes)
  PROVE  LET t == FoldLeft(Evaluate, s, q)
         IN  /\ Good(t) /\ Later(s, t)
             /\ ~Filters => \A n \in ToSet(q) : n \in ToSet(t.vis_cand) /\ t.full_retset[n] > 0
<1> DEFINE k == Len(q)
           Seen(n, t) == n \in ToSet(t.vis_cand) /\ t.full_retset[n] > 0
           S == [i \in 0..k |->
                  {t \in SearchState : /\ Good(t) /\ Later(s, t)
                                       /\ ToSet(s.vis_cand) \subseteq ToSet(t.vis_cand)
                                       /\ ~Filters => \A j \in 1..i : Seen(q[j], t)}]
<1>1. k \in Nat /\ DOMAIN q = 1..k /\ \A i \in 1..k : q[i] \in Nodes
  BY LenProperties, ElementOfSeq
<1>2. s \in S[0]
  BY <1>1, LaterReflexive DEF Good
<1>3. ASSUME NEW i \in 1..k, NEW t \in S[i - 1] PROVE Evaluate(t, q[i]) \in S[i]
  <2> DEFINE u == Evaluate(t, q[i])
  <2>1. i - 1 \in 0..k /\ i \in 0..k /\ q[i] \in Nodes
    BY <1>1
  <2>2. t \in SearchState /\ Good(t) /\ Later(s, t)
        /\ ToSet(s.vis_cand) \subseteq ToSet(t.vis_cand)
        /\ (~Filters => \A j \in 1..(i - 1) : Seen(q[j], t))
    BY <2>1
  <2>3. /\ Good(u) /\ Later(t, u) /\ ToSet(t.vis_cand) \subseteq ToSet(u.vis_cand)
        /\ ~Filters => Seen(q[i], u)
    BY <2>1, <2>2, EvaluateKeeps
  <2> HIDE DEF u
  <2>4. u \in SearchState /\ s \in SearchState
    BY <2>3 DEF Good
  <2>5. Later(s, u)
    BY <2>2, <2>3, <2>4, LaterTransitive
  <2>6. ASSUME ~Filters, NEW j \in 1..i PROVE Seen(q[j], u)
    <3>1. CASE j = i
      BY <3>1, <2>3, <2>6
    <3>2. CASE j \in 1..(i - 1)
      <4>1. q[j] \in Nodes
        BY <1>1, <3>2
      <4>2. t.full_retset[q[j]] \in Nat /\ u.full_retset[q[j]] \in Nat
        BY <4>1, <2>2, <2>4 DEF SearchState
      <4>3. t.full_retset[q[j]] <= u.full_retset[q[j]]
        BY <4>1, <2>3 DEF Later
      <4>4. Seen(q[j], t)
        BY <3>2, <2>2, <2>6
      <4> QED BY <4>2, <4>3, <4>4, <2>3
    <3> QED BY <3>1, <3>2
  <2> HIDE DEF Seen
  <2> QED BY <2>1, <2>2, <2>3, <2>4, <2>5, <2>6 DEF u
<1> HIDE DEF S, k
<1>4. EvaluateFold!FoldLeft(Evaluate, s, q) \in S[k]
  BY <1>1, <1>2, <1>3, EvaluateFold!FoldKeeps
<1>5. FoldLeft(Evaluate, s, q) = EvaluateFold!FoldLeft(Evaluate, s, q)
  BY Zenon DEF FoldLeft, MapThenFoldSet, Max, EvaluateFold!FoldLeft,
               EvaluateFold!MapThenFoldSet, EvaluateFold!Max
<1>6. ToSet(q) = {q[i] : i \in 1..k}
  BY <1>1 DEF ToSet
<1> DEFINE t == FoldLeft(Evaluate, s, q)
<1> HIDE DEF t
<1>7. t \in S[k]
  BY <1>4, <1>5 DEF t
<1>8. Good(t) /\ Later(s, t) /\ (~Filters => \A j \in 1..k : Seen(q[j], t))
  BY <1>1, <1>7 DEF S
<1> QED BY <1>6, <1>8 DEF t

LEMMA PageOfFacts ==
  ASSUME NEW n \in Nodes
  PROVE  /\ PageOf(n) \in Pages /\ n \in ToSet(Layout[PageOf(n)])
         /\ Layout[PageOf(n)] \in Seq(Nodes)
<1>1. \E p \in Pages : n \in ToSet(Layout[p])
  BY SearchAssumption DEF SearchAssumption
<1>2. PageOf(n) \in Pages /\ n \in ToSet(Layout[PageOf(n)])
  BY <1>1 DEF PageOf
<1> QED BY <1>2, SearchAssumption DEF SearchAssumption

\* The nodes of a page are on no other.
LEMMA PageNodes ==
  ASSUME NEW p \in Pages
  PROVE  ToSet(Layout[p]) \subseteq Nodes /\ \A n \in ToSet(Layout[p]) : PageOf(n) = p
<1>1. Layout[p] \in Seq(Nodes)
  BY SearchAssumption DEF SearchAssumption
<1>2. ToSet(Layout[p]) \subseteq Nodes
  <2>1. DOMAIN Layout[p] = 1..Len(Layout[p]) /\ \A i \in 1..Len(Layout[p]) : Layout[p][i] \in Nodes
    BY <1>1, LenProperties, ElementOfSeq
  <2> QED BY <2>1 DEF ToSet
<1>3. ASSUME NEW n \in ToSet(Layout[p]) PROVE PageOf(n) = p
  <2>1. n \in Nodes
    BY <1>2
  <2>2. PageOf(n) \in Pages /\ n \in ToSet(Layout[PageOf(n)])
    BY <2>1, PageOfFacts
  <2>3. PageOf(n) # p => ToSet(Layout[PageOf(n)]) \cap ToSet(Layout[p]) = {}
    BY <2>2, SearchAssumption DEF SearchAssumption
  <2> QED BY <2>2, <2>3, <1>3
<1> QED BY <1>2, <1>3

\* What parsing and expanding have made of the search state s by t: a candidate
\* that is not to be selected was in the list before or is expanded.
Parsed(s, t) ==
  /\ OldOrUnseen(s, t)
  /\ s.visited \subseteq t.visited
  /\ \A n \in Nodes : s.full_retset[n] <= t.full_retset[n]
  /\ \A i \in 1..Len(t.retset) :
       \/ t.retset[i].flag
       \/ ToSet(Nbrs[t.retset[i].id]) \subseteq t.visited
       \/ \E j \in 1..Len(s.retset) : t.retset[i] = s.retset[j]
  /\ \A n \in ToSet(t.vis_cand) : ToSet(Nbrs[n]) \subseteq t.visited

\* Parsing a page.
LEMMA ParsePageKeeps ==
  ASSUME pq \in [Nodes -> Int], Good(Now), NEW target \in Nodes
  PROVE  LET t == ParsePage(target)
         IN  /\ Good(t) /\ Parsed(Now, t)
             /\ ~Filters => \A n \in ToSet(Layout[PageOf(target)]) :
                  t.full_retset[n] > 0 /\ ToSet(Nbrs[n]) \subseteq t.visited
<1> DEFINE page == Layout[PageOf(target)]
           b == [Now EXCEPT !.exact_id = target]
           s == FoldLeft(Evaluate, b, page)
           t == FoldLeft(Expand, s, s.vis_cand)
<1>1. page \in Seq(Nodes)
  BY PageOfFacts
<1>2. /\ b.retset = retset /\ b.visited = visited /\ b.full_retset = full_retset
      /\ Good(b) /\ b.vis_cand = <<>>
  <2>1. b = [retset |-> retset, visited |-> visited, full_retset |-> full_retset,
             vis_cand |-> <<>>, exact_id |-> target]
    BY DEF Now
  <2>2. Now \in SearchState /\ Len(retset) \in 1..LSearch /\ KeepsBest(retset, visited, pq)
    BY DEF Good, Now
  <2>3. b \in SearchState
    BY <2>1, <2>2 DEF SearchState, Now
  <2> QED BY <2>1, <2>2, <2>3 DEF Good
<1> HIDE DEF page, b
<1>3. /\ Good(s) /\ Later(b, s)
      /\ ~Filters => \A n \in ToSet(page) : n \in ToSet(s.vis_cand) /\ s.full_retset[n] > 0
  BY <1>1, <1>2, EvaluateAllKeeps
<1> HIDE DEF s
<1>4. s.vis_cand \in Seq(Nodes)
  BY <1>3 DEF Good, SearchState
<1>5. /\ Good(t) /\ Later(s, t) /\ SameParse(s, t)
      /\ \A n \in ToSet(s.vis_cand) : ToSet(Nbrs[n]) \subseteq t.visited
  BY <1>3, <1>4, ExpandAllKeeps
<1>6. ParsePage(target) = t
  BY Zenon DEF ParsePage, t, s, b, page
<1> HIDE DEF t
<1>7. t.vis_cand = s.vis_cand /\ t.full_retset = s.full_retset
  BY <1>5 DEF SameParse
<1>8. Later(b, t)
  <2>1. b \in SearchState /\ s \in SearchState /\ t \in SearchState
    BY <1>2, <1>3, <1>5 DEF Good
  <2> QED BY <2>1, <1>3, <1>5, <1>7, LaterTransitive
<1>9. Parsed(Now, t)
  <2>1. Now.retset = retset /\ Now.visited = visited /\ Now.full_retset = full_retset
    BY DEF Now
  <2>2. ASSUME NEW i \in 1..Len(t.retset)
        PROVE  \/ t.retset[i].flag
               \/ ToSet(Nbrs[t.retset[i].id]) \subseteq t.visited
               \/ \E j \in 1..Len(retset) : t.retset[i] = retset[j]
    BY <1>2, <1>5, <1>7, <1>8 DEF Later
  <2>3. visited \subseteq t.visited /\ \A n \in Nodes : full_retset[n] <= t.full_retset[n]
    BY <1>2, <1>8 DEF Later
  <2>4. \A n \in ToSet(t.vis_cand) : ToSet(Nbrs[n]) \subseteq t.visited
    BY <1>5, <1>7
  <2>5. OldOrUnseen(Now, t)
    BY <2>1, <1>2, <1>8 DEF Later, OldOrUnseen
  <2> QED BY <2>1, <2>2, <2>3, <2>4, <2>5 DEF Parsed
<1>10. ~Filters => \A n \in ToSet(page) : t.full_retset[n] > 0 /\ ToSet(Nbrs[n]) \subseteq t.visited
  BY <1>3, <1>5, <1>7
<1> QED BY <1>5, <1>6, <1>9, <1>10 DEF page

\* Expanding the cached nodes after that.
LEMMA ExpandCachedKeeps ==
  ASSUME pq \in [Nodes -> Int], Good(Now), NEW s, Good(s), Parsed(Now, s), NEW q \in Seq(Nodes)
  PROVE  LET t == FoldLeft(Expand, s, q)
         IN  /\ Good(t) /\ Parsed(Now, t)
             /\ t.full_retset = s.full_retset /\ s.visited \subseteq t.visited
             /\ \A n \in ToSet(q) : ToSet(Nbrs[n]) \subseteq t.visited
<1> DEFINE t == FoldLeft(Expand, s, q)
<1>1. /\ Good(t) /\ Later(s, t) /\ SameParse(s, t)
      /\ \A n \in ToSet(q) : ToSet(Nbrs[n]) \subseteq t.visited
  BY ExpandAllKeeps
<1> HIDE DEF t
<1>2. t.vis_cand = s.vis_cand /\ t.full_retset = s.full_retset /\ s.visited \subseteq t.visited
  BY <1>1 DEF SameParse, Later
<1>3. ASSUME NEW i \in 1..Len(t.retset)
      PROVE  \/ t.retset[i].flag
             \/ ToSet(Nbrs[t.retset[i].id]) \subseteq t.visited
             \/ \E j \in 1..Len(Now.retset) : t.retset[i] = Now.retset[j]
  <2>1. \/ t.retset[i].flag
        \/ t.retset[i].id \in ToSet(s.vis_cand)
        \/ \E j \in 1..Len(s.retset) : t.retset[i] = s.retset[j]
    BY <1>1, <1>2 DEF Later
  <2>2. \A n \in ToSet(s.vis_cand) : ToSet(Nbrs[n]) \subseteq t.visited
    BY <1>2 DEF Parsed
  <2>3. \A j \in 1..Len(s.retset) :
          \/ s.retset[j].flag
          \/ ToSet(Nbrs[s.retset[j].id]) \subseteq t.visited
          \/ \E l \in 1..Len(Now.retset) : s.retset[j] = Now.retset[l]
    BY <1>2 DEF Parsed
  <2> QED BY <2>1, <2>2, <2>3
<1>4. Parsed(Now, t)
  <2>1. Now.visited \subseteq t.visited /\ \A n \in Nodes : Now.full_retset[n] <= t.full_retset[n]
    BY <1>2 DEF Parsed
  <2>2. \A n \in ToSet(t.vis_cand) : ToSet(Nbrs[n]) \subseteq t.visited
    BY <1>2 DEF Parsed
  <2>3. OldOrUnseen(Now, s) /\ OldOrUnseen(s, t) /\ Now.visited \subseteq s.visited
    BY <1>1 DEF Parsed, Later
  <2>4. OldOrUnseen(Now, t)
    BY <2>3 DEF OldOrUnseen
  <2> QED BY <2>1, <2>2, <2>4, <1>3 DEF Parsed
<1> QED BY <1>1, <1>2, <1>4 DEF t

-----------------------------------------------------------------------------
(* The invariant.                                                          *)

TypeOK ==
  /\ opt \in Programs /\ pq \in [Nodes -> Int] /\ exact \in [Nodes -> Int]
  /\ pc \in Traversal \cup Refined \cup {"start", "refine", "embed", "drain"}
  /\ retset \in ListOver(Nodes, pq) /\ visited \subseteq Nodes /\ page_visited \subseteq Pages
  /\ full_retset \in [Nodes -> Nat]
  /\ frontier \in Seq([id : Nodes \cup {NoNode}, pid : Pages])
  /\ flying \subseteq 1..Len(frontier)
  /\ sector_buffers \in Seq(Nat) /\ cached_node_id \in Seq(Nodes)
  /\ n_io_in_q \in Nat /\ n_proc_in_q \in Nat /\ n_cached_in_q \in Nat
  /\ embedding_search_L \in Nat /\ l_idx \in Nat /\ n_ops \in Nat
  /\ sorted \in [Nodes -> Nat] /\ previous \in Nodes \cup {NoNode} /\ indices \in Seq(Nodes)

\* The list is empty before the query starts, and never after.
ListInv ==
  /\ IF pc = "start" THEN retset = <<>> /\ visited = {} /\ page_visited = {}
     ELSE Len(retset) \in 1..LSearch
  /\ KeepsNearest

\* The counters count, every read is for its node's page, and nothing is left of
\* the traversal when it ends.
ReadsInv ==
  /\ pc \in Traversal \cup {"start"} =>
       /\ \A t \in 1..Len(frontier) :
            frontier[t].id \in Nodes /\ frontier[t].pid = PageOf(frontier[t].id)
       /\ \A i \in 1..Len(sector_buffers) : sector_buffers[i] \in 1..Len(frontier)
       /\ n_io_in_q = Cardinality(flying) /\ n_proc_in_q = Len(sector_buffers)
       /\ n_cached_in_q = Len(cached_node_id)
  /\ pc = "drain" => n_ops = Cardinality(flying)
  /\ pc \in {"start", "refine", "embed"} \cup Refined => flying = {}

\* A page was read, but has not been parsed yet.
Pending(p) ==
  \E t \in 1..Len(frontier) :
    /\ frontier[t].pid = p
    /\ t \in flying \/ \E i \in 1..Len(sector_buffers) : sector_buffers[i] = t

\* Every page that was read is still to be parsed or has all its nodes evaluated
\* and expanded; a candidate that is no longer to be selected is expanded, or
\* waits to be, from memory or with its page.
TraversalInv ==
  /\ pc \in Traversal /\ ~Filters =>
       /\ \A p \in page_visited :
            \/ Pending(p)
            \/ \A n \in ToSet(Layout[p]) : full_retset[n] > 0 /\ Expanded(n)
       /\ \A i \in 1..Len(retset) :
            \/ retset[i].flag \/ Expanded(retset[i].id)
            \/ retset[i].id \in ToSet(cached_node_id) \/ PageOf(retset[i].id) \in page_visited
  /\ TraversalClosed

\* Every page that was read is still to be looked at or has all its visited nodes
\* evaluated; a candidate that was looked at is evaluated, or on such a page.
RefineInv ==
  /\ pc \in {"refine", "embed", "drain"} /\ ~Filters =>
       \A p \in page_visited :
         \/ \E t \in flying : frontier[t].pid = p
         \/ \A n \in visited \cap ToSet(Layout[p]) : full_retset[n] > 0
  /\ pc \in {"embed", "drain"} =>
       \A i \in 1..Len(retset) : i <= l_idx =>
         full_retset[retset[i].id] > 0 \/ PageOf(retset[i].id) \in page_visited
  /\ CandidatesEvaluated

\* Entries leave the sorted results nearest first, and only for the answer.
AnswerInv ==
  /\ pc \notin Refined => indices = <<>> /\ previous = NoNode
  /\ pc \in Refined =>
       /\ \A n \in Nodes : /\ sorted[n] <= full_retset[n]
                           /\ sorted[n] < full_retset[n] =>
                                \E i \in 1..Len(indices) : indices[i] = n
       /\ \A i \in 1..Len(indices) :
            /\ full_retset[indices[i]] > 0
            /\ \A n \in Nodes : sorted[n] > 0 => exact[indices[i]] <= exact[n]
       /\ previous = IF indices = <<>> THEN NoNode ELSE indices[Len(indices)]
  /\ \A i, j \in 1..Len(indices) : i < j => exact[indices[i]] <= exact[indices[j]]
  /\ Distinct => IsInjective(indices)
  /\ Len(indices) <= opt.k_search
  /\ pc = "done" => Len(indices) = opt.k_search

Inv == TypeOK /\ ListInv /\ ReadsInv /\ TraversalInv /\ RefineInv /\ AnswerInv

\* Lengths are numbers and the reads in flight are finitely many.
LEMMA TypeFacts ==
  ASSUME TypeOK
  PROVE  /\ Len(retset) \in Nat /\ Len(frontier) \in Nat /\ Len(sector_buffers) \in Nat
         /\ Len(cached_node_id) \in Nat /\ Len(indices) \in Nat
         /\ IsFiniteSet(flying)
         /\ opt.k_search \in Nat /\ opt.k_search \in 1..LSearch /\ opt.emb \in Nat
<1>1. retset \in Seq([id : Nodes, distance : Int, flag : BOOLEAN])
  BY DEF TypeOK, ListOver
<1>2. /\ Len(retset) \in Nat /\ Len(frontier) \in Nat /\ Len(sector_buffers) \in Nat
      /\ Len(cached_node_id) \in Nat /\ Len(indices) \in Nat
  BY <1>1, LenProperties DEF TypeOK
<1>3. IsFiniteSet(1..Len(frontier)) /\ flying \in SUBSET (1..Len(frontier))
  BY <1>2, FS_Interval DEF TypeOK
<1>4. IsFiniteSet(flying)
  BY <1>3, FS_Subset
<1>5. opt \in Programs
  BY DEF TypeOK
<1>6. opt.k_search \in 1..LSearch /\ opt.emb \in 0..EmbDen
  BY <1>5, SearchAssumption DEF SearchAssumption
<1> QED BY <1>2, <1>4, <1>6

\* A query starts with nothing read, listed or answered.
LEMMA InitInv ==
  ASSUME Init
  PROVE  Inv
<1>1. opt \in Programs /\ pq \in [Nodes -> Int] /\ exact \in [Nodes -> Int]
      /\ opt.k_search \in 1..LSearch
  <2>1. opt \in Programs /\ pq \in opt.pq /\ exact \in ExactDists
    BY DEF Init
  <2> QED BY <2>1, SearchAssumption DEF SearchAssumption
<1>2. /\ retset = <<>> /\ cached_node_id = <<>> /\ sector_buffers = <<>> /\ frontier = <<>>
      /\ indices = <<>> /\ visited = {} /\ page_visited = {} /\ flying = {}
  BY DEF Init
<1>3. TypeOK
  <2>1. full_retset \in [Nodes -> Nat] /\ sorted \in [Nodes -> Nat]
    BY DEF Init, NoneEvaluated
  <2>2. retset \in ListOver(Nodes, pq)
    BY <1>2 DEF ListOver
  <2> QED BY <1>1, <1>2, <2>1, <2>2 DEF Init, TypeOK
<1>4. ListInv
  BY <1>2 DEF Init, ListInv, KeepsNearest, KeepsBest, Ids
<1>5. ReadsInv
  BY <1>2, FS_EmptySet DEF Init, ReadsInv, Refined
<1>6. TraversalInv /\ RefineInv
  BY DEF Init, TraversalInv, RefineInv, Traversal, Refined, TraversalClosed, CandidatesEvaluated
<1>7. AnswerInv
  BY <1>1, <1>2, ConstantFacts DEF Init, AnswerInv, Refined, IsInjective
<1> QED BY <1>3, <1>4, <1>5, <1>6, <1>7 DEF Inv

\* Until the results are copied out there is no answer.
LEMMA NoAnswerYet ==
  ASSUME Inv, pc \notin Refined, pc' \notin Refined, UNCHANGED <<indices, previous, opt>>
  PROVE  AnswerInv'
<1>1. indices' = <<>> /\ previous' = NoNode /\ opt \in Programs
  BY DEF Inv, AnswerInv, TypeOK
<1>2. opt'.k_search \in Nat
  BY <1>1, SearchAssumption DEF SearchAssumption
<1> QED BY <1>1, <1>2 DEF AnswerInv, Refined, IsInjective

\* Nothing of the list changes.
LEMMA ListUnchanged ==
  ASSUME Inv, pc # "start", pc' # "start", UNCHANGED <<retset, visited, pq>>
  PROVE  ListInv'
<1>1. Len(retset) \in 1..LSearch /\ KeepsBest(retset, visited, pq)
  BY DEF Inv, ListInv, KeepsNearest
<1> QED BY <1>1 DEF ListInv, KeepsNearest

\* A round is not started while reads or expansions wait.
LEMMA SkipDispatchKeeps ==
  ASSUME Inv, SkipDispatch
  PROVE  Inv'
<1> USE DEF SkipDispatch, query_vars, sets, ring, cached, refine, results
<1>1. pc = "dispatch" /\ pc' = "process"
  OBVIOUS
<1>2. TypeOK'
  BY DEF Inv, TypeOK, Traversal
<1>3. ListInv'
  BY <1>1, ListUnchanged
<1>4. ReadsInv'
  BY <1>1 DEF Inv, ReadsInv, Traversal, Refined
<1>5. TraversalInv'
  BY <1>1 DEF Inv, TraversalInv, Traversal, TraversalClosed, Filters, Pending, Expanded
<1>6. RefineInv'
  BY <1>1 DEF RefineInv, CandidatesEvaluated, Refined
<1>7. AnswerInv'
  BY <1>1, NoAnswerYet DEF Refined
<1> QED BY <1>2, <1>3, <1>4, <1>5, <1>6, <1>7 DEF Inv

\* The refinement starts with no candidate looked at.
LEMMA BeginRefineKeeps ==
  ASSUME Inv, BeginRefine
  PROVE  Inv'
<1> USE DEF query_vars, sets, ring, cached, results
<1>1. /\ pc = "refine" /\ pc' = "embed" /\ l_idx' = 0 /\ flying = {}
      /\ UNCHANGED <<query_vars, sets, ring, cached, n_io_in_q, n_proc_in_q, n_ops, results>>
  BY DEF Inv, BeginRefine, ReadsInv
<1>2. embedding_search_L' \in Nat
  <2>1. Len(retset) \in Nat /\ opt.k_search \in Nat /\ opt.emb \in Nat /\ EmbDen \in Nat \ {0}
    BY ConstantFacts, TypeFacts DEF Inv
  <2> DEFINE whole == Len(retset) * opt.emb
  <2>2. whole \in Nat
    BY <2>1
  <2>3. embedding_search_L' = IF whole \div EmbDen < opt.k_search THEN opt.k_search
                              ELSE whole \div EmbDen
    BY DEF BeginRefine
  <2> HIDE DEF whole
  <2>4. whole \div EmbDen \in Nat
    BY <2>1, <2>2
  <2> QED BY <2>1, <2>3, <2>4
<1>3. TypeOK'
  BY <1>1, <1>2 DEF Inv, TypeOK
<1>4. ListInv'
  BY <1>1, ListUnchanged
<1>5. ReadsInv'
  BY <1>1 DEF Inv, ReadsInv, Traversal, Refined
<1>6. TraversalInv'
  BY <1>1 DEF Inv, TraversalInv, Traversal, TraversalClosed, Filters, Expanded
<1>7. RefineInv'
  <2>1. ASSUME ~Filters', NEW p \in page_visited
        PROVE  \A n \in visited \cap ToSet(Layout[p]) : full_retset[n] > 0
    BY <1>1, <2>1 DEF Inv, RefineInv, Filters
  <2>2. \A i \in 1..Len(retset) : ~(i <= l_idx')
    BY <1>1
  <2> QED BY <1>1, <2>1, <2>2 DEF RefineInv, CandidatesEvaluated, Refined
<1>8. AnswerInv'
  BY <1>1, NoAnswerYet DEF Refined
<1> QED BY <1>3, <1>4, <1>5, <1>6, <1>7, <1>8 DEF Inv

\* All pages of the batch have been looked at.
LEMMA EndBatchKeeps ==
  ASSUME Inv, EndBatch
  PROVE  Inv'
<1> USE DEF query_vars, sets, ring, cached, refine, results
<1>1. /\ pc = "drain" /\ pc' = "embed" /\ n_ops = 0
      /\ UNCHANGED <<query_vars, sets, ring, cached, n_io_in_q, n_proc_in_q, refine, results>>
  BY DEF EndBatch
<1>2. flying = {}
  <2>1. Cardinality(flying) = 0 /\ IsFiniteSet(flying)
    BY <1>1, TypeFacts DEF Inv, ReadsInv
  <2> QED BY <2>1, FS_EmptySet
<1>3. TypeOK'
  BY <1>1 DEF Inv, TypeOK
<1>4. ListInv'
  BY <1>1, ListUnchanged
<1>5. ReadsInv'
  BY <1>1, <1>2 DEF ReadsInv, Traversal, Refined
<1>6. TraversalInv'
  BY <1>1 DEF Inv, TraversalInv, Traversal, TraversalClosed, Filters, Expanded
<1>7. RefineInv'
  BY <1>1 DEF Inv, RefineInv, CandidatesEvaluated, Refined, Filters
<1>8. AnswerInv'
  BY <1>1, NoAnswerYet DEF Refined
<1> QED BY <1>3, <1>4, <1>5, <1>6, <1>7, <1>8 DEF Inv

\* When all candidates were looked at and all pages read have come, every
\* candidate is evaluated.
LEMMA SortResultsKeeps ==
  ASSUME Inv, SortResults
  PROVE  Inv'
<1> USE DEF query_vars, sets, ring, cached, refine
<1>1. /\ pc = "embed" /\ pc' = "copy" /\ l_idx >= embedding_search_L /\ flying = {}
      /\ sorted' = full_retset
      /\ UNCHANGED <<query_vars, sets, ring, cached, n_io_in_q, n_proc_in_q, refine,
                     previous, indices>>
  BY DEF Inv, SortResults, ReadsInv
<1>2. TypeOK'
  BY <1>1 DEF Inv, TypeOK, Refined
<1>3. ListInv'
  BY <1>1, ListUnchanged
<1>4. ReadsInv'
  BY <1>1 DEF ReadsInv, Traversal, Refined
<1>5. TraversalInv'
  BY <1>1 DEF Inv, TraversalInv, Traversal, TraversalClosed, Filters, Expanded
<1>6. RefineInv'
  <2>1. ASSUME ~Filters, NEW i \in 1..embedding_search_L, i <= Len(retset)
        PROVE  retset[i].id \in exact_visited
    <3>1. /\ i \in 1..Len(retset) /\ i <= l_idx /\ retset \in ListOver(Nodes, pq)
      BY <1>1, <2>1, TypeFacts DEF Inv, TypeOK
    <3> DEFINE n == retset[i].id
    <3>2. n \in Nodes /\ n \in visited
      BY <3>1, EntryType DEF Inv, ListInv, KeepsNearest, KeepsBest, Ids
    <3> HIDE DEF n
    <3>3. full_retset[n] > 0 \/ PageOf(n) \in page_visited
      BY <1>1, <3>1 DEF Inv, RefineInv, n
    <3>4. n \in ToSet(Layout[PageOf(n)])
      BY <3>2, PageOfFacts
    <3>5. PageOf(n) \in page_visited => full_retset[n] > 0
      BY <1>1, <2>1, <3>2, <3>4 DEF Inv, RefineInv
    <3> QED BY <3>2, <3>3, <3>5 DEF n, exact_visited
  <2>2. CandidatesEvaluated'
    BY <1>1, <2>1 DEF CandidatesEvaluated, exact_visited, Filters
  <2> QED BY <1>1, <2>2 DEF RefineInv
<1>7. AnswerInv'
  <2>1. /\ indices = <<>> /\ previous = NoNode /\ opt.k_search \in 1..LSearch
        /\ \A n \in Nodes : full_retset[n] \in Nat
    BY <1>1, SearchAssumption DEF Inv, AnswerInv, Refined, TypeOK, SearchAssumption
  <2> QED BY <1>1, <2>1, ConstantFacts DEF AnswerInv, Refined, IsInjective
<1> QED BY <1>2, <1>3, <1>4, <1>5, <1>6, <1>7 DEF Inv

\* Nothing of the traversal and the refinement changes while results are copied.
LEMMA CopyKeepsRest ==
  ASSUME Inv, pc \in Refined, pc' \in Refined,
         UNCHANGED <<query_vars, sets, ring, cached, n_io_in_q, n_proc_in_q, refine>>
  PROVE  ListInv' /\ ReadsInv' /\ TraversalInv' /\ RefineInv'
<1> USE DEF query_vars, sets, ring, cached, refine
<1>1. pc \notin Traversal \cup {"start", "refine", "embed", "drain"}
      /\ pc' \notin Traversal \cup {"start", "refine", "embed", "drain"}
  BY DEF Refined, Traversal
<1>2. ListInv'
  BY <1>1, ListUnchanged
<1>3. ReadsInv'
  BY <1>1 DEF Inv, ReadsInv
<1>4. TraversalInv'
  BY <1>1 DEF Inv, TraversalInv, TraversalClosed, Filters, Expanded
<1>5. RefineInv'
  BY <1>1 DEF Inv, RefineInv, CandidatesEvaluated, exact_visited, Filters
<1> QED BY <1>2, <1>3, <1>4, <1>5

\* The query ends.
LEMMA EndQueryKeeps ==
  ASSUME Inv, EndQuery
  PROVE  Inv'
<1> USE DEF query_vars, sets, ring, cached, refine, results
<1>1. /\ pc \in Refined /\ pc' \in Refined
      /\ pc' = "done" => Len(indices) = opt.k_search
      /\ UNCHANGED <<query_vars, sets, ring, cached, n_io_in_q, n_proc_in_q, refine, results>>
  BY DEF EndQuery, Refined
<1>2. ListInv' /\ ReadsInv' /\ TraversalInv' /\ RefineInv'
  BY <1>1, CopyKeepsRest
<1>3. TypeOK'
  BY <1>1 DEF Inv, TypeOK
<1>4. AnswerInv'
  BY <1>1 DEF Inv, AnswerInv, Distinct, exact_visited
<1> QED BY <1>2, <1>3, <1>4 DEF Inv

\* The nearest entry that is left goes into the answer, unless it repeats the
\* one before: entries of one node stand together when no two nodes are equally
\* far.
LEMMA CopyEntryKeeps ==
  ASSUME Inv, NEW n \in Nodes, CopyEntry(n)
  PROVE  Inv'
<1>1. /\ pc = "copy" /\ pc' = "copy" /\ Len(indices) < opt.k_search
      /\ sorted[n] > 0 /\ \A m \in Nodes : sorted[m] > 0 => exact[n] <= exact[m]
      /\ sorted' = [sorted EXCEPT ![n] = @ - 1] /\ previous' = n
      /\ indices' = IF n = previous THEN indices ELSE Append(indices, n)
      /\ UNCHANGED <<opt, pq, exact, sets, ring, cached, n_io_in_q, n_proc_in_q, refine>>
  BY DEF CopyEntry, query_vars, sets, ring, cached, refine, Repeated, NextEntries
<1>2. ListInv' /\ ReadsInv' /\ TraversalInv' /\ RefineInv'
  BY <1>1, CopyKeepsRest DEF Refined, query_vars
<1>3. /\ full_retset \in [Nodes -> Nat] /\ full_retset' = full_retset /\ exact \in [Nodes -> Int]
      /\ sorted \in [Nodes -> Nat] /\ indices \in Seq(Nodes) /\ previous \in Nodes \cup {NoNode}
      /\ Len(indices) \in Nat /\ opt.k_search \in Nat
      /\ \A i \in 1..Len(indices) : indices[i] \in Nodes
  BY <1>1, TypeFacts, ElementOfSeq DEF Inv, TypeOK, sets
<1>4. /\ sorted' \in [Nodes -> Nat] /\ sorted'[n] = sorted[n] - 1
      /\ \A m \in Nodes : m # n => sorted'[m] = sorted[m]
      /\ \A m \in Nodes : sorted'[m] <= sorted[m]
  BY <1>1, <1>3
<1> DEFINE k == Len(indices)
           a == Append(indices, n)
<1>5. /\ a \in Seq(Nodes) /\ Len(a) = k + 1 /\ a[k + 1] = n
      /\ \A i \in 1..k : a[i] = indices[i]
  BY <1>3, AppendProperties
<1> HIDE DEF a
<1>12. /\ \A i \in 1..k : i \in 1..Len(a) /\ i < k + 1
       /\ \A i \in 1..Len(a) : i \in 1..k \/ i = k + 1
       /\ k + 1 \in 1..Len(a) /\ Len(a) = k + 1
       /\ \A i \in 1..Len(a) : \A j \in 1..Len(a) : i < j => i \in 1..k
  <2>1. k \in Nat /\ Len(a) = k + 1
    BY <1>3, <1>5
  <2> HIDE DEF k
  <2> QED BY <2>1
<1>6. TypeOK'
  <2>1. indices' \in Seq(Nodes)
    BY <1>1, <1>3, <1>5 DEF a
  <2>2. previous' \in Nodes \cup {NoNode}
    BY <1>1
  <2> QED BY <1>1, <1>4, <2>1, <2>2 DEF Inv, TypeOK, sets, ring, cached, refine
<1>7. /\ \A m \in Nodes : /\ sorted[m] <= full_retset[m]
                          /\ sorted[m] < full_retset[m] => \E i \in 1..k : indices[i] = m
      /\ \A i \in 1..k : /\ full_retset[indices[i]] > 0
                         /\ \A m \in Nodes : sorted[m] > 0 => exact[indices[i]] <= exact[m]
      /\ previous = IF indices = <<>> THEN NoNode ELSE indices[k]
      /\ \A i, j \in 1..k : i < j => exact[indices[i]] <= exact[indices[j]]
      /\ Distinct => IsInjective(indices)
  BY <1>1 DEF Inv, AnswerInv, Refined
<1>8. Distinct' <=> Distinct
  BY <1>1 DEF Distinct, exact_visited, sets
<1>9. full_retset[n] > 0
  BY <1>1, <1>3, <1>7
<1>10. AnswerInv'
  <2>1. CASE n = previous
    <3>1. indices' = indices /\ indices # <<>> /\ indices[k] = n /\ k \in 1..k
      <4>1. n # NoNode
        BY ConstantFacts DEF NoNode
      <4>2. indices # <<>> /\ indices[k] = n
        BY <4>1, <2>1, <1>7
      <4>3. k > 0
        BY <4>2, <1>3, EmptySeq
      <4> QED BY <4>2, <4>3, <2>1, <1>1, <1>3
    <3>2. \A m \in Nodes : /\ sorted'[m] <= full_retset[m]
                           /\ sorted'[m] < full_retset[m] => \E i \in 1..k : indices[i] = m
      <4> SUFFICES ASSUME NEW m \in Nodes
                   PROVE  /\ sorted'[m] <= full_retset[m]
                          /\ sorted'[m] < full_retset[m] => \E i \in 1..k : indices[i] = m
        OBVIOUS
      <4>1. sorted'[m] <= full_retset[m]
        BY <1>3, <1>4, <1>7
      <4>2. m = n => \E i \in 1..k : indices[i] = m
        BY <3>1
      <4> QED BY <4>1, <4>2, <1>4, <1>7
    <3>3. \A i \in 1..k : \A m \in Nodes : sorted'[m] > 0 => exact[indices[i]] <= exact[m]
      <4>1. \A m \in Nodes : sorted'[m] > 0 => sorted[m] > 0
        BY <1>3, <1>4
      <4> QED BY <4>1, <1>7
    <3> QED BY <1>1, <1>3, <1>7, <1>8, <3>1, <3>2, <3>3 DEF AnswerInv, Refined, sets
  <2>2. CASE n # previous
    <3>1. indices' = a
      BY <2>2, <1>1 DEF a
    <3>2. \A m \in Nodes : /\ sorted'[m] <= full_retset[m]
                           /\ sorted'[m] < full_retset[m] => \E i \in 1..Len(a) : a[i] = m
      <4> SUFFICES ASSUME NEW m \in Nodes
                   PROVE  /\ sorted'[m] <= full_retset[m]
                          /\ sorted'[m] < full_retset[m] => \E i \in 1..Len(a) : a[i] = m
        OBVIOUS
      <4>1. sorted'[m] <= full_retset[m]
        BY <1>3, <1>4, <1>7
      <4>2. m = n => \E i \in 1..Len(a) : a[i] = m
        BY <1>5, <1>12
      <4>3. ASSUME m # n, sorted'[m] < full_retset[m] PROVE \E i \in 1..Len(a) : a[i] = m
        <5>1. PICK i \in 1..k : indices[i] = m
          BY <4>3, <1>4, <1>7
        <5>2. i \in 1..Len(a) /\ a[i] = m
          BY <5>1, <1>5, <1>12
        <5> QED BY <5>2
      <4> QED BY <4>1, <4>2, <4>3
    <3>3. ASSUME NEW i \in 1..Len(a)
          PROVE  /\ full_retset[a[i]] > 0
                 /\ \A m \in Nodes : sorted'[m] > 0 => exact[a[i]] <= exact[m]
      <4>1. \A m \in Nodes : sorted'[m] > 0 => sorted[m] > 0
        BY <1>3, <1>4
      <4>2. CASE i = k + 1
        BY <4>1, <4>2, <1>1, <1>5, <1>9
      <4>3. CASE i \in 1..k
        BY <4>1, <4>3, <1>5, <1>7
      <4> QED BY <4>2, <4>3, <1>3, <1>5
    <3>4. ASSUME NEW i \in 1..Len(a), NEW j \in 1..Len(a), i < j
          PROVE  exact[a[i]] <= exact[a[j]]
      <4>1. i \in 1..k /\ a[i] = indices[i]
        BY <3>4, <1>5, <1>12
      <4>2. CASE j = k + 1
        BY <4>1, <4>2, <1>1, <1>5, <1>7
      <4>3. CASE j \in 1..k
        BY <4>1, <4>3, <3>4, <1>5, <1>7
      <4> QED BY <4>2, <4>3, <1>3, <1>5
    <3>5. ASSUME Distinct PROVE IsInjective(a)
      <4>1. ASSUME NEW i \in 1..k PROVE indices[i] # n
        <5> SUFFICES ASSUME indices[i] = n PROVE FALSE
          OBVIOUS
        <5>1. k \in 1..k /\ previous = indices[k]
          <6>1. k > 0
            BY <4>1, <1>3
          <6>2. indices # <<>>
            BY <6>1
          <6> QED BY <6>1, <6>2, <1>3, <1>7
        <5>2. i < k
          BY <5>1, <2>2, <1>3, <4>1
        <5>3. exact[indices[i]] <= exact[indices[k]] /\ exact[indices[k]] <= exact[n]
          BY <5>1, <5>2, <1>1, <1>7
        <5>4. exact[indices[k]] = exact[n]
          BY <5>1, <5>3, <1>3
        <5>5. full_retset[indices[k]] > 0 /\ indices[k] \in Nodes
          BY <5>1, <1>3, <1>7
        <5>6. indices[k] = n
          BY <3>5, <5>4, <5>5, <1>9 DEF Distinct, exact_visited
        <5> QED BY <5>1, <5>6, <2>2
      <4>2. \A i, j \in 1..k : indices[i] = indices[j] => i = j
        BY <3>5, <1>3, <1>7, LenProperties DEF IsInjective
      <4>3. DOMAIN a = 1..Len(a)
        BY <1>5, LenProperties
      <4>4. ASSUME NEW i \in 1..Len(a), NEW j \in 1..Len(a), a[i] = a[j]
            PROVE  i = j
        <5>1. (i \in 1..k \/ i = k + 1) /\ (j \in 1..k \/ j = k + 1)
          BY <1>12
        <5> QED BY <5>1, <4>1, <4>2, <4>4, <1>5
      <4> QED BY <4>3, <4>4 DEF IsInjective
    <3>6. Len(a) <= opt.k_search
      BY <1>1, <1>3, <1>5
    <3>7. n = IF a = <<>> THEN NoNode ELSE a[Len(a)]
      BY <1>3, <1>5
    <3> QED BY <1>1, <1>8, <3>1, <3>2, <3>3, <3>4, <3>5, <3>6, <3>7 DEF AnswerInv, Refined, sets
  <2> QED BY <2>1, <2>2
<1> QED BY <1>2, <1>6, <1>10 DEF Inv

\* The query starts.
LEMMA StartQueryKeeps ==
  ASSUME Inv, NEW list \in StartLists, StartQuery(list)
  PROVE  Inv'
<1> USE DEF query_vars, ring, cached, refine, results
<1>1. /\ pc = "start" /\ pc' = "process"
      /\ retset' \in Started(list, pq) /\ visited' = ToSet(list)
      /\ page_visited = {} /\ pq \in [Nodes -> Int]
      /\ UNCHANGED <<query_vars, page_visited, full_retset, ring, cached, n_io_in_q,
                     n_proc_in_q, refine, results>>
  BY DEF Inv, StartQuery, ListInv, TypeOK
<1>2. /\ retset' \in ListOver(Nodes, pq) /\ Len(retset') \in 1..LSearch
      /\ \A i \in 1..Len(retset') : retset'[i].flag
      /\ KeepsBest(retset', visited', pq) /\ visited' \subseteq Nodes
  <2>1. /\ list \in Seq(Nodes) /\ list # <<>> /\ Len(list) <= LSearch /\ LSearch \in Nat
        /\ pq \in [Nodes -> Int] /\ retset' \in Started(list, pq) /\ visited' = ToSet(list)
    BY <1>1, ConstantFacts, SearchAssumption DEF SearchAssumption
  <2> QED BY ONLY <2>1, StartedFacts
<1>3. TypeOK'
  BY <1>1, <1>2 DEF Inv, TypeOK, Traversal
<1>4. ListInv'
  BY <1>1, <1>2 DEF ListInv, KeepsNearest
<1>5. ReadsInv'
  BY <1>1 DEF Inv, ReadsInv, Traversal, Refined
<1>6. TraversalInv'
  BY <1>1, <1>2 DEF TraversalInv, Traversal, TraversalClosed
<1>7. RefineInv'
  BY <1>1 DEF RefineInv, CandidatesEvaluated, Refined
<1>8. AnswerInv'
  BY <1>1, NoAnswerYet DEF Refined
<1> QED BY <1>3, <1>4, <1>5, <1>6, <1>7, <1>8 DEF Inv

\* The search state that Process starts from.
LEMMA NowGood ==
  ASSUME Inv, pc # "start"
  PROVE  Good(Now)
<1>1. /\ retset \in ListOver(Nodes, pq) /\ visited \subseteq Nodes
      /\ full_retset \in [Nodes -> Nat] /\ <<>> \in Seq(Nodes)
  BY DEF Inv, TypeOK
<1>2. Now \in SearchState
  BY <1>1 DEF Now, SearchState
<1>3. Len(retset) \in 1..LSearch /\ KeepsBest(retset, visited, pq)
  BY DEF Inv, ListInv, KeepsNearest
<1> QED BY <1>2, <1>3 DEF Good, Now

\* What Process makes of the search state: the parsed page and the cached nodes
\* are expanded.
LEMMA ProcessedFacts ==
  ASSUME Inv, Process
  PROVE  /\ retset' \in ListOver(Nodes, pq) /\ Len(retset') \in 1..LSearch
         /\ visited' \subseteq Nodes /\ full_retset' \in [Nodes -> Nat]
         /\ KeepsBest(retset', visited', pq)
         /\ visited \subseteq visited' /\ \A n \in Nodes : full_retset[n] <= full_retset'[n]
         /\ \A i \in 1..Len(retset') :
              \/ retset'[i].flag \/ ToSet(Nbrs[retset'[i].id]) \subseteq visited'
              \/ \E j \in 1..Len(retset) : retset'[i] = retset[j]
         /\ \A i \in 1..Len(retset') :
              retset'[i].id \notin visited \/ \E j \in 1..Len(retset) : retset'[i] = retset[j]
         /\ \A n \in ToSet(cached_node_id) : ToSet(Nbrs[n]) \subseteq visited'
         /\ n_proc_in_q > 0 /\ ~Filters =>
              \A n \in ToSet(Layout[frontier[Head(sector_buffers)].pid]) :
                full_retset'[n] > 0 /\ ToSet(Nbrs[n]) \subseteq visited'
<1> DEFINE target == frontier[Head(sector_buffers)].id
           page == Layout[PageOf(target)]
           s == IF n_proc_in_q > 0 THEN ParsePage(target) ELSE Now
           t == FoldLeft(Expand, s, cached_node_id)
<1>1. pc = "process" /\ pq \in [Nodes -> Int] /\ cached_node_id \in Seq(Nodes)
  BY DEF Process, Inv, TypeOK
<1>2. Good(Now)
  BY <1>1, NowGood
<1>3. retset' = t.retset /\ visited' = t.visited /\ full_retset' = t.full_retset
  BY Zenon DEF Process
<1>4. n_proc_in_q > 0 => target \in Nodes /\ frontier[Head(sector_buffers)].pid = PageOf(target)
  <2> SUFFICES ASSUME n_proc_in_q > 0
               PROVE  target \in Nodes /\ frontier[Head(sector_buffers)].pid = PageOf(target)
    OBVIOUS
  <2>1. /\ n_proc_in_q = Len(sector_buffers) /\ sector_buffers \in Seq(Nat)
        /\ \A i \in 1..Len(sector_buffers) : sector_buffers[i] \in 1..Len(frontier)
        /\ \A j \in 1..Len(frontier) : frontier[j].id \in Nodes /\ frontier[j].pid = PageOf(frontier[j].id)
    BY <1>1 DEF Inv, ReadsInv, Traversal, TypeOK
  <2>2. Head(sector_buffers) \in 1..Len(frontier)
    <3>1. 1 \in 1..Len(sector_buffers)
      BY <2>1, LenProperties
    <3>2. Head(sector_buffers) = sector_buffers[1]
      BY <2>1, <3>1
    <3> QED BY <2>1, <3>1, <3>2
  <2> QED BY <2>1, <2>2
<1>5. /\ Good(s) /\ Parsed(Now, s)
      /\ n_proc_in_q > 0 /\ ~Filters => \A n \in ToSet(page) :
           s.full_retset[n] > 0 /\ ToSet(Nbrs[n]) \subseteq s.visited
  <2>1. CASE n_proc_in_q > 0
    <3> HIDE DEF target
    <3>1. s = ParsePage(target)
      BY <2>1
    <3> HIDE DEF s
    <3> QED BY <3>1, <1>1, <1>2, <1>4, <2>1, ParsePageKeeps
  <2>2. CASE ~(n_proc_in_q > 0)
    <3>1. s = Now
      BY <2>2
    <3>2. \A n \in Nodes : full_retset[n] <= full_retset[n]
      <4>1. \A n \in Nodes : full_retset[n] \in Nat
        BY DEF Inv, TypeOK
      <4> QED BY <4>1
    <3>3. Parsed(Now, Now)
      <4>1. Now.vis_cand = <<>> /\ Now.full_retset = full_retset
        BY DEF Now
      <4>2. ToSet(<<>>) = {}
        BY DEF ToSet
      <4> QED BY <4>1, <4>2, <3>2 DEF Parsed, OldOrUnseen
    <3> HIDE DEF s
    <3> QED BY <3>1, <3>3, <1>2, <2>2
  <2> QED BY <2>1, <2>2
<1> HIDE DEF s
<1>6. /\ Good(t) /\ Parsed(Now, t)
      /\ t.full_retset = s.full_retset /\ s.visited \subseteq t.visited
      /\ \A n \in ToSet(cached_node_id) : ToSet(Nbrs[n]) \subseteq t.visited
  BY <1>1, <1>2, <1>5, ExpandCachedKeeps
<1> HIDE DEF t, page
<1>7. /\ t.retset \in ListOver(Nodes, pq) /\ Len(t.retset) \in 1..LSearch
      /\ t.visited \subseteq Nodes /\ t.full_retset \in [Nodes -> Nat]
      /\ KeepsBest(t.retset, t.visited, pq)
  BY <1>6 DEF Good, SearchState
<1>8. /\ visited \subseteq t.visited /\ \A n \in Nodes : full_retset[n] <= t.full_retset[n]
      /\ \A i \in 1..Len(t.retset) :
           \/ t.retset[i].flag \/ ToSet(Nbrs[t.retset[i].id]) \subseteq t.visited
           \/ \E j \in 1..Len(retset) : t.retset[i] = retset[j]
      /\ \A i \in 1..Len(t.retset) :
           t.retset[i].id \notin visited \/ \E j \in 1..Len(retset) : t.retset[i] = retset[j]
  <2>1. Now.retset = retset /\ Now.visited = visited /\ Now.full_retset = full_retset
    BY DEF Now
  <2> QED BY <1>6, <2>1 DEF Parsed, OldOrUnseen
<1>9. n_proc_in_q > 0 /\ ~Filters => \A n \in ToSet(page) :
        t.full_retset[n] > 0 /\ ToSet(Nbrs[n]) \subseteq t.visited
  BY <1>5, <1>6
<1>10. n_proc_in_q > 0 => page = Layout[frontier[Head(sector_buffers)].pid]
  BY <1>4 DEF page
<1> QED BY <1>3, <1>6, <1>7, <1>8, <1>9, <1>10

\* Process parses the page of the first completed read and expands the cached
\* nodes: what waited for either is expanded now.
LEMMA ProcessKeeps ==
  ASSUME Inv, Process
  PROVE  Inv'
<1>1. /\ pc = "process" /\ pc' = "collect" /\ cached_node_id' = <<>> /\ n_cached_in_q' = 0
      /\ IF n_proc_in_q > 0
           THEN sector_buffers' = Tail(sector_buffers) /\ n_proc_in_q' = n_proc_in_q - 1
           ELSE UNCHANGED <<sector_buffers, n_proc_in_q>>
      /\ UNCHANGED <<query_vars, page_visited, frontier, flying, n_io_in_q, refine, results>>
  BY DEF Process
<1> DEFINE bufs == Len(sector_buffers)
<1>2. /\ sector_buffers \in Seq(Nat) /\ bufs \in Nat /\ n_proc_in_q = bufs
      /\ \A i \in 1..bufs : sector_buffers[i] \in 1..Len(frontier)
      /\ \A t \in 1..Len(frontier) : frontier[t].id \in Nodes /\ frontier[t].pid = PageOf(frontier[t].id)
      /\ n_io_in_q = Cardinality(flying)
  BY <1>1, TypeFacts DEF Inv, ReadsInv, Traversal, TypeOK
<1>3. /\ retset' \in ListOver(Nodes, pq) /\ Len(retset') \in 1..LSearch
      /\ visited' \subseteq Nodes /\ full_retset' \in [Nodes -> Nat]
      /\ KeepsBest(retset', visited', pq)
  BY ProcessedFacts
<1>4. /\ sector_buffers' \in Seq(Nat) /\ n_proc_in_q' \in Nat /\ n_proc_in_q' = Len(sector_buffers')
      /\ n_proc_in_q > 0 => /\ Len(sector_buffers') = bufs - 1 /\ bufs > 0
                            /\ Head(sector_buffers) = sector_buffers[1]
                            /\ \A i \in 1..(bufs - 1) : sector_buffers'[i] = sector_buffers[i + 1]
  <2>1. CASE n_proc_in_q > 0
    <3>1. sector_buffers # <<>> /\ sector_buffers \in Seq(Nat)
      BY <2>1, <1>2
    <3>2. /\ Tail(sector_buffers) \in Seq(Nat) /\ Len(Tail(sector_buffers)) = bufs - 1
          /\ \A i \in 1..Len(Tail(sector_buffers)) : Tail(sector_buffers)[i] = sector_buffers[i + 1]
      BY ONLY <3>1, HeadTailProperties
    <3>3. Head(sector_buffers) = sector_buffers[1]
      BY <3>1
    <3>4. sector_buffers' = Tail(sector_buffers) /\ n_proc_in_q' = n_proc_in_q - 1 /\ bufs > 0
      BY <2>1, <1>1, <1>2
    <3> HIDE DEF bufs
    <3> QED BY <3>2, <3>3, <3>4, <1>2
  <2>2. CASE ~(n_proc_in_q > 0)
    BY <2>2, <1>1, <1>2
  <2> QED BY <2>1, <2>2
<1>5. \A i \in 1..Len(sector_buffers') : sector_buffers'[i] \in 1..Len(frontier)
  <2>1. CASE n_proc_in_q > 0
    <3> HIDE DEF bufs
    <3>1. \A i \in 1..(bufs - 1) : i + 1 \in 1..bufs
      BY <1>2
    <3> QED BY <3>1, <2>1, <1>2, <1>4
  <2>2. CASE ~(n_proc_in_q > 0)
    BY <2>2, <1>1, <1>2
  <2> QED BY <2>1, <2>2
<1>6. TypeOK'
  <2>1. cached_node_id' \in Seq(Nodes) /\ n_cached_in_q' \in Nat /\ pc' \in Traversal
    BY <1>1 DEF Traversal
  <2> QED BY <1>1, <1>3, <1>4, <2>1 DEF Inv, TypeOK, query_vars, refine, results
<1>7. ListInv'
  BY <1>1, <1>3 DEF ListInv, KeepsNearest, query_vars
<1>8. ReadsInv'
  BY <1>1, <1>2, <1>4, <1>5 DEF ReadsInv, Refined
<1>9. ASSUME ~Filters, NEW p \in page_visited
      PROVE  \/ Pending(p)'
             \/ \A n \in ToSet(Layout[p]) : full_retset'[n] > 0 /\ ToSet(Nbrs[n]) \subseteq visited'
  <2>1. CASE \A n \in ToSet(Layout[p]) : full_retset[n] > 0 /\ Expanded(n)
    <3>1. ToSet(Layout[p]) \subseteq Nodes
      <4>1. p \in Pages
        BY DEF Inv, TypeOK
      <4> QED BY <4>1, PageNodes
    <3>2. ASSUME NEW n \in ToSet(Layout[p])
          PROVE  full_retset'[n] > 0 /\ ToSet(Nbrs[n]) \subseteq visited'
      <4>1. n \in Nodes /\ full_retset[n] \in Nat /\ full_retset'[n] \in Nat
        BY <3>1, <1>3 DEF Inv, TypeOK
      <4>2. full_retset[n] <= full_retset'[n] /\ visited \subseteq visited'
        BY <4>1, ProcessedFacts
      <4> QED BY <4>1, <4>2, <2>1 DEF Expanded
    <3> QED BY <3>2
  <2>2. CASE Pending(p)
    <3>1. PICK t \in 1..Len(frontier) :
            /\ frontier[t].pid = p
            /\ t \in flying \/ \E i \in 1..bufs : sector_buffers[i] = t
      BY <2>2 DEF Pending
    <3>2. CASE t \in flying
      BY <3>1, <3>2, <1>1 DEF Pending
    <3>3. CASE \E i \in 1..bufs : sector_buffers[i] = t
      <4>1. PICK i \in 1..bufs : sector_buffers[i] = t
        BY <3>3
      <4>2. n_proc_in_q > 0
        BY <1>2
      <4>3. CASE i = 1
        <5>1. \A n \in ToSet(Layout[frontier[Head(sector_buffers)].pid]) :
                full_retset'[n] > 0 /\ ToSet(Nbrs[n]) \subseteq visited'
          BY <4>2, <1>9, ProcessedFacts
        <5>2. frontier[Head(sector_buffers)].pid = p
          BY <3>1, <4>1, <4>2, <4>3, <1>4
        <5> QED BY <5>1, <5>2
      <4>4. CASE i # 1
        <5>1. i - 1 \in 1..Len(sector_buffers') /\ sector_buffers'[i - 1] = t
          <6>1. i - 1 \in 1..(bufs - 1) /\ (i - 1) + 1 = i
            <7> HIDE DEF bufs
            <7> QED BY <4>4, <1>2
          <6> QED BY <6>1, <4>1, <4>2, <1>4
        <5> QED BY <5>1, <3>1, <1>1 DEF Pending
      <4> QED BY <4>3, <4>4
    <3> QED BY <3>1, <3>2, <3>3
  <2>3. Pending(p) \/ \A n \in ToSet(Layout[p]) : full_retset[n] > 0 /\ Expanded(n)
    BY <1>1, <1>9 DEF Inv, TraversalInv, Traversal
  <2> QED BY <2>1, <2>2, <2>3
<1>10. ASSUME ~Filters, NEW i \in 1..Len(retset')
       PROVE  \/ retset'[i].flag \/ ToSet(Nbrs[retset'[i].id]) \subseteq visited'
              \/ PageOf(retset'[i].id) \in page_visited
  <2>1. \/ retset'[i].flag \/ ToSet(Nbrs[retset'[i].id]) \subseteq visited'
        \/ \E j \in 1..Len(retset) : retset'[i] = retset[j]
    BY ProcessedFacts
  <2>2. ASSUME NEW j \in 1..Len(retset), retset'[i] = retset[j]
        PROVE  \/ retset'[i].flag \/ ToSet(Nbrs[retset'[i].id]) \subseteq visited'
               \/ PageOf(retset'[i].id) \in page_visited
    <3>1. \/ retset[j].flag \/ Expanded(retset[j].id)
          \/ retset[j].id \in ToSet(cached_node_id) \/ PageOf(retset[j].id) \in page_visited
      BY <1>1, <1>10 DEF Inv, TraversalInv, Traversal
    <3>2. Expanded(retset[j].id) => ToSet(Nbrs[retset[j].id]) \subseteq visited'
      BY ProcessedFacts DEF Expanded
    <3>3. retset[j].id \in ToSet(cached_node_id) => ToSet(Nbrs[retset[j].id]) \subseteq visited'
      BY ProcessedFacts
    <3> QED BY <2>2, <3>1, <3>2, <3>3
  <2> QED BY <2>1, <2>2
<1>11. TraversalInv'
  <2>1. Filters' <=> Filters
    BY <1>1 DEF Filters, query_vars
  <2> QED BY <1>1, <1>9, <1>10, <2>1 DEF TraversalInv, TraversalClosed, Traversal, Expanded
<1>12. RefineInv'
  BY <1>1 DEF RefineInv, CandidatesEvaluated, Refined
<1>13. AnswerInv'
  BY <1>1, NoAnswerYet DEF Refined, results, query_vars
<1> QED BY <1>6, <1>7, <1>8, <1>11, <1>12, <1>13 DEF Inv

\* Completed reads go from the flight to the parser, in any order.
LEMMA CollectKeeps ==
  ASSUME Inv, NEW n \in 0..n_io_in_q, Collect(n)
  PROVE  Inv'
<1> USE DEF query_vars, sets, cached, refine, results
<1>16. PICK finished \in SUBSET flying :
         /\ Cardinality(finished) = n
         /\ \E s \in SetToSeqs(finished) :
              sector_buffers' = sector_buffers \o s /\ flying' = flying \ finished
  BY DEF Collect, kSubset
<1>1. PICK s \in SetToSeqs(finished) :
        /\ Cardinality(finished) = n
        /\ sector_buffers' = sector_buffers \o s /\ flying' = flying \ finished
  BY <1>16
<1>2. /\ pc = "collect" /\ pc' = "dispatch"
      /\ n_io_in_q' = n_io_in_q - n /\ n_proc_in_q' = n_proc_in_q + n
      /\ UNCHANGED <<query_vars, sets, frontier, cached, refine, results>>
  BY DEF Collect
<1> DEFINE bufs == Len(sector_buffers)
<1>3. /\ sector_buffers \in Seq(Nat) /\ bufs \in Nat /\ n_proc_in_q = bufs
      /\ n_io_in_q \in Nat /\ n \in Nat /\ n <= n_io_in_q
      /\ \A i \in 1..bufs : sector_buffers[i] \in 1..Len(frontier)
      /\ \A t \in 1..Len(frontier) : frontier[t].id \in Nodes /\ frontier[t].pid = PageOf(frontier[t].id)
      /\ n_io_in_q = Cardinality(flying) /\ n_cached_in_q = Len(cached_node_id)
      /\ flying \subseteq 1..Len(frontier) /\ IsFiniteSet(flying)
  BY <1>2, TypeFacts DEF Inv, ReadsInv, Traversal, TypeOK
<1>4. IsFiniteSet(finished)
  BY <1>3, FS_Subset
<1>5. /\ s \in Seq(finished) /\ Len(s) = n /\ finished = {s[i] : i \in 1..n}
  <2>1. s \in Seq(finished) /\ Len(s) = Cardinality(finished) /\ finished = {s[i] : i \in 1..Len(s)}
    BY <1>4, CompletionOrder
  <2> QED BY <1>1, <2>1
<1>6. Cardinality(flying \ finished) = n_io_in_q - n
  <2>1. IsFiniteSet(flying \ finished) /\ flying \ finished \in SUBSET flying
    BY <1>3, FS_Subset
  <2>2. finished \cup (flying \ finished) = flying /\ finished \cap (flying \ finished) = {}
    OBVIOUS
  <2>3. Cardinality(flying) =
          Cardinality(finished) + Cardinality(flying \ finished) - Cardinality({})
    BY <1>4, <2>1, <2>2, FS_Union
  <2>4. Cardinality({}) = 0 /\ Cardinality(flying \ finished) \in Nat
    BY <2>1, FS_EmptySet, FS_CardinalityType
  <2> QED BY <1>1, <1>3, <2>3, <2>4
<1>7. /\ sector_buffers' \in Seq(Nat) /\ Len(sector_buffers') = bufs + n
      /\ \A i \in 1..bufs : i \in 1..Len(sector_buffers') /\ sector_buffers'[i] = sector_buffers[i]
      /\ \A i \in 1..n : /\ bufs + i \in 1..Len(sector_buffers')
                         /\ sector_buffers'[bufs + i] = s[i]
      /\ \A i \in 1..Len(sector_buffers') : i \in 1..bufs \/ \E j \in 1..n : i = bufs + j
  <2>1. s \in Seq(Nat)
    <3>1. finished \subseteq Nat
      BY <1>3
    <3>2. s \in [1..n -> Nat]
      BY <1>5, <3>1
    <3> QED BY <1>3, <3>2
  <2>2. sector_buffers \in Seq(Nat)
    BY <1>3
  <2> DEFINE both == sector_buffers \o s
  <2>3. /\ both \in Seq(Nat) /\ Len(both) = bufs + Len(s)
        /\ \A i \in 1..bufs : i \in 1..Len(both) /\ both[i] = sector_buffers[i]
        /\ \A i \in 1..Len(s) : bufs + i \in 1..Len(both) /\ both[bufs + i] = s[i]
        /\ \A i \in 1..Len(both) : i \in 1..bufs \/ \E j \in 1..Len(s) : i = bufs + j
    BY ONLY <2>1, <2>2, Joined
  <2> HIDE DEF both
  <2>4. sector_buffers' = both
    BY <1>1 DEF both
  <2> QED BY <1>5, <2>3, <2>4
<1>8. \A i \in 1..n : s[i] \in finished
  BY <1>5
<1>9. TypeOK'
  <2>1. flying' \subseteq 1..Len(frontier) /\ n_io_in_q' \in Nat /\ n_proc_in_q' \in Nat
    BY <1>1, <1>2, <1>3
  <2> QED BY <1>2, <1>7, <2>1 DEF Inv, TypeOK, Traversal
<1>10. ListInv'
  BY <1>2, ListUnchanged
<1>11. ReadsInv'
  <2>1. \A i \in 1..Len(sector_buffers') : sector_buffers'[i] \in 1..Len(frontier)
    BY <1>3, <1>7, <1>8
  <2>2. n_proc_in_q' = Len(sector_buffers') /\ n_io_in_q' = Cardinality(flying')
    BY <1>1, <1>2, <1>3, <1>6, <1>7
  <2> QED BY <1>2, <1>3, <2>1, <2>2 DEF ReadsInv, Refined
<1>12. ASSUME NEW p \in page_visited, Pending(p) PROVE Pending(p)'
  <2>1. PICK t \in 1..Len(frontier) :
          /\ frontier[t].pid = p
          /\ t \in flying \/ \E i \in 1..bufs : sector_buffers[i] = t
    BY <1>12 DEF Pending
  <2>2. t \in flying' \/ \E i \in 1..Len(sector_buffers') : sector_buffers'[i] = t
    <3>1. CASE t \in finished
      BY <3>1, <1>5, <1>7
    <3>2. CASE t \in flying \ finished
      BY <3>2, <1>1
    <3>3. CASE \E i \in 1..bufs : sector_buffers[i] = t
      <4>1. PICK i \in 1..bufs : sector_buffers[i] = t
        BY <3>3
      <4>2. i \in 1..Len(sector_buffers') /\ sector_buffers'[i] = t
        BY <4>1, <1>7
      <4> QED BY <4>2
    <3> QED BY <2>1, <3>1, <3>2, <3>3
  <2> QED BY <1>2, <2>1, <2>2 DEF Pending
<1>13. TraversalInv'
  <2>1. ASSUME ~Filters, NEW p \in page_visited
        PROVE  Pending(p)' \/ \A m \in ToSet(Layout[p]) : full_retset[m] > 0 /\ Expanded(m)
    BY <1>2, <1>12, <2>1 DEF Inv, TraversalInv, Traversal
  <2> HIDE DEF bufs
  <2> QED BY <1>2, <2>1 DEF Inv, TraversalInv, TraversalClosed, Traversal, Filters, Expanded
<1>14. RefineInv'
  BY <1>2 DEF RefineInv, CandidatesEvaluated, Refined
<1>15. AnswerInv'
  BY <1>2, NoAnswerYet DEF Refined
<1> QED BY <1>9, <1>10, <1>11, <1>13, <1>14, <1>15 DEF Inv

\* The states of a round.
SelectState ==
  [retset : ListOver(Nodes, pq), page_visited : SUBSET Pages,
   reads : Seq([id : Nodes, pid : Pages]), cached : Seq(Nodes), num_seen : Nat]

\* Which of the first j candidates a round has marked.
Marks(j, s) == {i \in 1..Len(retset) : i <= j /\ retset[i].flag /\ ~s.retset[i].flag}

\* After j candidates of a round: only marks have changed, every new page has its
\* read, a candidate that was marked is to be expanded from memory or has its page
\* read, and unless the beam is full none of the j is left unmarked.
RoundAt(j, s) ==
  /\ Len(s.retset) = Len(retset)
  /\ \A i \in 1..Len(retset) :
       /\ s.retset[i].id = retset[i].id /\ s.retset[i].distance = retset[i].distance
       /\ \/ s.retset[i].flag
          \/ ~retset[i].flag
          \/ retset[i].id \in ToSet(s.cached) \/ PageOf(retset[i].id) \in s.page_visited
       /\ s.retset[i].flag => retset[i].flag
  /\ page_visited \subseteq s.page_visited
  /\ \A p \in s.page_visited : p \in page_visited \/ \E r \in 1..Len(s.reads) : s.reads[r].pid = p
  /\ \A r \in 1..Len(s.reads) : s.reads[r].pid = PageOf(s.reads[r].id)
  /\ s.num_seen = Len(s.reads) + Len(s.cached) /\ s.num_seen <= Cardinality(Marks(j, s))
  /\ s.num_seen = BeamWidth \/ \A i \in 1..Len(retset) : i <= j => ~s.retset[i].flag

LEMMA RoundBegins ==
  ASSUME Inv
  PROVE  LET s == [retset |-> retset, page_visited |-> page_visited, reads |-> <<>>,
                   cached |-> <<>>, num_seen |-> 0]
         IN  s \in SelectState /\ RoundAt(0, s) /\ s.num_seen <= BeamWidth
<1> DEFINE s == [retset |-> retset, page_visited |-> page_visited, reads |-> <<>>,
                 cached |-> <<>>, num_seen |-> 0]
<1>1. s \in SelectState
  BY DEF Inv, TypeOK, SelectState
<1>2. \A i \in 1..Len(retset) : ~(i <= 0)
  OBVIOUS
<1>3. RoundAt(0, s)
  <2>1. Cardinality(Marks(0, s)) = 0
    <3>1. Marks(0, s) = {}
      BY <1>2 DEF Marks
    <3> QED BY <3>1, FS_EmptySet
  <2> QED BY <1>2, <2>1 DEF RoundAt
<1>4. BeamWidth \in Nat
  BY ConstantFacts
<1> QED BY <1>1, <1>3, <1>4

\* A candidate is marked and goes where it is expanded from.
LEMMA SelectKeeps ==
  ASSUME Inv, NEW j \in 1..Len(retset), NEW s \in SelectState, RoundAt(j - 1, s),
         s.num_seen <= BeamWidth
  PROVE  LET t == Select(s, j)
         IN  t \in SelectState /\ RoundAt(j, t) /\ t.num_seen <= BeamWidth
<1> DEFINE n == retset[j].id
           list == [s.retset EXCEPT ![j].flag = FALSE]
           read == [id |-> n, pid |-> PageOf(n)]
           Taken(p, r, c, k) == [retset |-> list, page_visited |-> p, reads |-> r,
                                 cached |-> c, num_seen |-> k]
<1>1. /\ s = [retset |-> s.retset, page_visited |-> s.page_visited, reads |-> s.reads,
              cached |-> s.cached, num_seen |-> s.num_seen]
      /\ s.retset \in ListOver(Nodes, pq) /\ s.page_visited \subseteq Pages
      /\ s.reads \in Seq([id : Nodes, pid : Pages]) /\ s.cached \in Seq(Nodes)
      /\ s.num_seen \in Nat
  BY DEF SelectState
<1>2. /\ Len(s.retset) = Len(retset)
      /\ \A i \in 1..Len(retset) :
           /\ s.retset[i].id = retset[i].id /\ s.retset[i].distance = retset[i].distance
           /\ \/ s.retset[i].flag
              \/ ~retset[i].flag
              \/ retset[i].id \in ToSet(s.cached) \/ PageOf(retset[i].id) \in s.page_visited
           /\ s.retset[i].flag => retset[i].flag
      /\ page_visited \subseteq s.page_visited
      /\ \A p \in s.page_visited : p \in page_visited \/ \E r \in 1..Len(s.reads) : s.reads[r].pid = p
      /\ \A r \in 1..Len(s.reads) : s.reads[r].pid = PageOf(s.reads[r].id)
      /\ s.num_seen = Len(s.reads) + Len(s.cached)
      /\ s.num_seen <= Cardinality(Marks(j - 1, s))
      /\ s.num_seen = BeamWidth \/ \A i \in 1..Len(retset) : i <= j - 1 => ~s.retset[i].flag
  BY DEF RoundAt
<1>3. n \in Nodes /\ Len(retset) \in Nat /\ BeamWidth \in Nat /\ PageOf(n) \in Pages
  <2>1. retset \in ListOver(Nodes, pq)
    BY DEF Inv, TypeOK
  <2>2. n \in Nodes
    BY <2>1, EntryType
  <2> QED BY <2>2, TypeFacts, ConstantFacts, PageOfFacts DEF Inv
<1>4. /\ list \in ListOver(Nodes, pq) /\ Len(list) = Len(retset) /\ ~list[j].flag
      /\ \A i \in 1..Len(retset) : i # j => list[i] = s.retset[i]
      /\ \A i \in 1..Len(retset) : list[i].id = retset[i].id /\ list[i].distance = retset[i].distance
  <2>1. j \in 1..Len(s.retset)
    BY <1>2
  <2>2. LET new == list
        IN  /\ new \in ListOver(Nodes, pq) /\ Len(new) = Len(s.retset) /\ ~new[j].flag
            /\ \A i \in 1..Len(s.retset) : i # j => new[i] = s.retset[i]
            /\ \A i \in 1..Len(s.retset) :
                 new[i].id = s.retset[i].id /\ new[i].distance = s.retset[i].distance
    BY <1>1, <2>1, Unflagged
  <2> HIDE DEF list
  <2> QED BY <2>2, <1>2
<1>5. \A i \in 1..Len(retset) : i <= j => i <= j - 1 \/ i = j
  BY <1>3
<1>8. \A k, r : IsFiniteSet(Marks(k, r))
  <2>1. IsFiniteSet(1..Len(retset))
    BY <1>3, FS_Interval
  <2>2. \A k, r : Marks(k, r) \subseteq 1..Len(retset)
    BY DEF Marks
  <2> QED BY <2>1, <2>2, FS_Subset
<1>6. CASE s.num_seen = BeamWidth \/ ~retset[j].flag
  <2>1. Select(s, j) = s
    BY <1>6 DEF Select
  <2>2. s.num_seen = BeamWidth \/ \A i \in 1..Len(retset) : i <= j => ~s.retset[i].flag
    BY <1>2, <1>5, <1>6
  <2>3. s.num_seen <= Cardinality(Marks(j, s))
    <3>1. Marks(j - 1, s) \subseteq Marks(j, s)
      BY <1>3 DEF Marks
    <3> QED BY <1>1, <1>2, <1>8, <3>1, FS_Subset, FS_CardinalityType
  <2>4. RoundAt(j, s)
    BY <1>2, <2>2, <2>3 DEF RoundAt
  <2> QED BY <2>1, <2>4
<1>7. CASE s.num_seen # BeamWidth /\ retset[j].flag
  <2>1. [s EXCEPT !.retset[j].flag = FALSE] = Taken(s.page_visited, s.reads, s.cached, s.num_seen)
    <3>1. [s EXCEPT !.retset[j].flag = FALSE] = [s EXCEPT !.retset = list]
      OBVIOUS
    <3> HIDE DEF list
    <3>2. [s EXCEPT !.retset = list] = Taken(s.page_visited, s.reads, s.cached, s.num_seen)
      BY DEF SelectState
    <3> QED BY <3>1, <3>2
  <2>2. s.num_seen + 1 <= BeamWidth /\ s.num_seen + 1 \in Nat
    BY <1>1, <1>3, <1>7
  <2> HIDE DEF list
  <2>3. \A i \in 1..Len(retset) : /\ list[i].flag => retset[i].flag
                                  /\ i <= j => ~list[i].flag
                                  /\ i # j => list[i].flag = s.retset[i].flag
    BY <1>2, <1>4, <1>5, <1>7
  <2>7. ASSUME NEW t, t.retset = list
        PROVE  s.num_seen + 1 <= Cardinality(Marks(j, t)) /\ s.num_seen <= Cardinality(Marks(j, t))
    <3>1. Marks(j - 1, s) \subseteq Marks(j, t) /\ j \in Marks(j, t) /\ j \notin Marks(j - 1, s)
      BY <1>3, <1>4, <1>7, <2>3, <2>7 DEF Marks
    <3>2. IsFiniteSet(Marks(j, t)) /\ IsFiniteSet(Marks(j - 1, s))
      BY <1>8
    <3>3. Cardinality(Marks(j - 1, s) \cup {j}) = Cardinality(Marks(j - 1, s)) + 1
      BY <3>1, <3>2, FS_AddElement
    <3>4. Cardinality(Marks(j - 1, s) \cup {j}) <= Cardinality(Marks(j, t))
      BY <3>1, <3>2, FS_Subset
    <3>5. Cardinality(Marks(j - 1, s)) \in Nat /\ Cardinality(Marks(j, t)) \in Nat
      BY <3>2, FS_CardinalityType
    <3> QED BY <1>1, <1>2, <3>3, <3>4, <3>5
  <2>4. CASE n \in MemGraph
    <3> DEFINE more == Append(s.cached, n)
               t == Taken(s.page_visited, s.reads, more, s.num_seen + 1)
    <3>1. Select(s, j) = t
      BY <1>7, <2>1, <2>4 DEF Select
    <3>2. /\ more \in Seq(Nodes) /\ Len(more) = Len(s.cached) + 1
          /\ n \in ToSet(more) /\ ToSet(s.cached) \subseteq ToSet(more)
      BY <1>1, <1>3, Appended
    <3> HIDE DEF more
    <3>3. t \in SelectState
      BY <1>1, <1>4, <2>2, <3>2 DEF SelectState
    <3>4. s.num_seen + 1 = Len(s.reads) + Len(more)
      BY <1>1, <1>2, <3>2, LenProperties
    <3>5. RoundAt(j, t)
      <4>1. t.num_seen <= Cardinality(Marks(j, t))
        BY <2>7
      <4> QED BY <1>2, <1>4, <2>3, <3>2, <3>4, <4>1 DEF RoundAt
    <3> QED BY <2>2, <3>1, <3>3, <3>5
  <2>5. CASE n \notin MemGraph /\ PageOf(n) \in s.page_visited
    <3> DEFINE t == Taken(s.page_visited, s.reads, s.cached, s.num_seen)
    <3>1. Select(s, j) = t
      BY <1>7, <2>1, <2>5 DEF Select
    <3>2. t \in SelectState
      BY <1>1, <1>4 DEF SelectState
    <3>3. RoundAt(j, t)
      <4>1. t.num_seen <= Cardinality(Marks(j, t))
        BY <2>7
      <4> QED BY <1>2, <1>4, <2>3, <2>5, <4>1 DEF RoundAt
    <3> QED BY <3>1, <3>2, <3>3
  <2>6. CASE n \notin MemGraph /\ PageOf(n) \notin s.page_visited
    <3> DEFINE more == Append(s.reads, read)
               t == Taken(s.page_visited \cup {PageOf(n)}, more, s.cached, s.num_seen + 1)
    <3>1. Select(s, j) = t
      BY <1>7, <2>1, <2>6 DEF Select
    <3>2. /\ more \in Seq([id : Nodes, pid : Pages]) /\ Len(more) = Len(s.reads) + 1
          /\ Len(s.reads) \in Nat /\ more[Len(s.reads) + 1] = read
          /\ \A r \in 1..Len(s.reads) : more[r] = s.reads[r]
      BY <1>1, <1>3, AppendProperties, LenProperties
    <3> HIDE DEF more
    <3>3. t \in SelectState
      BY <1>1, <1>3, <1>4, <2>2, <3>2 DEF SelectState
    <3>4. s.num_seen + 1 = Len(more) + Len(s.cached)
      BY <1>1, <1>2, <3>2, LenProperties
    <3>5. \A p \in s.page_visited \cup {PageOf(n)} :
            p \in page_visited \/ \E r \in 1..Len(more) : more[r].pid = p
      <4>1. \A r \in 1..Len(s.reads) : r \in 1..Len(more)
        BY <3>2
      <4>2. Len(s.reads) + 1 \in 1..Len(more) /\ more[Len(s.reads) + 1].pid = PageOf(n)
        BY <3>2
      <4> QED BY <1>2, <3>2, <4>1, <4>2
    <3>6. \A r \in 1..Len(more) : more[r].pid = PageOf(more[r].id)
      <4>1. \A r \in 1..Len(more) : r \in 1..Len(s.reads) \/ r = Len(s.reads) + 1
        BY <3>2
      <4> QED BY <1>2, <3>2, <4>1
    <3>7. RoundAt(j, t)
      <4>1. t.num_seen <= Cardinality(Marks(j, t))
        BY <2>7
      <4> QED BY <1>2, <1>4, <2>3, <3>4, <3>5, <3>6, <4>1 DEF RoundAt
    <3> QED BY <2>2, <3>1, <3>3, <3>7
  <2> QED BY <2>4, <2>5, <2>6
<1> QED BY <1>6, <1>7

\* The loop over the candidates of a round.
SelectFold == INSTANCE CandidateListProofs WITH Op <- Select

\* A round goes through the whole list.
LEMMA RoundFacts ==
  ASSUME Inv
  PROVE  Round \in SelectState /\ RoundAt(Len(retset), Round) /\ Round.num_seen <= BeamWidth
<1> DEFINE k == Len(retset)
           b == [retset |-> retset, page_visited |-> page_visited, reads |-> <<>>,
                 cached |-> <<>>, num_seen |-> 0]
           q == [i \in 1..k |-> i]
           S == [i \in 0..k |-> {s \in SelectState : RoundAt(i, s) /\ s.num_seen <= BeamWidth}]
<1>1. k \in Nat
  BY TypeFacts DEF Inv
<1>2. DOMAIN q = 1..k /\ \A i \in 1..k : q[i] = i
  OBVIOUS
<1>3. b \in S[0]
  <2> HIDE DEF b
  <2>1. b \in SelectState /\ RoundAt(0, b) /\ b.num_seen <= BeamWidth
    BY RoundBegins DEF b
  <2> QED BY <1>1, <2>1
<1>4. ASSUME NEW i \in 1..k, NEW s \in S[i - 1] PROVE Select(s, q[i]) \in S[i]
  <2> DEFINE t == Select(s, i)
  <2>1. i - 1 \in 0..k /\ i \in 0..k
    BY <1>1
  <2>2. s \in SelectState /\ RoundAt(i - 1, s) /\ s.num_seen <= BeamWidth
    BY <2>1
  <2>3. t \in SelectState /\ RoundAt(i, t) /\ t.num_seen <= BeamWidth
    BY <2>2, SelectKeeps
  <2> HIDE DEF t
  <2> QED BY <1>2, <2>1, <2>3 DEF t
<1> HIDE DEF S, k
<1>5. SelectFold!FoldLeft(Select, b, q) \in S[k]
  BY <1>1, <1>2, <1>3, <1>4, SelectFold!FoldKeeps
<1>6. Round = SelectFold!FoldLeft(Select, b, q)
  BY Zenon DEF Round, b, q, k, FoldLeft, MapThenFoldSet, Max, SelectFold!FoldLeft,
               SelectFold!MapThenFoldSet, SelectFold!Max
<1> HIDE DEF b, q
<1>7. Round \in S[k]
  BY <1>5, <1>6
<1> QED BY <1>1, <1>7 DEF S, k

\* The reads of a round go in flight.
LEMMA DispatchParts ==
  ASSUME Inv, Dispatch
  PROVE  /\ pc = "dispatch" /\ RoundOpen /\ flying = {} /\ cached_node_id = <<>>
         /\ retset' = Round.retset /\ page_visited' = Round.page_visited
         /\ frontier' = frontier \o Round.reads
         /\ flying' = (Len(frontier) + 1)..(Len(frontier) + Len(Round.reads))
         /\ n_io_in_q' = Len(Round.reads)
         /\ cached_node_id' = Round.cached /\ n_cached_in_q' = Len(Round.cached)
         /\ pc' = IF LoopEnds(Round) THEN "refine" ELSE "process"
         /\ UNCHANGED <<query_vars, visited, full_retset, sector_buffers, n_proc_in_q,
                        refine, results>>
<1> DEFINE r == Round
<1>1. /\ pc = "dispatch" /\ RoundOpen
      /\ retset' = r.retset /\ page_visited' = r.page_visited
      /\ frontier' = frontier \o r.reads
      /\ flying' = flying \cup (Len(frontier) + 1)..(Len(frontier) + Len(r.reads))
      /\ n_io_in_q' = n_io_in_q + Len(r.reads)
      /\ cached_node_id' = cached_node_id \o r.cached
      /\ n_cached_in_q' = n_cached_in_q + Len(r.cached)
      /\ pc' = IF LoopEnds(r) THEN "refine" ELSE "process"
      /\ UNCHANGED <<query_vars, visited, full_retset, sector_buffers, n_proc_in_q,
                     refine, results>>
  BY Zenon DEF Dispatch
<1> HIDE DEF r
<1>2. /\ n_io_in_q = 0 /\ n_cached_in_q = 0 /\ n_io_in_q = Cardinality(flying)
      /\ n_cached_in_q = Len(cached_node_id) /\ IsFiniteSet(flying)
      /\ cached_node_id \in Seq(Nodes)
  BY <1>1, TypeFacts DEF RoundOpen, Inv, ReadsInv, Traversal, TypeOK
<1>3. flying = {}
  BY <1>2, FS_EmptySet
<1>4. cached_node_id = <<>>
  BY <1>2, EmptySeq
<1>5. r.reads \in Seq([id : Nodes, pid : Pages]) /\ r.cached \in Seq(Nodes)
  BY RoundFacts DEF r, SelectState
<1>6. Len(r.reads) \in Nat /\ Len(r.cached) \in Nat
  BY <1>5, LenProperties
<1>7. cached_node_id \o r.cached = r.cached
  BY <1>4, <1>5, ConcatEmptySeq
<1> QED BY <1>1, <1>2, <1>3, <1>4, <1>6, <1>7 DEF r

\* A round without reads and expansions, when nothing waits: no candidate is left
\* to be selected, and every page that was read has been parsed.
LEMMA EmptyRound ==
  ASSUME Inv, Dispatch, LoopEnds(Round)
  PROVE  /\ flying' = {} /\ page_visited' = page_visited
         /\ sector_buffers = <<>> /\ cached_node_id' = <<>>
         /\ \A i \in 1..Len(retset) : ~Round.retset[i].flag /\ retset[i].id = Round.retset[i].id
         /\ ~Filters =>
              /\ \A p \in page_visited : \A n \in ToSet(Layout[p]) : full_retset[n] > 0
              /\ \A i \in 1..Len(retset) : Expanded(retset[i].id)
<1> DEFINE r == Round
<1>1. /\ pc = "dispatch" /\ flying = {} /\ cached_node_id = <<>>
      /\ page_visited' = r.page_visited /\ cached_node_id' = r.cached
      /\ flying' = (Len(frontier) + 1)..(Len(frontier) + Len(r.reads))
  BY DispatchParts
<1>2. /\ n_io_in_q + Len(r.reads) = 0 /\ n_proc_in_q = 0
      /\ n_cached_in_q + Len(r.cached) = 0
  BY Zenon DEF LoopEnds
<1>3. r \in SelectState /\ RoundAt(Len(retset), r)
  BY RoundFacts
<1> HIDE DEF r
<1>4. /\ n_io_in_q \in Nat /\ n_cached_in_q \in Nat /\ Len(frontier) \in Nat
      /\ n_proc_in_q = Len(sector_buffers) /\ sector_buffers \in Seq(Nat)
      /\ Len(retset) \in Nat /\ retset \in ListOver(Nodes, pq) /\ page_visited \subseteq Pages
  BY <1>1, TypeFacts DEF Inv, ReadsInv, Traversal, TypeOK
<1>5. r.reads \in Seq([id : Nodes, pid : Pages]) /\ r.cached \in Seq(Nodes)
  BY <1>3 DEF SelectState
<1>6. Len(r.reads) \in Nat /\ Len(r.cached) \in Nat
  BY <1>5, LenProperties
<1>7. Len(r.reads) = 0 /\ Len(r.cached) = 0
  BY <1>2, <1>4, <1>6
<1>8. r.cached = <<>> /\ sector_buffers = <<>>
  BY <1>2, <1>4, <1>5, <1>7, EmptySeq
<1>9. flying' = {}
  BY <1>1, <1>4, <1>7
<1>10. page_visited' = page_visited
  <2>1. page_visited \subseteq r.page_visited
    BY <1>3 DEF RoundAt
  <2>2. ASSUME NEW p \in r.page_visited PROVE p \in page_visited
    <3>1. p \in page_visited \/ \E i \in 1..Len(r.reads) : r.reads[i].pid = p
      BY <1>3 DEF RoundAt
    <3>2. 1..Len(r.reads) = {}
      BY <1>7
    <3> QED BY <3>1, <3>2
  <2> QED BY <1>1, <2>1, <2>2
<1>11. \A i \in 1..Len(retset) : ~r.retset[i].flag /\ retset[i].id = r.retset[i].id
  <2>1. r.num_seen = 0 /\ BeamWidth \in Nat \ {0}
    BY <1>3, <1>7, ConstantFacts DEF RoundAt
  <2>2. \A i \in 1..Len(retset) : i <= Len(retset)
    OBVIOUS
  <2> QED BY <1>3, <2>1, <2>2 DEF RoundAt
<1>12. ASSUME ~Filters, NEW p \in page_visited, NEW n \in ToSet(Layout[p])
       PROVE  full_retset[n] > 0 /\ Expanded(n)
  <2>1. ~Pending(p)
    BY <1>1, <1>8 DEF Pending
  <2> QED BY <1>1, <1>12, <2>1 DEF Inv, TraversalInv, Traversal
<1>13. ASSUME ~Filters, NEW i \in 1..Len(retset) PROVE Expanded(retset[i].id)
  <2> DEFINE n == retset[i].id
  <2>1. \/ retset[i].flag \/ Expanded(n)
        \/ n \in ToSet(cached_node_id) \/ PageOf(n) \in page_visited
    BY <1>1, <1>13 DEF Inv, TraversalInv, Traversal
  <2>2. n \in Nodes
    BY <1>4, EntryType
  <2>3. retset[i].flag => n \in ToSet(r.cached) \/ PageOf(n) \in r.page_visited
    BY <1>3, <1>11 DEF RoundAt
  <2>4. ToSet(cached_node_id) = {} /\ ToSet(r.cached) = {}
    BY <1>1, <1>8 DEF ToSet
  <2>5. Expanded(n) \/ PageOf(n) \in page_visited
    BY <1>1, <1>10, <2>1, <2>3, <2>4
  <2>6. n \in ToSet(Layout[PageOf(n)])
    BY <2>2, PageOfFacts
  <2> QED BY <2>5, <2>6, <1>12, <1>13
<1> QED BY <1>1, <1>8, <1>9, <1>10, <1>11, <1>12, <1>13 DEF r

\* A round marks candidates and issues reads; when it is empty the traversal is
\* at its fixed point.
LEMMA DispatchKeeps ==
  ASSUME Inv, Dispatch
  PROVE  Inv'
<1> DEFINE r == Round
           L == Len(frontier)
<1>1. /\ pc = "dispatch" /\ RoundOpen /\ flying = {} /\ cached_node_id = <<>>
      /\ retset' = r.retset /\ page_visited' = r.page_visited
      /\ frontier' = frontier \o r.reads
      /\ flying' = (L + 1)..(L + Len(r.reads)) /\ n_io_in_q' = Len(r.reads)
      /\ cached_node_id' = r.cached /\ n_cached_in_q' = Len(r.cached)
      /\ pc' = IF LoopEnds(r) THEN "refine" ELSE "process"
      /\ UNCHANGED <<query_vars, visited, full_retset, sector_buffers, n_proc_in_q,
                     refine, results>>
  BY DispatchParts
<1>2. r \in SelectState /\ RoundAt(Len(retset), r)
  BY RoundFacts
<1>3. LoopEnds(r) =>
        /\ flying' = {} /\ page_visited' = page_visited
        /\ sector_buffers = <<>> /\ cached_node_id' = <<>>
        /\ \A i \in 1..Len(retset) : ~r.retset[i].flag /\ retset[i].id = r.retset[i].id
        /\ ~Filters =>
             /\ \A p \in page_visited : \A n \in ToSet(Layout[p]) : full_retset[n] > 0
             /\ \A i \in 1..Len(retset) : Expanded(retset[i].id)
  BY EmptyRound
<1> HIDE DEF r
<1>4. /\ L \in Nat /\ n_proc_in_q = Len(sector_buffers) /\ sector_buffers \in Seq(Nat)
      /\ \A i \in 1..Len(sector_buffers) : sector_buffers[i] \in 1..L
      /\ \A t \in 1..L : frontier[t].id \in Nodes /\ frontier[t].pid = PageOf(frontier[t].id)
      /\ frontier \in Seq([id : Nodes \cup {NoNode}, pid : Pages])
      /\ Len(retset) \in 1..LSearch /\ KeepsBest(retset, visited, pq)
      /\ retset \in ListOver(Nodes, pq) /\ page_visited \subseteq Pages
  BY <1>1, TypeFacts DEF Inv, ReadsInv, Traversal, TypeOK, ListInv, KeepsNearest
<1>5. /\ r.retset \in ListOver(Nodes, pq) /\ r.page_visited \subseteq Pages
      /\ r.reads \in Seq([id : Nodes, pid : Pages]) /\ r.cached \in Seq(Nodes)
  BY <1>2 DEF SelectState
<1>6. /\ Len(r.reads) \in Nat /\ Len(r.cached) \in Nat
      /\ \A i \in 1..Len(r.reads) : r.reads[i] \in [id : Nodes, pid : Pages]
  BY <1>5, LenProperties, ElementOfSeq
<1>7. /\ frontier' \in Seq([id : Nodes \cup {NoNode}, pid : Pages])
      /\ Len(frontier') = L + Len(r.reads)
      /\ \A t \in 1..L : t \in 1..Len(frontier') /\ frontier'[t] = frontier[t]
      /\ \A i \in 1..Len(r.reads) : /\ L + i \in 1..Len(frontier')
                                    /\ frontier'[L + i] = r.reads[i]
      /\ \A t \in 1..Len(frontier') : t \in 1..L \/ \E i \in 1..Len(r.reads) : t = L + i
  <2> DEFINE both == frontier \o r.reads
  <2>1. r.reads \in Seq([id : Nodes \cup {NoNode}, pid : Pages])
    <3> DEFINE F == [id : Nodes \cup {NoNode}, pid : Pages]
    <3>1. r.reads = [i \in 1..Len(r.reads) |-> r.reads[i]]
      BY <1>5
    <3>2. \A i \in 1..Len(r.reads) : r.reads[i] \in F
      BY <1>6
    <3> HIDE DEF F
    <3>3. r.reads \in [1..Len(r.reads) -> F]
      BY <3>1, <3>2
    <3>4. r.reads \in Seq(F)
      BY <1>6, <3>3
    <3> QED BY <3>4 DEF F
  <2>2. frontier \in Seq([id : Nodes \cup {NoNode}, pid : Pages])
    BY <1>4
  <2>3. /\ both \in Seq([id : Nodes \cup {NoNode}, pid : Pages])
        /\ Len(both) = L + Len(r.reads)
        /\ \A i \in 1..L : i \in 1..Len(both) /\ both[i] = frontier[i]
        /\ \A i \in 1..Len(r.reads) : L + i \in 1..Len(both) /\ both[L + i] = r.reads[i]
        /\ \A i \in 1..Len(both) : i \in 1..L \/ \E j \in 1..Len(r.reads) : i = L + j
    BY ONLY <2>1, <2>2, Joined
  <2> HIDE DEF both
  <2>4. frontier' = both
    BY <1>1 DEF both
  <2> QED BY <2>3, <2>4
<1> HIDE DEF L
<1>8. /\ Len(r.retset) = Len(retset)
      /\ \A i \in 1..Len(retset) :
           /\ r.retset[i].id = retset[i].id /\ r.retset[i].distance = retset[i].distance
           /\ \/ r.retset[i].flag
              \/ ~retset[i].flag
              \/ retset[i].id \in ToSet(r.cached) \/ PageOf(retset[i].id) \in r.page_visited
           /\ r.retset[i].flag => retset[i].flag
      /\ page_visited \subseteq r.page_visited
      /\ \A p \in r.page_visited : p \in page_visited \/ \E i \in 1..Len(r.reads) : r.reads[i].pid = p
      /\ \A i \in 1..Len(r.reads) : r.reads[i].pid = PageOf(r.reads[i].id)
  BY <1>2 DEF RoundAt
<1>9. flying' \subseteq 1..Len(frontier') /\ IsFiniteSet(flying')
      /\ Cardinality(flying') = Len(r.reads)
  <2> DEFINE a == L + 1
             b == L + Len(r.reads)
  <2>1. a \in Int /\ b \in Int
    BY <1>4, <1>6
  <2> HIDE DEF a, b
  <2>2. IsFiniteSet(a..b) /\ Cardinality(a..b) = IF a > b THEN 0 ELSE b - a + 1
    BY <2>1, FS_Interval
  <2> USE DEF a, b
  <2>3. flying' = a..b /\ a..b \subseteq 1..Len(frontier')
    BY <1>1, <1>4, <1>6, <1>7
  <2>4. IF a > b THEN Len(r.reads) = 0 ELSE b - a + 1 = Len(r.reads)
    BY <1>4, <1>6
  <2> HIDE DEF a, b
  <2> QED BY <2>2, <2>3, <2>4
<1>10. TypeOK'
  BY <1>1, <1>4, <1>5, <1>6, <1>7, <1>9
     DEF Inv, TypeOK, Traversal, query_vars, refine, results
<1>11. ListInv'
  <2>1. KeepsBest(r.retset, visited, pq)
    <3>1. Len(retset) \in Nat \ {0}
      BY <1>4
    <3> QED BY <1>4, <1>8, <3>1, SameEntries
  <2>2. pc' # "start"
    BY <1>1
  <2> QED BY <1>1, <1>4, <1>8, <2>1, <2>2 DEF ListInv, KeepsNearest, query_vars
<1>12. ReadsInv'
  <2>1. \A t \in 1..Len(frontier') :
          frontier'[t].id \in Nodes /\ frontier'[t].pid = PageOf(frontier'[t].id)
    <3> SUFFICES ASSUME NEW t \in 1..Len(frontier')
                 PROVE  frontier'[t].id \in Nodes /\ frontier'[t].pid = PageOf(frontier'[t].id)
      OBVIOUS
    <3>1. CASE t \in 1..L
      BY <3>1, <1>4, <1>7
    <3>2. CASE \E i \in 1..Len(r.reads) : t = L + i
      <4>1. PICK i \in 1..Len(r.reads) : t = L + i
        BY <3>2
      <4>2. frontier'[t] = r.reads[i] /\ r.reads[i].id \in Nodes
            /\ r.reads[i].pid = PageOf(r.reads[i].id)
        BY <4>1, <1>6, <1>7, <1>8
      <4> QED BY <4>2
    <3> QED BY <3>1, <3>2, <1>7
  <2>2. \A i \in 1..Len(sector_buffers') : sector_buffers'[i] \in 1..Len(frontier')
    BY <1>1, <1>4, <1>7
  <2>3. n_io_in_q' = Cardinality(flying') /\ n_proc_in_q' = Len(sector_buffers')
        /\ n_cached_in_q' = Len(cached_node_id')
    BY <1>1, <1>4, <1>9
  <2> QED BY <1>1, <1>3, <2>1, <2>2, <2>3 DEF ReadsInv, Refined
<1>13. Filters' <=> Filters
  BY <1>1 DEF Filters, query_vars
<1>14. ASSUME ~Filters, NEW p \in page_visited'
       PROVE  Pending(p)' \/ \A n \in ToSet(Layout[p]) : full_retset[n] > 0 /\ Expanded(n)
  <2>1. CASE p \in page_visited /\ Pending(p)
    <3>1. PICK t \in 1..L :
            /\ frontier[t].pid = p
            /\ t \in flying \/ \E i \in 1..Len(sector_buffers) : sector_buffers[i] = t
      BY <2>1 DEF Pending, L
    <3>2. \E i \in 1..Len(sector_buffers') : sector_buffers'[i] = t
      BY <1>1, <3>1
    <3> QED BY <1>7, <3>1, <3>2 DEF Pending
  <2>2. CASE p \in page_visited /\ ~Pending(p)
    BY <1>1, <1>14, <2>2 DEF Inv, TraversalInv, Traversal
  <2>3. CASE \E i \in 1..Len(r.reads) : r.reads[i].pid = p
    <3>1. PICK i \in 1..Len(r.reads) : r.reads[i].pid = p
      BY <2>3
    <3>2. L + i \in flying'
      BY <1>1, <1>4, <1>6
    <3> QED BY <1>7, <3>1, <3>2 DEF Pending
  <2> QED BY <1>1, <1>8, <2>1, <2>2, <2>3
<1>15. ASSUME ~Filters, NEW i \in 1..Len(retset)
       PROVE  \/ r.retset[i].flag \/ Expanded(r.retset[i].id)
              \/ r.retset[i].id \in ToSet(r.cached) \/ PageOf(r.retset[i].id) \in r.page_visited
  <2>1. \/ retset[i].flag \/ Expanded(retset[i].id)
        \/ retset[i].id \in ToSet(cached_node_id) \/ PageOf(retset[i].id) \in page_visited
    BY <1>1, <1>15 DEF Inv, TraversalInv, Traversal
  <2>2. ToSet(cached_node_id) = {}
    BY <1>1 DEF ToSet
  <2> QED BY <1>8, <2>1, <2>2
<1>16. TraversalInv'
  <2>1. ASSUME ~Filters', NEW p \in page_visited'
        PROVE  \/ Pending(p)'
               \/ \A n \in ToSet(Layout[p]) : full_retset'[n] > 0 /\ Expanded(n)'
    BY <1>1, <1>13, <1>14, <2>1 DEF Expanded
  <2>2. ASSUME ~Filters', NEW i \in 1..Len(retset')
        PROVE  \/ retset'[i].flag \/ ToSet(Nbrs[retset'[i].id]) \subseteq visited'
               \/ retset'[i].id \in ToSet(cached_node_id')
               \/ PageOf(retset'[i].id) \in page_visited'
    <3>1. i \in 1..Len(retset)
      BY <1>1, <1>8
    <3>2. \/ r.retset[i].flag \/ Expanded(r.retset[i].id)
          \/ r.retset[i].id \in ToSet(r.cached) \/ PageOf(r.retset[i].id) \in r.page_visited
      BY <1>13, <1>15, <2>2, <3>1
    <3> QED BY <1>1, <3>2 DEF Expanded
  <2>3. TraversalClosed'
    <3> SUFFICES ASSUME pc' = "refine", ~Filters', NEW i \in 1..Len(retset')
                 PROVE  ~retset'[i].flag /\ ToSet(Nbrs[retset'[i].id]) \subseteq visited'
      BY <1>1 DEF TraversalClosed, Traversal, Expanded
    <3>1. LoopEnds(r) /\ i \in 1..Len(retset)
      BY <1>1, <1>8
    <3>2. ~r.retset[i].flag /\ Expanded(r.retset[i].id)
      BY <1>3, <1>13, <3>1
    <3> QED BY <1>1, <3>2 DEF Expanded
  <2> QED BY <2>1, <2>2, <2>3 DEF TraversalInv, Expanded
<1>17. RefineInv'
  BY <1>1, <1>3, <1>13 DEF RefineInv, CandidatesEvaluated, Refined
<1>18. AnswerInv'
  BY <1>1, NoAnswerYet DEF Refined, results, query_vars
<1> QED BY <1>10, <1>11, <1>12, <1>16, <1>17, <1>18 DEF Inv

\* The states of a batch of the refinement.
BatchState ==
  [page_visited : SUBSET Pages, vectors : Seq(Nodes),
   reads : Seq([id : Nodes \cup {NoNode}, pid : Pages])]

\* After j candidates of a batch: every new page has its read, and each candidate
\* is evaluated, will be from memory, or has its page read.
BatchAt(j, s) ==
  /\ Len(s.reads) <= j
  /\ page_visited \subseteq s.page_visited
  /\ \A p \in s.page_visited : p \in page_visited \/ \E r \in 1..Len(s.reads) : s.reads[r].pid = p
  /\ \A i \in 1..j : \/ CandidateId(l_idx + i) \in exact_visited
                     \/ PageOf(CandidateId(l_idx + i)) \in s.page_visited
                     \/ CandidateId(l_idx + i) \in ToSet(s.vectors)

\* Behind the list there are entries of node 0.
LEMMA CandidateIsNode ==
  ASSUME Inv, NEW i \in Nat \ {0}
  PROVE  CandidateId(i) \in Nodes
<1>1. retset \in ListOver(Nodes, pq) /\ Len(retset) \in Nat /\ 0 \in Nodes
  BY TypeFacts, ConstantFacts DEF Inv, TypeOK
<1>2. CASE i <= Len(retset)
  <2>1. i \in 1..Len(retset)
    BY <1>1, <1>2
  <2> QED BY <1>1, <1>2, <2>1, EntryType DEF CandidateId
<1>3. CASE ~(i <= Len(retset))
  BY <1>1, <1>3 DEF CandidateId
<1> QED BY <1>2, <1>3

\* A candidate is asked for.
LEMMA RequestKeeps ==
  ASSUME Inv, NEW j \in Nat \ {0}, NEW s \in BatchState, BatchAt(j - 1, s)
  PROVE  Request(s, l_idx + j) \in BatchState /\ BatchAt(j, Request(s, l_idx + j))
<1> DEFINE n == CandidateId(l_idx + j)
           t == Request(s, l_idx + j)
           F == [id : Nodes \cup {NoNode}, pid : Pages]
           Made(p, v, r) == [page_visited |-> p, vectors |-> v, reads |-> r]
<1>1. n \in Nodes /\ PageOf(n) \in Pages
  <2>1. l_idx \in Nat
    BY DEF Inv, TypeOK
  <2>2. l_idx + j \in Nat \ {0}
    BY <2>1
  <2>3. n \in Nodes
    BY <2>2, CandidateIsNode
  <2> QED BY <2>3, PageOfFacts
<1>2. /\ s.page_visited \subseteq Pages /\ s.vectors \in Seq(Nodes) /\ s.reads \in Seq(F)
  BY DEF BatchState
<1>3. /\ Len(s.reads) <= j - 1 /\ page_visited \subseteq s.page_visited
      /\ \A p \in s.page_visited : p \in page_visited \/ \E r \in 1..Len(s.reads) : s.reads[r].pid = p
      /\ \A i \in 1..(j - 1) : \/ CandidateId(l_idx + i) \in exact_visited
                               \/ PageOf(CandidateId(l_idx + i)) \in s.page_visited
                               \/ CandidateId(l_idx + i) \in ToSet(s.vectors)
  BY DEF BatchAt
<1>4. \A i \in 1..j : i \in 1..(j - 1) \/ i = j
  OBVIOUS
<1> HIDE DEF F
<1>8. Len(s.reads) <= j /\ Len(s.reads) + 1 <= j
  <2>1. Len(s.reads) \in Nat
    BY <1>2, LenProperties
  <2> QED BY <1>3, <2>1
<1>5. CASE ~NeedsVector(s, n)
  <2>1. t = s
    BY <1>5 DEF Request
  <2>2. n \in exact_visited \/ PageOf(n) \in s.page_visited
    BY <1>5 DEF NeedsVector
  <2>3. BatchAt(j, s)
    BY <1>3, <1>4, <1>8, <2>2 DEF BatchAt
  <2> QED BY <2>1, <2>3
<1>6. CASE NeedsVector(s, n) /\ n \in MemEmb
  <2> DEFINE more == Append(s.vectors, n)
             u == Made(s.page_visited, more, s.reads)
  <2>1. t = u
    <3>1. t = [s EXCEPT !.vectors = more]
      BY <1>6 DEF Request
    <3> HIDE DEF more
    <3> QED BY <3>1 DEF BatchState
  <2>2. more \in Seq(Nodes) /\ n \in ToSet(more) /\ ToSet(s.vectors) \subseteq ToSet(more)
    BY <1>1, <1>2, Appended
  <2> HIDE DEF more
  <2>3. u \in BatchState
    BY <1>2, <2>2 DEF BatchState, F
  <2>4. BatchAt(j, u)
    BY <1>3, <1>4, <1>8, <2>2 DEF BatchAt
  <2> HIDE DEF t, u
  <2> QED BY <2>1, <2>3, <2>4 DEF t
<1>7. CASE NeedsVector(s, n) /\ n \notin MemEmb
  <2> DEFINE read == [id |-> NoNode, pid |-> PageOf(n)]
             more == Append(s.reads, read)
             pages == s.page_visited \cup {PageOf(n)}
             u == Made(pages, s.vectors, more)
  <2>1. t = u
    <3>1. t = [s EXCEPT !.reads = more, !.page_visited = pages]
      BY <1>7 DEF Request
    <3> HIDE DEF more, pages
    <3> QED BY <3>1 DEF BatchState
  <2>2. read \in F /\ read.pid = PageOf(n)
    BY <1>1 DEF F
  <2> HIDE DEF read
  <2>3. /\ more \in Seq(F) /\ Len(more) = Len(s.reads) + 1 /\ Len(s.reads) \in Nat
        /\ more[Len(s.reads) + 1] = read
        /\ \A r \in 1..Len(s.reads) : more[r] = s.reads[r]
    BY <1>2, <2>2, AppendProperties, LenProperties
  <2> HIDE DEF more
  <2>4. \A p \in pages : p \in page_visited \/ \E r \in 1..Len(more) : more[r].pid = p
    <3>1. \A r \in 1..Len(s.reads) : r \in 1..Len(more)
      BY <2>3
    <3>2. Len(s.reads) + 1 \in 1..Len(more) /\ more[Len(s.reads) + 1].pid = PageOf(n)
      BY <2>2, <2>3
    <3> QED BY <1>3, <2>3, <3>1, <3>2
  <2>5. u \in BatchState
    BY <1>1, <1>2, <2>3 DEF BatchState, F
  <2>6. BatchAt(j, u)
    BY <1>3, <1>4, <1>8, <2>3, <2>4 DEF BatchAt
  <2> HIDE DEF t, u
  <2> QED BY <2>1, <2>5, <2>6 DEF t
<1> QED BY <1>5, <1>6, <1>7

\* The loop that enters nodes in full_retset.
PushFold == INSTANCE CandidateListProofs WITH Op <- Push

\* Evaluating one node after the other.
LEMMA PushAllKeeps ==
  ASSUME full_retset \in [Nodes -> Nat], NEW v \in Seq(Nodes)
  PROVE  LET f == FoldLeft(Push, full_retset, v)
         IN  /\ f \in [Nodes -> Nat] /\ \A n \in Nodes : full_retset[n] <= f[n]
             /\ \A n \in ToSet(v) : f[n] > 0
<1> DEFINE k == Len(v)
           S == [i \in 0..k |->
                  {f \in [Nodes -> Nat] : /\ \A n \in Nodes : full_retset[n] <= f[n]
                                          /\ \A j \in 1..i : f[v[j]] > 0}]
<1>1. k \in Nat /\ DOMAIN v = 1..k /\ \A i \in 1..k : v[i] \in Nodes
  BY LenProperties, ElementOfSeq
<1>2. full_retset \in S[0]
  <2>1. \A n \in Nodes : full_retset[n] \in Nat
    OBVIOUS
  <2> QED BY <1>1, <2>1
<1>3. ASSUME NEW i \in 1..k, NEW f \in S[i - 1] PROVE Push(f, v[i]) \in S[i]
  <2> DEFINE g == Push(f, v[i])
  <2>1. i - 1 \in 0..k /\ i \in 0..k /\ v[i] \in Nodes
    BY <1>1
  <2>2. /\ f \in [Nodes -> Nat] /\ \A n \in Nodes : full_retset[n] <= f[n]
        /\ \A j \in 1..(i - 1) : f[v[j]] > 0
    BY <2>1
  <2>3. g \in [Nodes -> Nat] /\ g[v[i]] = f[v[i]] + 1 /\ \A n \in Nodes : f[n] <= g[n]
    BY <2>1, <2>2 DEF Push
  <2> HIDE DEF g
  <2>4. \A n \in Nodes : full_retset[n] <= g[n]
    <3>1. \A n \in Nodes : full_retset[n] \in Nat /\ f[n] \in Nat /\ g[n] \in Nat
      BY <2>2, <2>3
    <3> QED BY <3>1, <2>2, <2>3
  <2>5. \A j \in 1..i : g[v[j]] > 0
    <3> SUFFICES ASSUME NEW j \in 1..i PROVE g[v[j]] > 0
      OBVIOUS
    <3>1. v[j] \in Nodes /\ f[v[j]] \in Nat /\ g[v[j]] \in Nat /\ f[v[j]] <= g[v[j]]
      BY <1>1, <2>2, <2>3
    <3>2. j \in 1..(i - 1) \/ j = i
      OBVIOUS
    <3> QED BY <3>1, <3>2, <2>2, <2>3
  <2> QED BY <2>1, <2>3, <2>4, <2>5 DEF g
<1> HIDE DEF S, k
<1>4. PushFold!FoldLeft(Push, full_retset, v) \in S[k]
  BY <1>1, <1>2, <1>3, PushFold!FoldKeeps
<1> DEFINE f == FoldLeft(Push, full_retset, v)
<1>5. f = PushFold!FoldLeft(Push, full_retset, v)
  BY Zenon DEF FoldLeft, MapThenFoldSet, Max, PushFold!FoldLeft,
               PushFold!MapThenFoldSet, PushFold!Max
<1> HIDE DEF f
<1>6. f \in S[k]
  BY <1>4, <1>5
<1>7. ToSet(v) = {v[i] : i \in 1..k}
  BY <1>1 DEF ToSet
<1>8. /\ f \in [Nodes -> Nat] /\ \A n \in Nodes : full_retset[n] <= f[n]
      /\ \A j \in 1..k : f[v[j]] > 0
  BY <1>1, <1>6 DEF S
<1> QED BY <1>7, <1>8 DEF f

\* The requests of a batch.
Batch ==
  FoldLeft(Request, [page_visited |-> page_visited, vectors |-> <<>>, reads |-> <<>>],
           [i \in 1..BatchSize |-> l_idx + i])

\* The loop over the candidates of a batch.
RequestFold == INSTANCE CandidateListProofs WITH Op <- Request

LEMMA BatchFacts ==
  ASSUME Inv, l_idx < embedding_search_L
  PROVE  BatchSize \in Nat /\ Batch \in BatchState /\ BatchAt(BatchSize, Batch)
<1> DEFINE k == BatchSize
           b == [page_visited |-> page_visited, vectors |-> <<>>, reads |-> <<>>]
           q == [i \in 1..k |-> l_idx + i]
           S == [i \in 0..k |-> {s \in BatchState : BatchAt(i, s)}]
<1>1. k \in Nat
  <2>1. l_idx \in Nat /\ embedding_search_L \in Nat /\ MaxReads \in Nat
    BY ConstantFacts DEF Inv, TypeOK
  <2> QED BY <2>1 DEF BatchSize
<1>2. DOMAIN q = 1..k /\ \A i \in 1..k : q[i] = l_idx + i
  OBVIOUS
<1>3. b \in S[0]
  <2>1. page_visited \subseteq Pages
    BY DEF Inv, TypeOK
  <2>2. b \in BatchState
    BY <2>1 DEF BatchState
  <2>3. BatchAt(0, b)
    BY DEF BatchAt
  <2> HIDE DEF b
  <2> QED BY <1>1, <2>2, <2>3
<1> HIDE DEF q
<1>4. ASSUME NEW i \in 1..k, NEW s \in S[i - 1] PROVE Request(s, q[i]) \in S[i]
  <2> DEFINE t == Request(s, l_idx + i)
  <2> HIDE DEF k
  <2>1. i - 1 \in 0..k /\ i \in 0..k /\ i \in Nat \ {0}
    BY <1>1
  <2>2. s \in BatchState /\ BatchAt(i - 1, s)
    BY <2>1
  <2>3. t \in BatchState /\ BatchAt(i, t)
    BY <2>1, <2>2, RequestKeeps
  <2> HIDE DEF t
  <2> QED BY <1>2, <2>1, <2>3 DEF t
<1> HIDE DEF S, k
<1>5. RequestFold!FoldLeft(Request, b, q) \in S[k]
  BY <1>1, <1>2, <1>3, <1>4, RequestFold!FoldKeeps
<1>6. Batch = RequestFold!FoldLeft(Request, b, q)
  BY Zenon DEF Batch, b, q, k, FoldLeft, MapThenFoldSet, Max, RequestFold!FoldLeft,
               RequestFold!MapThenFoldSet, RequestFold!Max
<1> HIDE DEF b
<1>7. Batch \in S[k]
  BY <1>5, <1>6
<1> QED BY <1>1, <1>7 DEF S, k

\* A batch of the refinement is submitted: every page it needs is in flight, and
\* its candidates are evaluated or on a page that someone reads or has read.
LEMMA SubmitEmbeddingsKeeps ==
  ASSUME Inv, SubmitEmbeddings
  PROVE  Inv'
<1> DEFINE r == Batch
           L == Len(frontier)
<1>1. /\ pc = "embed" /\ pc' = "drain" /\ l_idx < embedding_search_L
      /\ page_visited' = r.page_visited /\ frontier' = frontier \o r.reads
      /\ flying' = flying \cup (L + 1)..(L + Len(r.reads))
      /\ n_ops' = Len(r.reads) /\ full_retset' = FoldLeft(Push, full_retset, r.vectors)
      /\ l_idx' = l_idx + BatchSize
      /\ UNCHANGED <<query_vars, retset, visited, sector_buffers, cached, n_io_in_q,
                     n_proc_in_q, embedding_search_L, results>>
  BY Zenon DEF SubmitEmbeddings, Batch
<1>2. BatchSize \in Nat /\ r \in BatchState /\ BatchAt(BatchSize, r)
  BY <1>1, BatchFacts
<1> HIDE DEF r
<1>3. /\ r.page_visited \subseteq Pages /\ r.vectors \in Seq(Nodes)
      /\ r.reads \in Seq([id : Nodes \cup {NoNode}, pid : Pages])
  BY <1>2 DEF BatchState
<1>4. /\ frontier \in Seq([id : Nodes \cup {NoNode}, pid : Pages]) /\ flying = {}
      /\ full_retset \in [Nodes -> Nat] /\ l_idx \in Nat /\ Len(retset) \in Nat
      /\ retset \in ListOver(Nodes, pq) /\ page_visited \subseteq Pages /\ visited \subseteq Nodes
      /\ L \in Nat
  BY <1>1, TypeFacts DEF Inv, ReadsInv, TypeOK
<1>5. /\ full_retset' \in [Nodes -> Nat] /\ \A n \in Nodes : full_retset[n] <= full_retset'[n]
      /\ \A n \in ToSet(r.vectors) : full_retset'[n] > 0
  BY <1>1, <1>3, <1>4, PushAllKeeps
<1>6. \A n \in Nodes : full_retset[n] > 0 => full_retset'[n] > 0
  BY <1>4, <1>5
<1>7. /\ frontier' \in Seq([id : Nodes \cup {NoNode}, pid : Pages])
      /\ \A t \in 1..L : t \in 1..Len(frontier') /\ frontier'[t] = frontier[t]
      /\ \A i \in 1..Len(r.reads) : /\ L + i \in 1..Len(frontier')
                                    /\ frontier'[L + i] = r.reads[i]
  <2> DEFINE both == frontier \o r.reads
             F == [id : Nodes \cup {NoNode}, pid : Pages]
  <2>1. frontier \in Seq(F) /\ r.reads \in Seq(F)
    BY <1>3, <1>4
  <2> HIDE DEF F
  <2>2. /\ both \in Seq(F) /\ Len(both) = L + Len(r.reads)
        /\ \A i \in 1..L : i \in 1..Len(both) /\ both[i] = frontier[i]
        /\ \A i \in 1..Len(r.reads) : L + i \in 1..Len(both) /\ both[L + i] = r.reads[i]
        /\ \A i \in 1..Len(both) : i \in 1..L \/ \E j \in 1..Len(r.reads) : i = L + j
    BY ONLY <2>1, Joined
  <2> HIDE DEF both
  <2>3. frontier' = both
    BY <1>1 DEF both
  <2> QED BY <2>2, <2>3 DEF F
<1>8. /\ flying' \subseteq 1..Len(frontier') /\ Cardinality(flying') = Len(r.reads)
      /\ \A i \in 1..Len(r.reads) : L + i \in flying'
      /\ Len(r.reads) \in Nat
  <2> DEFINE w == (L + 1)..(L + Len(r.reads))
             F == [id : Nodes \cup {NoNode}, pid : Pages]
  <2>1. frontier \in Seq(F) /\ r.reads \in Seq(F)
    BY <1>3, <1>4
  <2> HIDE DEF F
  <2>2. /\ w \subseteq 1..Len(frontier \o r.reads) /\ Cardinality(w) = Len(r.reads)
        /\ \A i \in 1..Len(r.reads) : L + i \in w
    BY ONLY <2>1, Issued
  <2>3. Len(r.reads) \in Nat
    BY <2>1, LenProperties
  <2>4. flying' = w /\ frontier' = frontier \o r.reads
    BY <1>1, <1>4
  <2> HIDE DEF w, L
  <2>5. flying' \subseteq 1..Len(frontier')
    BY Zenon, <2>2, <2>4
  <2>6. Cardinality(flying') = Len(r.reads)
    BY Zenon, <2>2, <2>4
  <2>7. \A i \in 1..Len(r.reads) : L + i \in flying'
    BY Zenon, <2>2, <2>4
  <2> QED BY <2>3, <2>5, <2>6, <2>7
<1> HIDE DEF L
<1>9. TypeOK'
  <2>1. l_idx' \in Nat /\ n_ops' \in Nat /\ page_visited' \subseteq Pages
    BY <1>1, <1>2, <1>3, <1>4, <1>8
  <2>2. pc' \in {"drain"} /\ full_retset' \in [Nodes -> Nat] /\ flying' \subseteq 1..Len(frontier')
        /\ frontier' \in Seq([id : Nodes \cup {NoNode}, pid : Pages])
    BY <1>1, <1>5, <1>7, <1>8
  <2>3. UNCHANGED <<opt, pq, exact, retset, visited, sector_buffers, cached_node_id, n_cached_in_q,
                    n_io_in_q, n_proc_in_q, embedding_search_L, sorted, previous, indices>>
    BY <1>1 DEF query_vars, cached, results
  <2> QED BY <2>1, <2>2, <2>3 DEF Inv, TypeOK
<1>10. ListInv'
  BY <1>1, ListUnchanged DEF query_vars
<1>11. ReadsInv'
  BY <1>1, <1>8 DEF ReadsInv, Traversal, Refined
<1>12. TraversalInv'
  BY <1>1 DEF Inv, TraversalInv, Traversal, TraversalClosed, Filters, Expanded, query_vars
<1>13. ASSUME ~Filters, NEW p \in page_visited'
       PROVE  \/ \E t \in flying' : frontier'[t].pid = p
              \/ \A n \in visited \cap ToSet(Layout[p]) : full_retset'[n] > 0
  <2>1. CASE p \in page_visited
    <3>1. \A n \in visited \cap ToSet(Layout[p]) : full_retset[n] > 0
      BY <1>1, <1>4, <1>13, <2>1 DEF Inv, RefineInv
    <3> QED BY <1>4, <1>6, <3>1
  <2>2. CASE \E i \in 1..Len(r.reads) : r.reads[i].pid = p
    <3>1. PICK i \in 1..Len(r.reads) : r.reads[i].pid = p
      BY <2>2
    <3>2. L + i \in flying' /\ frontier'[L + i].pid = p
      BY <1>7, <1>8, <3>1
    <3> QED BY <3>2
  <2> QED BY <1>1, <1>2, <2>1, <2>2 DEF BatchAt
<1>14. ASSUME NEW i \in 1..Len(retset), i <= l_idx + BatchSize
       PROVE  full_retset'[retset[i].id] > 0 \/ PageOf(retset[i].id) \in page_visited'
  <2> DEFINE n == retset[i].id
  <2>1. n \in Nodes
    BY <1>4, EntryType
  <2> HIDE DEF n
  <2>2. page_visited \subseteq page_visited'
    BY <1>1, <1>2 DEF BatchAt
  <2>3. CASE i <= l_idx
    <3>1. full_retset[n] > 0 \/ PageOf(n) \in page_visited
      BY <1>1, <2>3 DEF Inv, RefineInv, n
    <3> QED BY <1>6, <2>1, <2>2, <3>1 DEF n
  <2>4. CASE i > l_idx
    <3> DEFINE j == i - l_idx
    <3>1. j \in 1..BatchSize /\ l_idx + j = i
      BY <1>2, <1>4, <1>14, <2>4
    <3>2. CandidateId(i) = n
      BY <1>4 DEF CandidateId, n
    <3> HIDE DEF j
    <3>3. n \in exact_visited \/ PageOf(n) \in r.page_visited \/ n \in ToSet(r.vectors)
      BY <1>2, <3>1, <3>2 DEF BatchAt
    <3>4. n \in exact_visited => full_retset'[n] > 0
      BY <1>6, <2>1 DEF exact_visited
    <3> QED BY <1>1, <1>5, <3>3, <3>4 DEF n
  <2> QED BY <1>4, <2>3, <2>4
<1>15. RefineInv'
  <2>1. Filters' <=> Filters
    BY <1>1 DEF Filters, query_vars
  <2>2. ASSUME ~Filters', NEW p \in page_visited'
        PROVE  \/ \E t \in flying' : frontier'[t].pid = p
               \/ \A n \in visited' \cap ToSet(Layout[p]) : full_retset'[n] > 0
    BY <1>1, <1>13, <2>1, <2>2
  <2>3. ASSUME NEW i \in 1..Len(retset'), i <= l_idx'
        PROVE  full_retset'[retset'[i].id] > 0 \/ PageOf(retset'[i].id) \in page_visited'
    BY <1>1, <1>14, <2>3
  <2> QED BY <1>1, <2>2, <2>3 DEF RefineInv, CandidatesEvaluated, Refined
<1>16. AnswerInv'
  BY <1>1, NoAnswerYet DEF Refined, results, query_vars
<1> QED BY <1>9, <1>10, <1>11, <1>12, <1>15, <1>16 DEF Inv

\* Pages of the batch have come: their visited nodes are evaluated.
LEMMA DrainEmbeddingsKeeps ==
  ASSUME Inv, NEW finished \in SUBSET flying, DrainEmbeddings(finished)
  PROVE  Inv'
<1> DEFINE seen == {n \in visited : \E t \in finished : PageOf(n) = frontier[t].pid}
<1>1. /\ pc = "drain" /\ pc' = "drain" /\ Cardinality(finished) \in 1..n_ops
      /\ full_retset' = [n \in Nodes |-> full_retset[n] + IF n \in seen THEN 1 ELSE 0]
      /\ flying' = flying \ finished /\ n_ops' = n_ops - Cardinality(finished)
      /\ UNCHANGED <<query_vars, retset, visited, page_visited, frontier, sector_buffers,
                     cached, n_io_in_q, n_proc_in_q, embedding_search_L, l_idx, results>>
  BY DEF DrainEmbeddings
<1>2. /\ flying \subseteq 1..Len(frontier) /\ IsFiniteSet(flying) /\ n_ops = Cardinality(flying)
      /\ full_retset \in [Nodes -> Nat] /\ visited \subseteq Nodes /\ page_visited \subseteq Pages
      /\ n_ops \in Nat /\ retset \in ListOver(Nodes, pq)
  BY <1>1, TypeFacts DEF Inv, ReadsInv, TypeOK
<1>3. Cardinality(flying \ finished) = n_ops - Cardinality(finished)
  <2>1. IsFiniteSet(finished) /\ IsFiniteSet(flying \ finished)
    <3>1. flying \ finished \in SUBSET flying
      OBVIOUS
    <3> QED BY <1>2, <3>1, FS_Subset
  <2>2. finished \cup (flying \ finished) = flying /\ finished \cap (flying \ finished) = {}
    OBVIOUS
  <2>3. Cardinality(flying) =
          Cardinality(finished) + Cardinality(flying \ finished) - Cardinality({})
    BY <2>1, <2>2, FS_Union
  <2>4. Cardinality({}) = 0 /\ Cardinality(flying \ finished) \in Nat /\ Cardinality(finished) \in Nat
    BY <2>1, FS_EmptySet, FS_CardinalityType
  <2> QED BY <1>2, <2>3, <2>4
<1>4. /\ full_retset' \in [Nodes -> Nat]
      /\ \A n \in Nodes : full_retset[n] > 0 => full_retset'[n] > 0
      /\ \A n \in seen : full_retset'[n] > 0
  BY <1>1, <1>2
<1> HIDE DEF seen
<1>5. TypeOK'
  <2>1. flying' \subseteq 1..Len(frontier) /\ n_ops' \in Nat
    BY <1>1, <1>2
  <2> QED BY <1>1, <1>4, <2>1 DEF Inv, TypeOK, query_vars, cached, results
<1>6. ListInv'
  BY <1>1, ListUnchanged DEF query_vars
<1>7. ReadsInv'
  BY <1>1, <1>2, <1>3 DEF ReadsInv, Traversal, Refined
<1>8. TraversalInv'
  BY <1>1 DEF Inv, TraversalInv, Traversal, TraversalClosed, Filters, Expanded, query_vars
<1>9. ASSUME ~Filters, NEW p \in page_visited
      PROVE  \/ \E t \in flying' : frontier[t].pid = p
             \/ \A n \in visited \cap ToSet(Layout[p]) : full_retset'[n] > 0
  <2>1. CASE \A n \in visited \cap ToSet(Layout[p]) : full_retset[n] > 0
    BY <1>2, <1>4, <2>1
  <2>2. CASE \E t \in flying : frontier[t].pid = p
    <3>1. PICK t \in flying : frontier[t].pid = p
      BY <2>2
    <3>2. CASE t \in finished
      <4>1. p \in Pages
        BY <1>2
      <4>2. \A n \in visited \cap ToSet(Layout[p]) : PageOf(n) = p
        BY <4>1, PageNodes
      <4>3. \A n \in visited \cap ToSet(Layout[p]) : n \in seen
        BY <3>1, <3>2, <4>2 DEF seen
      <4> QED BY <4>3, <1>4
    <3>3. CASE t \notin finished
      BY <1>1, <3>1, <3>3
    <3> QED BY <3>2, <3>3
  <2> QED BY <1>1, <1>9, <2>1, <2>2 DEF Inv, RefineInv
<1>10. ASSUME NEW i \in 1..Len(retset), i <= l_idx
       PROVE  full_retset'[retset[i].id] > 0 \/ PageOf(retset[i].id) \in page_visited
  <2>1. retset[i].id \in Nodes
    BY <1>2, EntryType
  <2>2. full_retset[retset[i].id] > 0 \/ PageOf(retset[i].id) \in page_visited
    BY <1>1, <1>10 DEF Inv, RefineInv
  <2> QED BY <1>4, <2>1, <2>2
<1>11. RefineInv'
  <2>1. Filters' <=> Filters
    BY <1>1 DEF Filters, query_vars
  <2> QED BY <1>1, <1>9, <1>10, <2>1 DEF RefineInv, CandidatesEvaluated, Refined
<1>12. AnswerInv'
  BY <1>1, NoAnswerYet DEF Refined, results, query_vars
<1> QED BY <1>5, <1>6, <1>7, <1>8, <1>11, <1>12 DEF Inv

\* Every step keeps the invariant.
LEMMA NextInv ==
  ASSUME Inv, [Next]_vars
  PROVE  Inv'
<1>1. CASE \E list \in StartLists : StartQuery(list)
  BY <1>1, StartQueryKeeps
<1>2. CASE Process
  BY <1>2, ProcessKeeps
<1>3. CASE \E n \in 0..n_io_in_q : Collect(n)
  BY <1>3, CollectKeeps
<1>4. CASE Dispatch
  BY <1>4, DispatchKeeps
<1>5. CASE SkipDispatch
  BY <1>5, SkipDispatchKeeps
<1>6. CASE BeginRefine
  BY <1>6, BeginRefineKeeps
<1>7. CASE SubmitEmbeddings
  BY <1>7, SubmitEmbeddingsKeeps
<1>8. CASE \E finished \in SUBSET flying : DrainEmbeddings(finished)
  BY <1>8, DrainEmbeddingsKeeps
<1>9. CASE EndBatch
  BY <1>9, EndBatchKeeps
<1>10. CASE SortResults
  BY <1>10, SortResultsKeeps
<1>11. CASE \E n \in Nodes : CopyEntry(n)
  BY <1>11, CopyEntryKeeps
<1>12. CASE EndQuery
  BY <1>12, EndQueryKeeps
<1>13. CASE Stopped \/ UNCHANGED vars
  <2> USE DEF vars, query_vars, sets, ring, cached, refine, results
  <2>1. UNCHANGED vars
    BY <1>13 DEF Stopped
  <2>2. TypeOK'
    BY <2>1 DEF Inv, TypeOK
  <2>3. ListInv'
    BY <2>1 DEF Inv, ListInv, KeepsNearest
  <2>4. ReadsInv'
    BY <2>1 DEF Inv, ReadsInv
  <2>5. TraversalInv'
    BY <2>1 DEF Inv, TraversalInv, TraversalClosed, Filters, Pending, Expanded
  <2>6. RefineInv'
    BY <2>1 DEF Inv, RefineInv, CandidatesEvaluated, exact_visited, Filters
  <2>7. AnswerInv'
    BY <2>1 DEF Inv, AnswerInv, Distinct, exact_visited
  <2> QED BY <2>2, <2>3, <2>4, <2>5, <2>6, <2>7 DEF Inv
<1> QED BY <1>1, <1>2, <1>3, <1>4, <1>5, <1>6, <1>7, <1>8, <1>9, <1>10, <1>11, <1>12, <1>13
        DEF Next

\* The invariant holds throughout every query.
THEOREM Invariance == Spec => []Inv
<1>1. Init => Inv
  BY InitInv
<1>2. Inv /\ [Next]_vars => Inv'
  BY NextInv
<1> QED BY <1>1, <1>2, PTL DEF Spec

\* The list that page_search keeps by binary search and eviction is sorted, free
\* of repetitions and holds the nearest of all nodes seen, for every graph and
\* order in which pages arrive.
THEOREM ListKeepsNearest == Spec => []KeepsNearest
<1>1. Inv => KeepsNearest
  BY DEF Inv, ListInv
<1> QED BY <1>1, Invariance, PTL

\* When the loop of page_search ends and the filter does not matter, every
\* candidate of its list has been expanded, however reads, cached nodes and rounds
\* interleaved.
THEOREM TraversalEndsClosed == Spec => []TraversalClosed
<1>1. Inv => TraversalClosed
  BY DEF Inv, TraversalInv
<1> QED BY <1>1, Invariance, PTL

\* The refinement leaves no candidate that it looks at without an exact distance,
\* though it asks for none whose page was read for another node.
THEOREM CandidatesAreEvaluated == Spec => []CandidatesEvaluated
<1>1. Inv => CandidatesEvaluated
  BY DEF Inv, RefineInv
<1> QED BY <1>1, Invariance, PTL

\* The answer is the nearest of what was evaluated, in order, and each once if no
\* two are equally far.
THEOREM AnswerIsNearest == Spec => []AnswerNearest
<1>1. ASSUME Inv PROVE AnswerNearest
  <2>1. /\ indices \in Seq(Nodes) /\ opt.k_search \in 1..LSearch /\ opt.k_search \in Nat
        /\ full_retset \in [Nodes -> Nat] /\ sorted \in [Nodes -> Nat]
    BY <1>1, TypeFacts DEF Inv, TypeOK
  <2>2. Distinct => IsInjective(indices)
    BY <1>1 DEF Inv, AnswerInv
  <2> SUFFICES ASSUME pc = "done"
               PROVE  /\ \A i, j \in 1..opt.k_search : i < j => exact[indices[i]] <= exact[indices[j]]
                      /\ \A n \in exact_visited \ ToSet(indices) : exact[Last(indices)] <= exact[n]
    BY <2>2 DEF AnswerNearest
  <2>3. Len(indices) = opt.k_search
    BY <1>1 DEF Inv, AnswerInv
  <2>4. \A i, j \in 1..opt.k_search : i < j => exact[indices[i]] <= exact[indices[j]]
    BY <1>1, <2>3 DEF Inv, AnswerInv
  <2>5. ASSUME NEW n \in exact_visited \ ToSet(indices)
        PROVE  exact[Last(indices)] <= exact[n]
    <3>1. n \in Nodes /\ full_retset[n] > 0 /\ sorted[n] \in Nat /\ full_retset[n] \in Nat
      BY <2>1 DEF exact_visited
    <3>2. \A i \in 1..Len(indices) : indices[i] # n
      <4>1. ToSet(indices) = {indices[i] : i \in 1..Len(indices)}
        BY <2>1, LenProperties DEF ToSet
      <4> QED BY <4>1
    <3>3. /\ sorted[n] <= full_retset[n]
          /\ sorted[n] < full_retset[n] => \E i \in 1..Len(indices) : indices[i] = n
      BY <1>1, <3>1 DEF Inv, AnswerInv, Refined
    <3>4. sorted[n] > 0
      BY <3>1, <3>2, <3>3
    <3>5. Len(indices) \in 1..Len(indices) /\ Last(indices) = indices[Len(indices)]
      BY <2>1, <2>3, ConstantFacts DEF Last
    <3> QED BY <1>1, <3>1, <3>4, <3>5 DEF Inv, AnswerInv, Refined
  <2> QED BY <2>4, <2>5
<1>2. Inv => AnswerNearest
  BY <1>1
<1> QED BY <1>2, Invariance, PTL
-----------------------------------------------------------------------------
(* The search as a query of the pipeline.                                  *)

\* The values the pipeline's variables have in the search, as in Pipeline.
PipePc == IF pc \in Refined THEN "start" ELSE pc
PipeQuery == IF pc = "start" THEN 0 ELSE 1
PipeFlying == {t - 1 : t \in flying}
PipeQueue == [i \in DOMAIN sector_buffers |-> sector_buffers[i] - 1]

\* The reads of T, of L that were issued, each under its sector buffer.
MapOf(T, L) ==
  [b \in {(t - 1) % MaxReads : t \in T} |->
     CHOOSE t \in 0..L : t + 1 \in T /\ t % MaxReads = b]
PipeMap == MapOf(TraversalReads, Len(frontier))

Ring == INSTANCE ReadPipelineProofs WITH
  DispatchBelow <- BeamWidth \div 2, MemoryShare <- 0,
  IoLimit <- Cardinality(Nodes) + 1, MaxCandidates <- Cardinality(Nodes),
  EmbeddingL <- LSearch, Queries <- 1,
  pc <- PipePc, query <- PipeQuery, base <- 0, issued <- Len(frontier),
  flying <- PipeFlying, sector_buffers <- PipeQueue, sec_buf2ftr <- PipeMap

\* There are finitely many nodes, and the ring has room for the beam.
RingFits ==
  IsFiniteSet(Nodes) /\ 2 * BeamWidth + BeamWidth \div 2 - 2 <= MaxReads

\* The pipeline's assumptions on its constants.
LEMMA RingAssumption ==
  ASSUME RingFits
  PROVE  Ring!PipelineAssumption /\ Ring!RingHoldsWindow /\ Ring!NoIoLimit
<1>1. /\ LSearch \in Nat \ {0} /\ BeamWidth \in Nat \ {0} /\ MaxReads \in Nat \ {0}
      /\ BeamWidth \div 2 \in Nat /\ 2 * (BeamWidth \div 2) <= BeamWidth
      /\ BeamWidth <= 2 * (BeamWidth \div 2) + 1
  BY ConstantFacts
<1>2. Cardinality(Nodes) \in Nat /\ 2 * BeamWidth + BeamWidth \div 2 - 2 <= MaxReads
  BY FS_CardinalityType DEF RingFits
<1>3. BeamWidth <= MaxReads
  BY <1>1, <1>2
<1> QED BY <1>1, <1>2, <1>3 DEF Ring!PipelineAssumption, Ring!RingHoldsWindow,
           Ring!NoIoLimit

\* The pipeline's invariant, from ReadPipelineProofs.
LEMMA RingStep ==
  ASSUME RingFits, Ring!IInv, [Ring!Next]_(Ring!vars)
  PROVE  Ring!IInv'
BY RingAssumption, Ring!NextIInv

\* The pipeline's invariant at its start.
LEMMA RingInit ==
  ASSUME RingFits, Ring!Init
  PROVE  Ring!IInv
BY RingAssumption, Ring!InitIInv
-----------------------------------------------------------------------------
(* How many candidates a query can select.                                 *)

\* The nodes seen that are not to be selected any more.
Chosen == {n \in visited : \A i \in 1..Len(retset) : retset[i].flag => retset[i].id # n}

\* Each selected candidate is one of them; nothing is selected nor issued before
\* the query starts.
Counted ==
  /\ selected \in Nat /\ selected <= Cardinality(Chosen)
  /\ pc = "start" =>
       /\ frontier = <<>> /\ sector_buffers = <<>> /\ selected = 0
       /\ n_io_in_q = 0 /\ n_proc_in_q = 0 /\ n_cached_in_q = 0
       /\ embedding_search_L = 0 /\ l_idx = 0 /\ n_ops = 0

\* They are no more than the nodes.
LEMMA ChosenFinite ==
  ASSUME RingFits, TypeOK
  PROVE  /\ IsFiniteSet(Chosen) /\ Cardinality(Chosen) \in Nat
         /\ Cardinality(Chosen) <= Cardinality(Nodes)
<1>1. Chosen \subseteq Nodes
  BY DEF Chosen, TypeOK
<1> QED BY <1>1, FS_Subset, FS_CardinalityType DEF RingFits

\* What is seen anew is on the list to be selected, or was evicted for good.
LEMMA ProcessCounted ==
  ASSUME RingFits, Inv, Inv', Counted, Process
  PROVE  Counted'
<1>1. /\ visited \subseteq visited'
      /\ \A i \in 1..Len(retset') :
           retset'[i].id \notin visited \/ \E j \in 1..Len(retset) : retset'[i] = retset[j]
  BY ProcessedFacts
<1>2. Chosen \subseteq Chosen'
  BY <1>1 DEF Chosen
<1>3. IsFiniteSet(Chosen') /\ Cardinality(Chosen') \in Nat /\ Cardinality(Chosen) \in Nat
  <2>1. Chosen' \subseteq Nodes
    BY DEF Chosen, Inv, TypeOK
  <2> QED BY <2>1, ChosenFinite, FS_Subset, FS_CardinalityType DEF RingFits, Inv
<1>4. Cardinality(Chosen) <= Cardinality(Chosen')
  BY <1>2, <1>3, FS_Subset
<1>5. selected' = selected /\ pc' # "start"
  BY DEF Process
<1> QED BY <1>3, <1>4, <1>5 DEF Counted

\* A round marks what it selects.
LEMMA DispatchCounted ==
  ASSUME RingFits, Inv, Inv', Counted, Dispatch
  PROVE  Counted' /\ Round.num_seen = Len(Round.reads) + Len(Round.cached)
         /\ Round.num_seen <= BeamWidth /\ selected' = selected + Round.num_seen
<1> DEFINE r == Round
           k == Len(retset)
           M == Marks(k, r)
           new == {retset[i].id : i \in M}
<1>1. retset' = r.retset /\ visited' = visited
  BY DispatchParts DEF query_vars
<1>2. selected' = selected + r.num_seen /\ pc' # "start"
  BY Zenon DEF Dispatch
<1>3. r \in SelectState /\ RoundAt(k, r) /\ r.num_seen <= BeamWidth
  BY RoundFacts
<1> HIDE DEF r
<1>4. /\ Len(r.retset) = k /\ r.num_seen \in Nat /\ r.num_seen <= Cardinality(M)
      /\ r.num_seen = Len(r.reads) + Len(r.cached)
      /\ \A i \in 1..k : /\ r.retset[i].id = retset[i].id
                         /\ r.retset[i].flag => retset[i].flag
  BY <1>3 DEF RoundAt, SelectState
<1>5. k \in Nat /\ \A i, j \in 1..k : retset[i].id = retset[j].id => i = j
  <2>1. k \in Nat /\ \A i, j \in 1..k : i < j => retset[i].id # retset[j].id
    BY TypeFacts DEF Inv, ListInv, KeepsNearest, KeepsBest
  <2> QED BY <2>1
<1>6. M \subseteq 1..k /\ \A i \in M : retset[i].flag /\ ~r.retset[i].flag
  BY DEF Marks
<1> HIDE DEF M, k
<1>7. IsFiniteSet(M) /\ Cardinality(M) \in Nat
  <2>1. IsFiniteSet(1..k)
    BY <1>5, FS_Interval
  <2> QED BY <1>6, <2>1, FS_Subset, FS_CardinalityType
<1>8. IsFiniteSet(new) /\ Cardinality(new) = Cardinality(M)
  <2> DEFINE f == [i \in M |-> retset[i].id]
  <2>1. f \in Bijection(M, new)
    <3>1. f \in [M -> new] /\ \A i, j \in M : f[i] = f[j] => i = j
      BY <1>5, <1>6
    <3>2. \A n \in new : \E i \in M : f[i] = n
      OBVIOUS
    <3> QED BY <3>1, <3>2 DEF Bijection, Injection, Surjection, IsInjective
  <2>2. ExistsBijection(M, new)
    BY <2>1 DEF ExistsBijection
  <2> QED BY <2>2, <1>7, FS_Bijection
<1>9. Chosen \cup new \subseteq Chosen' /\ Chosen \cap new = {}
  <2>1. \A i \in 1..k : retset[i].id \in visited
    BY DEF Inv, ListInv, KeepsNearest, KeepsBest, Ids, k
  <2>2. Chosen' = {n \in visited : \A i \in 1..k : r.retset[i].flag => r.retset[i].id # n}
    BY <1>1, <1>4 DEF Chosen
  <2>3. Chosen = {n \in visited : \A i \in 1..k : retset[i].flag => retset[i].id # n}
    BY DEF Chosen, k
  <2>4. Chosen \subseteq Chosen'
    BY <1>4, <2>2, <2>3
  <2>5. new \subseteq Chosen'
    <3> SUFFICES ASSUME NEW i \in M PROVE retset[i].id \in Chosen'
      OBVIOUS
    <3> QED BY <1>4, <1>5, <1>6, <2>1, <2>2
  <2> QED BY <1>6, <2>3, <2>4, <2>5
<1>10. /\ IsFiniteSet(Chosen) /\ Cardinality(Chosen) \in Nat
       /\ IsFiniteSet(Chosen') /\ Cardinality(Chosen') \in Nat
  <2>1. Chosen' \subseteq Nodes
    BY DEF Chosen, Inv, TypeOK
  <2> QED BY <2>1, ChosenFinite, FS_Subset, FS_CardinalityType DEF RingFits, Inv
<1>11. Cardinality(Chosen) + Cardinality(new) <= Cardinality(Chosen')
  <2>1. Cardinality(Chosen \cup new) = Cardinality(Chosen) + Cardinality(new)
    <3>1. Cardinality(Chosen \cup new) =
            Cardinality(Chosen) + Cardinality(new) - Cardinality(Chosen \cap new)
      BY <1>8, <1>10, FS_Union
    <3>2. Cardinality(Chosen \cap new) = 0
      BY <1>9, FS_EmptySet
    <3> QED BY <3>1, <3>2, <1>7, <1>8, <1>10
  <2>2. Cardinality(Chosen \cup new) <= Cardinality(Chosen')
    BY <1>9, <1>10, FS_Subset
  <2> QED BY <2>1, <2>2
<1>12. selected \in Nat /\ selected <= Cardinality(Chosen)
  BY DEF Counted
<1> HIDE DEF new
<1>13. selected + r.num_seen <= Cardinality(Chosen') /\ selected + r.num_seen \in Nat
  <2>1. r.num_seen \in Nat /\ r.num_seen <= Cardinality(new)
    BY <1>4, <1>8
  <2>2. Cardinality(new) \in Nat
    BY <1>7, <1>8
  <2> QED BY <2>1, <2>2, <1>10, <1>11, <1>12
<1>14. Counted'
  BY <1>2, <1>13 DEF Counted
<1>15. /\ r.num_seen = Len(r.reads) + Len(r.cached) /\ r.num_seen <= BeamWidth
       /\ selected' = selected + r.num_seen
  BY <1>2, <1>3, <1>4
<1> QED BY Zenon, <1>14, <1>15 DEF r

\* No other step selects anything.
LEMMA NextCounted ==
  ASSUME RingFits, Inv, Inv', Counted, [Next]_vars
  PROVE  Counted'
<1> USE DEF query_vars, sets, ring, cached, refine, results
<1>1. CASE Process
  BY <1>1, ProcessCounted
<1>2. CASE Dispatch
  BY <1>2, DispatchCounted
<1>3. CASE \E list \in StartLists : StartQuery(list)
  <2>1. pc = "start" /\ pc' = "process" /\ selected' = selected
    BY <1>3 DEF StartQuery
  <2>2. Chosen' \subseteq Nodes
    BY DEF Chosen, Inv, TypeOK
  <2>3. Cardinality(Chosen') \in Nat
    BY <2>2, FS_Subset, FS_CardinalityType DEF RingFits
  <2> QED BY <2>1, <2>3 DEF Counted
<1>4. ASSUME retset' = retset, visited' = visited, selected' = selected,
             pc' # "start" \/ UNCHANGED vars
      PROVE  Counted'
  <2>1. Chosen' = Chosen
    BY <1>4 DEF Chosen
  <2> QED BY <1>4, <2>1 DEF Counted, vars
<1>5. CASE \E n \in 0..n_io_in_q : Collect(n)
  BY <1>4, <1>5 DEF Collect
<1>6. CASE SkipDispatch \/ BeginRefine
  BY <1>4, <1>6 DEF SkipDispatch, BeginRefine
<1>7. CASE SubmitEmbeddings
  <2>1. retset' = retset /\ visited' = visited /\ selected' = selected /\ pc' # "start"
    BY Zenon, <1>7 DEF SubmitEmbeddings
  <2> QED BY <1>4, <2>1
<1>8. CASE \E finished \in SUBSET flying : DrainEmbeddings(finished)
  <2>1. retset' = retset /\ visited' = visited /\ selected' = selected /\ pc' # "start"
    BY Zenon, <1>8 DEF DrainEmbeddings
  <2> QED BY <1>4, <2>1
<1>9. CASE EndBatch \/ SortResults \/ EndQuery
  BY <1>4, <1>9 DEF EndBatch, SortResults, EndQuery
<1>10. CASE \E n \in Nodes : CopyEntry(n)
  BY <1>4, <1>10 DEF CopyEntry
<1>11. CASE UNCHANGED vars
  BY <1>4, <1>11 DEF vars
<1> QED BY <1>1, <1>2, <1>3, <1>5, <1>6, <1>7, <1>8, <1>9, <1>10, <1>11 DEF Next, Stopped
-----------------------------------------------------------------------------
(* What the pipeline's invariant says of the search.                       *)

\* The pipeline's queue holds the same reads.
LEMMA QueueFacts ==
  ASSUME TypeOK
  PROVE  /\ PipeQueue \in Seq(Int) /\ Len(PipeQueue) = Len(sector_buffers)
         /\ Len(sector_buffers) \in Nat /\ Len(frontier) \in Nat
         /\ \A i \in 1..Len(sector_buffers) :
              sector_buffers[i] \in Nat /\ PipeQueue[i] = sector_buffers[i] - 1
         /\ ToSet(sector_buffers) = {sector_buffers[i] : i \in 1..Len(sector_buffers)}
<1> DEFINE k == Len(sector_buffers)
<1>1. sector_buffers \in Seq(Nat) /\ k \in Nat /\ DOMAIN sector_buffers = 1..k
      /\ \A i \in 1..k : sector_buffers[i] \in Nat
  BY TypeFacts, LenProperties, ElementOfSeq DEF TypeOK
<1>2. Len(frontier) \in Nat
  BY TypeFacts
<1> HIDE DEF k
<1>3. PipeQueue = [i \in 1..k |-> sector_buffers[i] - 1]
  BY <1>1 DEF PipeQueue
<1>4. PipeQueue \in Seq(Int) /\ Len(PipeQueue) = k
  BY <1>1, <1>3
<1>5. ToSet(sector_buffers) = {sector_buffers[i] : i \in 1..k}
  BY <1>1 DEF ToSet
<1> QED BY <1>1, <1>2, <1>3, <1>4, <1>5 DEF k

\* A map of reads is known by its buffers and what it says of them.
LEMMA MapIs ==
  ASSUME NEW L \in Nat, NEW T, T \subseteq 1..L,
         \A s, t \in T : (s - 1) % MaxReads = (t - 1) % MaxReads => s = t,
         NEW f, f = [b \in DOMAIN f |-> f[b]],
         DOMAIN f = {(t - 1) % MaxReads : t \in T},
         \A t \in T : f[(t - 1) % MaxReads] = t - 1
  PROVE  MapOf(T, L) = f
<1>1. ASSUME NEW t \in T
      PROVE  (CHOOSE c \in 0..L : c + 1 \in T /\ c % MaxReads = (t - 1) % MaxReads) = t - 1
  <2> DEFINE P(c) == c \in 0..L /\ c + 1 \in T /\ c % MaxReads = (t - 1) % MaxReads
  <2>1. P(t - 1)
    <3>1. t \in Nat /\ t - 1 \in 0..L /\ (t - 1) + 1 = t
      OBVIOUS
    <3> QED BY <3>1
  <2>2. ASSUME NEW c, P(c) PROVE c = t - 1
    <3>1. (c + 1) - 1 = c
      BY <2>2
    <3>2. ((c + 1) - 1) % MaxReads = (t - 1) % MaxReads /\ c + 1 \in T
      BY <2>2, <3>1
    <3>3. c + 1 = t
      BY <3>2
    <3> QED BY <3>1, <3>3
  <2> HIDE DEF P
  <2>3. (CHOOSE c : P(c)) = t - 1
    BY <2>1, <2>2
  <2> QED BY Zenon, <2>3 DEF P
<1>2. \A b \in DOMAIN f :
        (CHOOSE c \in 0..L : c + 1 \in T /\ c % MaxReads = b) = f[b]
  <2> SUFFICES ASSUME NEW t \in T
               PROVE  (CHOOSE c \in 0..L : c + 1 \in T /\ c % MaxReads = (t - 1) % MaxReads)
                        = f[(t - 1) % MaxReads]
    OBVIOUS
  <2> QED BY Zenon, <1>1
<1>3. MapOf(T, L) = [b \in DOMAIN f |-> CHOOSE c \in 0..L : c + 1 \in T /\ c % MaxReads = b]
  BY Zenon DEF MapOf
<1> QED BY Zenon, <1>2, <1>3

\* Of the reads that are owed: where they are, how old, and no two in one buffer.
LEMMA RingFacts ==
  ASSUME RingFits, Inv, Ring!IInv
  PROVE  /\ selected \in 0..Cardinality(Nodes)
         /\ pc \in Traversal => Len(frontier) <= selected
         /\ pc \notin Traversal => sector_buffers = <<>> /\ TraversalReads = {}
         /\ pc \in Traversal =>
              /\ TraversalReads = flying \cup ToSet(sector_buffers)
              /\ flying \cap ToSet(sector_buffers) = {}
              /\ \A i, j \in 1..Len(sector_buffers) : sector_buffers[i] = sector_buffers[j] => i = j
              /\ n_proc_in_q + n_io_in_q < BeamWidth + BeamWidth \div 2
              /\ \A i \in 1..Len(sector_buffers) :
                   Len(frontier) - (sector_buffers[i] - 1)
                     <= BeamWidth + (Len(sector_buffers) - i) + n_io_in_q
         /\ TraversalReads \subseteq 1..Len(frontier)
         /\ \A s, t \in TraversalReads : (s - 1) % MaxReads = (t - 1) % MaxReads => s = t
<1> DEFINE k == Len(sector_buffers)
           L == Len(frontier)
<1>1. /\ PipeQueue \in Seq(Int) /\ Len(PipeQueue) = k /\ k \in Nat /\ L \in Nat
      /\ \A i \in 1..k : sector_buffers[i] \in Nat /\ PipeQueue[i] = sector_buffers[i] - 1
      /\ ToSet(sector_buffers) = {sector_buffers[i] : i \in 1..k}
  BY QueueFacts DEF Inv
<1>2. flying \subseteq 1..L /\ flying \subseteq Nat
  BY <1>1 DEF Inv, TypeOK
<1>3. PipePc \in Ring!Traversal <=> pc \in Traversal
  BY DEF PipePc, Ring!Traversal, Traversal, Refined, Inv, TypeOK
<1>4. selected \in 0..Cardinality(Nodes)
  BY DEF Ring!IInv, Ring!TypeOK
<1>5. pc \in Traversal => L <= selected
  BY <1>1, <1>3 DEF Ring!IInv
<1>6. pc \notin Traversal => sector_buffers = <<>>
  <2> SUFFICES ASSUME pc \notin Traversal PROVE sector_buffers = <<>>
    OBVIOUS
  <2>1. PipeQueue = <<>>
    BY <1>3 DEF Ring!IInv
  <2>2. k = 0
    BY <2>1, <1>1
  <2> QED BY <2>2, EmptySeq DEF Inv, TypeOK
<1>7. pc \notin Traversal => TraversalReads = {}
  <2>1. pc \notin Traversal /\ pc # "drain" => flying = {}
    BY DEF Inv, ReadsInv, TypeOK, Traversal, Refined
  <2>2. sector_buffers = <<>> => ToSet(sector_buffers) = {}
    BY DEF ToSet
  <2> QED BY <1>6, <2>1, <2>2 DEF TraversalReads
<1>8. pc \in Traversal => TraversalReads = flying \cup ToSet(sector_buffers)
  BY DEF TraversalReads, Traversal
<1>9. Ring!OwedOnce /\ Ring!Window
  BY DEF Ring!IInv
<1>10. flying \cap ToSet(sector_buffers) = {}
  <2> SUFFICES ASSUME NEW i \in 1..k, sector_buffers[i] \in flying PROVE FALSE
    BY <1>1
  <2>1. PipeQueue[i] \in PipeFlying
    BY <1>1 DEF PipeFlying
  <2>2. PipeQueue[i] \in Ring!InQueue
    BY <1>1 DEF Ring!InQueue
  <2> QED BY <2>1, <2>2, <1>9 DEF Ring!OwedOnce
<1>11. \A i, j \in 1..k : sector_buffers[i] = sector_buffers[j] => i = j
  BY <1>1, <1>9 DEF Ring!OwedOnce
<1>12. pc \in Traversal =>
         /\ n_proc_in_q + n_io_in_q < BeamWidth + BeamWidth \div 2
         /\ \A i \in 1..k : L - PipeQueue[i] <= BeamWidth + (k - i) + n_io_in_q
  BY <1>1, <1>3, <1>9 DEF Ring!Window
<1>13. pc \in Traversal =>
         \A i \in 1..k : L - (sector_buffers[i] - 1) <= BeamWidth + (k - i) + n_io_in_q
  <2> SUFFICES ASSUME pc \in Traversal, NEW i \in 1..k
               PROVE  L - (sector_buffers[i] - 1) <= BeamWidth + (k - i) + n_io_in_q
    BY Zenon
  <2>1. L - PipeQueue[i] <= BeamWidth + (k - i) + n_io_in_q
    BY <1>12
  <2>2. PipeQueue[i] = sector_buffers[i] - 1
    BY <1>1
  <2> QED BY <2>1, <2>2
<1>14. TraversalReads \subseteq 1..L
  <2>1. pc \in Traversal => \A i \in 1..k : sector_buffers[i] \in 1..L
    BY DEF Inv, ReadsInv
  <2>2. pc \in Traversal => ToSet(sector_buffers) \subseteq 1..L
    BY <2>1, <1>1
  <2> HIDE DEF L
  <2> QED BY <2>2, <1>2, <1>7, <1>8
<1>15. Ring!BuffersExclusive
  BY RingAssumption, Ring!Exclusive
<1>16. ASSUME NEW s \in TraversalReads, NEW t \in TraversalReads,
              (s - 1) % MaxReads = (t - 1) % MaxReads
       PROVE  s = t
  <2>1. \A r \in TraversalReads : r - 1 \in Ring!Owed
    <3>1. \A r \in TraversalReads : r \in flying \/ \E i \in 1..k : r = sector_buffers[i]
      BY <1>1, <1>7, <1>8
    <3> QED BY <3>1, <1>1 DEF Ring!Owed, Ring!InQueue, PipeFlying
  <2>2. s - 1 = t - 1
    BY <2>1, <1>15, <1>16 DEF Ring!BuffersExclusive, Ring!Buffer
  <2>3. s \in Nat /\ t \in Nat
    BY <1>14
  <2> QED BY <2>2, <2>3
<1> QED BY <1>4, <1>5, <1>6, <1>7, <1>8, <1>10, <1>11, <1>12, <1>13, <1>14, <1>16
-----------------------------------------------------------------------------
(* Every step of the search is a step of the pipeline.                     *)

\* Without reads the map is empty.
LEMMA EmptyMap ==
  ASSUME NEW L
  PROVE  MapOf({}, L) = Ring!NoEntries
<1>1. {(t - 1) % MaxReads : t \in {}} = {}
  OBVIOUS
<1> QED BY <1>1 DEF MapOf, Ring!NoEntries

\* The traversal is not cut by io_limit.
LEMMA LoopGoesOn ==
  ASSUME RingFits, NEW n \in Nat, n <= Cardinality(Nodes)
  PROVE  Ring!LoopEntry(n) = "process"
BY FS_CardinalityType DEF RingFits, Ring!LoopEntry

\* A query starts.
LEMMA StartQueryStep ==
  ASSUME RingFits, Inv, Counted, NEW list, StartQuery(list)
  PROVE  Ring!StartQuery
<1>1. /\ pc = "start" /\ pc' = "process"
      /\ UNCHANGED <<frontier, flying, sector_buffers, n_io_in_q, n_proc_in_q, n_cached_in_q,
                     embedding_search_L, l_idx, n_ops, selected>>
  BY DEF StartQuery, ring, cached, refine
<1>2. /\ frontier = <<>> /\ sector_buffers = <<>> /\ selected = 0 /\ flying = {}
      /\ n_io_in_q = 0 /\ n_proc_in_q = 0 /\ n_cached_in_q = 0
      /\ embedding_search_L = 0 /\ l_idx = 0 /\ n_ops = 0
  BY <1>1 DEF Counted, Inv, ReadsInv
<1>3. PipePc = "start" /\ PipePc' = "process" /\ PipeQuery = 0 /\ PipeQuery' = 1
  BY <1>1 DEF PipePc, PipeQuery, Refined
<1>4. Len(frontier) = 0 /\ Len(frontier') = 0
  BY <1>1, <1>2
<1>5. PipeMap' = Ring!NoEntries
  <2>1. ToSet(<<>>) = {}
    BY DEF ToSet
  <2>2. TraversalReads' = {}
    BY <1>1, <1>2, <2>1 DEF TraversalReads
  <2> QED BY <2>2, EmptyMap DEF PipeMap
<1>6. PipeFlying' = PipeFlying /\ PipeQueue' = PipeQueue
  BY <1>1 DEF PipeFlying, PipeQueue
<1>7. Ring!LoopEntry(0) = "process"
  BY LoopGoesOn, FS_CardinalityType DEF RingFits
<1>8. 0 \in 0..0 /\ MaxReads * 0 = 0 /\ 0 < 0 + MaxReads
  BY ConstantFacts
<1> QED BY <1>1, <1>2, <1>3, <1>4, <1>5, <1>6, <1>7, <1>8 DEF Ring!StartQuery

\* Outside of the traversal the pipeline has no sector buffers on its map.
LEMMA QuietMap ==
  ASSUME TypeOK, TraversalReads = {}, TraversalReads' = {}
  PROVE  PipeMap' = PipeMap
BY EmptyMap DEF PipeMap

\* No round starts: the loop goes on.
LEMMA SkipDispatchStep ==
  ASSUME RingFits, Inv, Ring!IInv, SkipDispatch
  PROVE  Ring!SkipDispatch
<1>1. /\ pc = "dispatch" /\ pc' = "process" /\ ~RoundOpen
      /\ UNCHANGED <<frontier, flying, sector_buffers, n_io_in_q, n_proc_in_q, n_cached_in_q,
                     embedding_search_L, l_idx, n_ops, selected>>
  BY DEF SkipDispatch, ring, cached, refine
<1>2. PipePc = "dispatch" /\ PipePc' = "process" /\ PipeQuery' = PipeQuery
  BY <1>1 DEF PipePc, PipeQuery, Refined
<1>3. PipeFlying' = PipeFlying /\ PipeQueue' = PipeQueue /\ TraversalReads' = TraversalReads
  BY <1>1 DEF PipeFlying, PipeQueue, TraversalReads
<1>4. PipeMap' = PipeMap
  BY <1>1, <1>3 DEF PipeMap
<1>5. Ring!LoopEntry(Len(frontier) - 0) = "process"
  <2>1. Len(frontier) \in Nat /\ Len(frontier) <= Cardinality(Nodes) /\ Len(frontier) - 0 = Len(frontier)
    BY <1>1, RingFacts, QueueFacts, FS_CardinalityType DEF Traversal, RingFits, Inv
  <2> QED BY <2>1, LoopGoesOn
<1>6. ~Ring!RoundOpen
  BY <1>1 DEF RoundOpen, Ring!RoundOpen
<1> QED BY <1>1, <1>2, <1>3, <1>4, <1>5, <1>6 DEF Ring!SkipDispatch, Ring!ring,
           Ring!counters, Ring!embedding

\* The refinement looks at no more candidates than the list can have.
LEMMA BeginRefineStep ==
  ASSUME RingFits, Inv, Ring!IInv, BeginRefine
  PROVE  Ring!BeginRefine
<1> DEFINE share == (Len(retset) * opt.emb) \div EmbDen
<1>1. /\ pc = "refine" /\ pc' = "embed" /\ l_idx' = 0
      /\ embedding_search_L' = IF share < opt.k_search THEN opt.k_search ELSE share
      /\ UNCHANGED <<frontier, flying, sector_buffers, n_io_in_q, n_proc_in_q, n_cached_in_q,
                     n_ops, selected>>
  BY DEF BeginRefine, ring, cached
<1>2. PipePc = "refine" /\ PipePc' = "embed" /\ PipeQuery' = PipeQuery
  BY <1>1 DEF PipePc, PipeQuery, Refined
<1>3. PipeFlying' = PipeFlying /\ PipeQueue' = PipeQueue /\ TraversalReads' = TraversalReads
  BY <1>1 DEF PipeFlying, PipeQueue, TraversalReads
<1>4. PipeMap' = PipeMap
  BY <1>1, <1>3 DEF PipeMap
<1>5. embedding_search_L' \in 0..LSearch
  <2>1. /\ Len(retset) \in Nat /\ Len(retset) <= LSearch /\ LSearch \in Nat
        /\ opt.emb \in Nat /\ opt.emb <= EmbDen /\ EmbDen \in Nat \ {0}
        /\ opt.k_search \in 1..LSearch
    <3>1. opt \in Programs
      BY DEF Inv, TypeOK
    <3>2. opt.emb \in 0..EmbDen
      BY <3>1, SearchAssumption DEF SearchAssumption
    <3>3. Len(retset) \in 1..LSearch
      BY <1>1 DEF Inv, ListInv
    <3> QED BY <3>2, <3>3, ConstantFacts, TypeFacts DEF Inv
  <2> DEFINE x == Len(retset)
             e == opt.emb
  <2> HIDE DEF x, e
  <2>2. x \in Nat /\ e \in Nat /\ e <= EmbDen /\ EmbDen \in Nat \ {0} /\ x <= LSearch
    BY <2>1 DEF x, e
  <2>3. x * e \in Nat /\ x * e <= x * EmbDen
    BY <2>2, SMT
  <2>4. (x * e) \div EmbDen \in 0..x
    BY <2>2, <2>3, ShareBound
  <2>5. share \in 0..LSearch
    BY <2>2, <2>4, ConstantFacts DEF x, e
  <2> HIDE DEF share
  <2> QED BY <1>1, <2>1, <2>5
<1> QED BY <1>1, <1>2, <1>3, <1>4, <1>5 DEF Ring!BeginRefine, Ring!ring, Ring!counters

\* A batch is complete.
LEMMA EndBatchStep ==
  ASSUME RingFits, Inv, Inv', Ring!IInv, EndBatch
  PROVE  Ring!EndBatch
<1>1. /\ pc = "drain" /\ pc' = "embed" /\ n_ops = 0
      /\ UNCHANGED <<frontier, flying, sector_buffers, n_io_in_q, n_proc_in_q, n_cached_in_q,
                     embedding_search_L, l_idx, n_ops, selected>>
  BY DEF EndBatch, ring, cached, refine
<1>2. PipePc = "drain" /\ PipePc' = "embed" /\ PipeQuery' = PipeQuery
  BY <1>1 DEF PipePc, PipeQuery, Refined
<1>3. PipeFlying' = PipeFlying /\ PipeQueue' = PipeQueue
  BY <1>1 DEF PipeFlying, PipeQueue
<1>4. TraversalReads = {} /\ TraversalReads' = {}
  <2>1. TraversalReads = {} /\ sector_buffers = <<>>
    BY <1>1, RingFacts DEF Traversal
  <2>2. flying' = {}
    BY <1>1 DEF Inv, ReadsInv
  <2>3. ToSet(<<>>) = {}
    BY DEF ToSet
  <2> QED BY <1>1, <2>1, <2>2, <2>3 DEF TraversalReads
<1>5. PipeMap' = PipeMap
  BY <1>4, QuietMap DEF Inv
<1> QED BY <1>1, <1>2, <1>3, <1>5 DEF Ring!EndBatch, Ring!ring, Ring!counters,
           Ring!embedding

\* With the last batch the pipeline has done its part.
LEMMA SortResultsStep ==
  ASSUME RingFits, Inv, Ring!IInv, SortResults
  PROVE  Ring!EndQuery
<1>1. /\ pc = "embed" /\ pc' = "copy" /\ l_idx >= embedding_search_L
      /\ UNCHANGED <<frontier, flying, sector_buffers, n_io_in_q, n_proc_in_q, n_cached_in_q,
                     embedding_search_L, l_idx, n_ops, selected>>
  BY DEF SortResults, ring, cached, refine
<1>2. PipePc = "embed" /\ PipePc' = "start" /\ PipeQuery' = PipeQuery
  BY <1>1 DEF PipePc, PipeQuery, Refined
<1>3. PipeFlying' = PipeFlying /\ PipeQueue' = PipeQueue /\ TraversalReads' = TraversalReads
  BY <1>1 DEF PipeFlying, PipeQueue, TraversalReads
<1>4. PipeMap' = PipeMap
  BY <1>1, <1>3 DEF PipeMap
<1> QED BY <1>1, <1>2, <1>3, <1>4 DEF Ring!EndQuery, Ring!ring, Ring!counters,
           Ring!embedding

\* Copying out the results is none of the pipeline's business.
LEMMA CopyStep ==
  ASSUME pc \in Refined, pc' \in Refined,
         UNCHANGED <<frontier, flying, sector_buffers, n_io_in_q, n_proc_in_q, n_cached_in_q,
                     embedding_search_L, l_idx, n_ops, selected>>
  PROVE  UNCHANGED Ring!vars
<1>2. PipePc' = PipePc /\ PipeQuery' = PipeQuery
  BY DEF PipePc, PipeQuery, Refined
<1>3. PipeFlying' = PipeFlying /\ PipeQueue' = PipeQueue /\ TraversalReads' = TraversalReads
  BY DEF PipeFlying, PipeQueue, TraversalReads, Refined
<1>4. PipeMap' = PipeMap
  BY <1>3 DEF PipeMap
<1> QED BY <1>2, <1>3, <1>4 DEF Ring!vars, Ring!ring, Ring!counters, Ring!embedding

\* In the traversal the map has every read that is owed under its buffer.
LEMMA MapEntries ==
  ASSUME RingFits, Inv, Ring!IInv, pc \in Traversal
  PROVE  /\ DOMAIN PipeMap = {(t - 1) % MaxReads : t \in TraversalReads}
         /\ \A t \in TraversalReads : PipeMap[(t - 1) % MaxReads] = t - 1
<1>1. DOMAIN PipeMap = {(t - 1) % MaxReads : t \in TraversalReads}
  BY DEF PipeMap, MapOf
<1>2. PipePc \in Ring!Traversal
  BY DEF PipePc, Ring!Traversal, Traversal, Refined
<1>3. \A t \in Ring!Owed : PipeMap[t % MaxReads] = t
  BY <1>2 DEF Ring!IInv, Ring!MapExact, Ring!Buffer
<1>4. ASSUME NEW t \in TraversalReads PROVE t - 1 \in Ring!Owed
  <2>1. \/ t \in flying
        \/ \E i \in 1..Len(sector_buffers) : t = sector_buffers[i]
    BY QueueFacts DEF TraversalReads, Traversal, Inv
  <2>2. CASE t \in flying
    BY <2>2 DEF Ring!Owed, PipeFlying
  <2>3. ASSUME NEW i \in 1..Len(sector_buffers), t = sector_buffers[i]
        PROVE  t - 1 \in Ring!Owed
    BY <2>3, QueueFacts DEF Ring!Owed, Ring!InQueue, Inv
  <2> QED BY <2>1, <2>2, <2>3
<1> QED BY <1>1, <1>3, <1>4

\* Parsing a page takes the oldest read off the queue and off the map.
LEMMA ProcessStep ==
  ASSUME RingFits, Inv, Ring!IInv, Process
  PROVE  Ring!Process
<1> DEFINE k == Len(sector_buffers)
           h == Head(sector_buffers)
<1>1. /\ pc = "process" /\ pc' = "collect" /\ n_cached_in_q' = 0
      /\ IF n_proc_in_q > 0
           THEN sector_buffers' = Tail(sector_buffers) /\ n_proc_in_q' = n_proc_in_q - 1
           ELSE UNCHANGED <<sector_buffers, n_proc_in_q>>
      /\ UNCHANGED <<frontier, flying, n_io_in_q, embedding_search_L, l_idx, n_ops, selected>>
  BY DEF Process, refine
<1>2. PipePc = "process" /\ PipePc' = "collect" /\ PipeQuery' = PipeQuery
  BY <1>1 DEF PipePc, PipeQuery, Refined
<1>3. PipeFlying' = PipeFlying /\ Len(frontier') = Len(frontier)
  BY <1>1 DEF PipeFlying
<1>4. n_proc_in_q \in Nat /\ k = n_proc_in_q
  BY <1>1 DEF Inv, ReadsInv, TypeOK, Traversal
<1>5. CASE n_proc_in_q = 0
  <2>1. sector_buffers' = sector_buffers /\ n_proc_in_q' = n_proc_in_q
    BY <1>1, <1>5
  <2>2. PipeQueue' = PipeQueue /\ TraversalReads' = TraversalReads
    BY <1>1, <2>1 DEF PipeQueue, TraversalReads
  <2>3. PipeMap' = PipeMap
    BY <1>3, <2>2 DEF PipeMap
  <2> QED BY <1>1, <1>2, <1>3, <1>5, <2>1, <2>2, <2>3 DEF Ring!Process, Ring!embedding
<1>6. CASE n_proc_in_q > 0
  <2> DEFINE b == Ring!Buffer(Head(PipeQueue))
             T == TraversalReads
             L == Len(frontier)
             f == Ring!Erase(b)
  <2>1. /\ sector_buffers' = Tail(sector_buffers) /\ n_proc_in_q' = n_proc_in_q - 1
    BY <1>1, <1>6
  <2>2. /\ sector_buffers \in Seq(Nat) /\ k \in Nat /\ k > 0 /\ L \in Nat
        /\ PipeQueue \in Seq(Int) /\ Len(PipeQueue) = k
        /\ \A i \in 1..k : sector_buffers[i] \in Nat /\ PipeQueue[i] = sector_buffers[i] - 1
        /\ ToSet(sector_buffers) = {sector_buffers[i] : i \in 1..k}
    BY <1>4, <1>6, QueueFacts DEF Inv, TypeOK
  <2>3. /\ h = sector_buffers[1] /\ Head(PipeQueue) = h - 1 /\ h \in Nat
    BY <2>2
  <2>4. /\ Len(sector_buffers') = k - 1 /\ DOMAIN sector_buffers' = 1..(k - 1)
        /\ \A i \in 1..(k - 1) : sector_buffers'[i] = sector_buffers[i + 1]
    BY <2>1, <2>2
  <2>5. PipeQueue' = Tail(PipeQueue)
    <3>1. PipeQueue' = [i \in 1..(k - 1) |-> sector_buffers[i + 1] - 1]
      BY <2>4 DEF PipeQueue
    <3>2. Tail(PipeQueue) = [i \in 1..(k - 1) |-> PipeQueue[i + 1]]
      <4>1. PipeQueue \in Seq(Int) /\ Len(PipeQueue) = k /\ k > 0
        BY <2>2
      <4> HIDE DEF k
      <4> QED BY ONLY <4>1, TailIs
    <3>3. \A i \in 1..(k - 1) : i + 1 \in 1..k
      BY <2>2
    <3> HIDE DEF k
    <3> QED BY <2>2, <3>1, <3>2, <3>3
  <2>6. b \in DOMAIN PipeMap /\ PipeMap[b] = h - 1 /\ b = (h - 1) % MaxReads
    <3>1. PipePc \in Ring!Traversal
      BY <1>2 DEF Ring!Traversal
    <3>2. b \in DOMAIN PipeMap /\ PipeMap[b] = Head(PipeQueue)
      BY <1>6, <3>1, RingAssumption, Ring!HeadRecorded
    <3> QED BY <2>3, <3>2 DEF Ring!Buffer
  <2>7. h - 1 # Ring!NoNode
    <3>1. 1 \in 1..k
      BY <2>2
    <3>2. h \in 1..L
      BY <1>1, <2>3, <3>1 DEF Inv, ReadsInv, Traversal
    <3> QED BY <3>2, <2>2 DEF Ring!NoNode
  <2>8. /\ T = flying \cup ToSet(sector_buffers) /\ flying \cap ToSet(sector_buffers) = {}
        /\ \A i, j \in 1..k : sector_buffers[i] = sector_buffers[j] => i = j
        /\ T \subseteq 1..L
        /\ \A s, t \in T : (s - 1) % MaxReads = (t - 1) % MaxReads => s = t
    BY <1>1, RingFacts DEF Traversal
  <2>9. TraversalReads' = T \ {h} /\ h \in T
    <3>1. ToSet(sector_buffers') = {sector_buffers[i + 1] : i \in 1..(k - 1)}
      BY <2>4 DEF ToSet
    <3>2. TraversalReads' = flying \cup ToSet(sector_buffers')
      BY <1>1 DEF TraversalReads
    <3>3. /\ \A i \in 1..(k - 1) : i + 1 \in 1..k /\ i + 1 # 1
          /\ \A i \in 1..k : i # 1 => i - 1 \in 1..(k - 1) /\ (i - 1) + 1 = i
          /\ 1 \in 1..k
      BY <2>2
    <3> HIDE DEF k
    <3>4. ToSet(sector_buffers') = ToSet(sector_buffers) \ {h}
      <4>1. ASSUME NEW x \in ToSet(sector_buffers'), x \notin ToSet(sector_buffers) \ {h}
            PROVE  FALSE
        <5>1. PICK i \in 1..(k - 1) : x = sector_buffers[i + 1]
          BY <3>1, <4>1
        <5>2. i + 1 \in 1..k /\ i + 1 # 1
          BY <3>3
        <5>3. x \in ToSet(sector_buffers) /\ x # h
          BY <5>1, <5>2, <2>2, <2>3, <2>8, <3>3
        <5> QED BY <4>1, <5>3
      <4>2. ASSUME NEW x \in ToSet(sector_buffers), x # h
            PROVE  x \in ToSet(sector_buffers')
        <5>1. PICK i \in 1..k : x = sector_buffers[i]
          BY <2>2
        <5>2. i # 1
          BY <4>2, <5>1, <2>3
        <5>3. i - 1 \in 1..(k - 1) /\ (i - 1) + 1 = i
          BY <3>3, <5>2
        <5> QED BY <3>1, <5>1, <5>3
      <4> QED BY <4>1, <4>2
    <3>5. h \in ToSet(sector_buffers)
      BY <2>2, <2>3, <3>3
    <3> QED BY <2>8, <3>2, <3>4, <3>5
  <2>10. /\ DOMAIN PipeMap = {(t - 1) % MaxReads : t \in T}
         /\ \A t \in T : PipeMap[(t - 1) % MaxReads] = t - 1
    BY <1>1, MapEntries DEF Traversal
  <2>11. f = [c \in DOMAIN PipeMap \ {b} |-> PipeMap[c]]
    BY DEF Ring!Erase
  <2> HIDE DEF f, b, h, k, T, L
  <2>12. /\ f = [c \in DOMAIN f |-> f[c]]
         /\ DOMAIN f = {(t - 1) % MaxReads : t \in T \ {h}}
         /\ \A t \in T \ {h} : f[(t - 1) % MaxReads] = t - 1
    <3>1. DOMAIN f = DOMAIN PipeMap \ {b} /\ \A c \in DOMAIN f : f[c] = PipeMap[c]
      BY <2>11
    <3>2. \A t \in T : (t - 1) % MaxReads = b <=> t = h
      BY <2>6, <2>8, <2>9
    <3>3. DOMAIN f = {(t - 1) % MaxReads : t \in T \ {h}}
      BY <2>10, <3>1, <3>2
    <3>4. \A t \in T \ {h} : f[(t - 1) % MaxReads] = t - 1
      BY <2>10, <3>1, <3>3
    <3>5. f = [c \in DOMAIN f |-> f[c]]
      BY <2>11
    <3> QED BY <3>3, <3>4, <3>5
  <2>13. MapOf(T \ {h}, L) = f
    <3>1. T \ {h} \subseteq 1..L /\ L \in Nat
      BY <2>2, <2>8
    <3>2. \A s, t \in T \ {h} : (s - 1) % MaxReads = (t - 1) % MaxReads => s = t
      BY <2>8
    <3> QED BY ONLY <3>1, <3>2, <2>12, MapIs
  <2>14. PipeMap' = f
    BY <1>3, <2>9, <2>13 DEF PipeMap, T, L
  <2> QED BY <1>1, <1>2, <1>3, <1>6, <2>1, <2>5, <2>6, <2>7, <2>14 DEF Ring!Process,
             Ring!embedding, f, b
<1> QED BY <1>4, <1>5, <1>6

\* Collecting moves reads from the flight to the queue; the map has them already.
LEMMA CollectStep ==
  ASSUME RingFits, Inv, Ring!IInv, NEW n \in 0..n_io_in_q, Collect(n)
  PROVE  Ring!Collect(n)
<1> DEFINE k == Len(sector_buffers)
           T == TraversalReads
<1>1. /\ pc = "collect" /\ pc' = "dispatch" /\ n <= n_io_in_q
      /\ n_io_in_q > 0 /\ n_proc_in_q = 0 => n >= 1
      /\ n_io_in_q' = n_io_in_q - n /\ n_proc_in_q' = n_proc_in_q + n
      /\ UNCHANGED <<frontier, n_cached_in_q, embedding_search_L, l_idx, n_ops, selected>>
  BY DEF Collect, cached, refine
<1>2. PICK finished \in SUBSET flying :
        /\ Cardinality(finished) = n
        /\ \E s \in SetToSeqs(finished) :
             sector_buffers' = sector_buffers \o s /\ flying' = flying \ finished
  BY DEF Collect, kSubset
<1>3. PICK s \in SetToSeqs(finished) :
        sector_buffers' = sector_buffers \o s /\ flying' = flying \ finished
  BY <1>2
<1>4. IsFiniteSet(finished) /\ finished \subseteq Nat /\ n \in Nat
  <2>1. IsFiniteSet(flying) /\ flying \subseteq Nat /\ n_io_in_q \in Nat
    BY TypeFacts DEF Inv, TypeOK
  <2>2. IsFiniteSet(finished)
    BY <2>1, FS_Subset
  <2> QED BY <2>1, <2>2
<1>5. /\ s \in Seq(Nat) /\ Len(s) = n /\ finished = {s[i] : i \in 1..n}
      /\ \A i \in 1..n : s[i] \in flying /\ s[i] \in Nat
      /\ \A i, j \in 1..n : s[i] = s[j] => i = j
  <2>1. s \in Seq(finished) /\ Len(s) = n /\ finished = {s[i] : i \in 1..n}
    <3>1. IsFiniteSet(finished) /\ s \in SetToSeqs(finished)
      BY <1>4
    <3>2. /\ s \in Seq(finished) /\ Len(s) = Cardinality(finished)
          /\ finished = {s[i] : i \in 1..Len(s)}
      BY ONLY <3>1, CompletionOrder
    <3> QED BY <1>2, <3>2
  <2>2. \A i, j \in 1..n : i # j => s[i] # s[j]
    BY <1>2 DEF SetToSeqs
  <2>3. s \in [1..n -> Nat]
    BY <2>1, <1>4
  <2> QED BY <1>4, <2>1, <2>2, <2>3
<1>6. /\ sector_buffers \in Seq(Nat) /\ k \in Nat
      /\ PipeQueue \in Seq(Int) /\ Len(PipeQueue) = k
      /\ \A i \in 1..k : sector_buffers[i] \in Nat /\ PipeQueue[i] = sector_buffers[i] - 1
  BY QueueFacts DEF Inv, TypeOK
<1> DEFINE a == [i \in 1..n |-> s[i] - 1]
<1>7. a \in Ring!Arrivals(n)
  <2>1. a \in [1..n -> PipeFlying]
    BY <1>5 DEF PipeFlying
  <2>2. \A i, j \in 1..n : a[i] = a[j] => i = j
    <3> SUFFICES ASSUME NEW i \in 1..n, NEW j \in 1..n, s[i] - 1 = s[j] - 1 PROVE i = j
      OBVIOUS
    <3>1. s[i] \in Nat /\ s[j] \in Nat
      BY <1>5
    <3>2. s[i] = s[j]
      BY <3>1
    <3> QED BY <1>5, <3>2
  <2> QED BY <2>1, <2>2 DEF Ring!Arrivals
<1>8. Ring!ReadsOf(a) = {t - 1 : t \in finished}
  <2>1. Len(a) = n
    BY <1>4
  <2> QED BY <1>5, <2>1 DEF Ring!ReadsOf
<1>9. PipeFlying' = PipeFlying \ Ring!ReadsOf(a)
  <2>1. PipeFlying' = {t - 1 : t \in flying \ finished}
    BY <1>3 DEF PipeFlying
  <2>2. \A t, r \in flying : t - 1 = r - 1 => t = r
    BY DEF Inv, TypeOK
  <2> QED BY <1>8, <2>1, <2>2 DEF PipeFlying
<1>10. PipeQueue' = PipeQueue \o a
  <2> DEFINE both == sector_buffers \o s
  <2>1. /\ Len(both) = k + n /\ DOMAIN both = 1..(k + n)
        /\ \A i \in 1..(k + n) : both[i] = IF i <= k THEN sector_buffers[i] ELSE s[i - k]
    <3>1. sector_buffers \in Seq(Nat) /\ s \in Seq(Nat)
      BY <1>5, <1>6
    <3>2. /\ both \in Seq(Nat) /\ Len(both) = k + Len(s)
          /\ \A i \in 1..(k + Len(s)) :
               both[i] = IF i <= k THEN sector_buffers[i] ELSE s[i - k]
      BY ONLY <3>1, ConcatProperties
    <3>3. DOMAIN both = 1..Len(both)
      BY ONLY <3>2, LenProperties
    <3> QED BY <1>5, <3>2, <3>3
  <2>2. a \in Seq(Int) /\ Len(a) = n
    BY <1>4, <1>5
  <2>3. /\ PipeQueue \o a \in Seq(Int) /\ Len(PipeQueue \o a) = k + n
        /\ \A i \in 1..(k + n) : (PipeQueue \o a)[i] = IF i <= k THEN PipeQueue[i] ELSE a[i - k]
    <3> HIDE DEF a, k
    <3>1. /\ PipeQueue \in Seq(Int) /\ Len(PipeQueue) = k
          /\ a \in Seq(Int) /\ Len(a) = n
      BY ONLY <1>6, <2>2
    <3>2. /\ PipeQueue \o a \in Seq(Int) /\ Len(PipeQueue \o a) = Len(PipeQueue) + Len(a)
          /\ \A i \in 1..(Len(PipeQueue) + Len(a)) :
               (PipeQueue \o a)[i] = IF i <= Len(PipeQueue) THEN PipeQueue[i]
                                     ELSE a[i - Len(PipeQueue)]
      BY ONLY <3>1, ConcatProperties
    <3> QED BY ONLY <3>1, <3>2
  <2>4. PipeQueue' = [i \in 1..(k + n) |-> both[i] - 1]
    BY <1>3, <2>1 DEF PipeQueue
  <2>5. \A i \in 1..(k + n) : both[i] - 1 = (PipeQueue \o a)[i]
    <3> SUFFICES ASSUME NEW i \in 1..(k + n) PROVE both[i] - 1 = (PipeQueue \o a)[i]
      OBVIOUS
    <3>1. CASE i <= k
      <4>1. i \in 1..k
        BY <3>1, <1>4, <1>6
      <4> QED BY <3>1, <4>1, <1>6, <2>1, <2>3
    <3>2. CASE ~(i <= k)
      <4>1. i - k \in 1..n
        BY <3>2, <1>4, <1>6
      <4>2. a[i - k] = s[i - k] - 1
        BY <4>1
      <4> HIDE DEF a, k, both
      <4> QED BY <3>2, <4>2, <2>1, <2>3
    <3> QED BY <3>1, <3>2
  <2> DEFINE qa == PipeQueue \o a
  <2>6. qa = [i \in 1..(k + n) |-> qa[i]]
    <3>1. qa \in Seq(Int) /\ Len(qa) = k + n
      BY <2>3
    <3> HIDE DEF qa, k
    <3> QED BY <3>1, LenProperties
  <2>7. \A i \in 1..(k + n) : both[i] - 1 = qa[i]
    BY <2>5
  <2> HIDE DEF both, k
  <2>8. PipeQueue' = qa
    <3> HIDE DEF qa
    <3> QED BY <2>4, <2>6, <2>7
  <2> QED BY <2>8
<1>11. TraversalReads' = T
  <2>1. ToSet(sector_buffers') = ToSet(sector_buffers) \cup ToSet(s)
    <3>1. s \in Seq(Nat) /\ sector_buffers \in Seq(Nat)
      BY <1>5, <1>6
    <3>2. ToSet(sector_buffers \o s) = ToSet(sector_buffers) \cup ToSet(s)
      BY ONLY <3>1, Joined
    <3> QED BY <1>3, <3>2
  <2>2. ToSet(s) = finished
    <3>1. DOMAIN s = 1..n
      BY <1>5, LenProperties
    <3> QED BY <1>5, <3>1 DEF ToSet
  <2> QED BY <1>1, <1>3, <2>1, <2>2 DEF TraversalReads
<1>12. PipeMap' = PipeMap
  BY <1>1, <1>11 DEF PipeMap
<1>13. PipeMap = Ring!TouchAll(Ring!ReadsOf(a))
  <2> DEFINE M == PipeMap
  <2>1. DOMAIN M = {(t - 1) % MaxReads : t \in T}
    BY <1>1, MapEntries DEF Traversal
  <2>2. finished \subseteq T
    BY <1>1 DEF TraversalReads
  <2>3. {Ring!Buffer(t) : t \in Ring!ReadsOf(a)} \subseteq DOMAIN M
    BY <1>8, <2>1, <2>2 DEF Ring!Buffer
  <2>4. M = [b \in DOMAIN M |-> M[b]]
    BY DEF PipeMap, MapOf
  <2>5. DOMAIN M \cup {Ring!Buffer(t) : t \in Ring!ReadsOf(a)} = DOMAIN M
    BY <2>3
  <2>6. Ring!TouchAll(Ring!ReadsOf(a)) =
          [b \in DOMAIN M |-> IF b \in DOMAIN M THEN M[b] ELSE Ring!NoNode]
    BY Zenon, <2>5 DEF Ring!TouchAll
  <2> HIDE DEF M
  <2> QED BY <2>4, <2>6 DEF M
<1>14. PipePc = "collect" /\ PipePc' = "dispatch" /\ PipeQuery' = PipeQuery
       /\ Len(frontier') = Len(frontier)
  BY <1>1 DEF PipePc, PipeQuery, Refined
<1> HIDE DEF a, k, T
<1>15. \E x \in Ring!Arrivals(n) :
         /\ PipeQueue' = PipeQueue \o x
         /\ PipeFlying' = PipeFlying \ Ring!ReadsOf(x)
         /\ PipeMap' = Ring!TouchAll(Ring!ReadsOf(x))
  BY <1>7, <1>9, <1>10, <1>12, <1>13
<1> QED BY <1>1, <1>14, <1>15 DEF Ring!Collect, Ring!embedding

\* A round's reads find their sector buffers free, and go on the map.
LEMMA DispatchMap ==
  ASSUME RingFits, Inv, Ring!IInv, pc = "dispatch", RoundOpen, NEW r \in 0..BeamWidth
  PROVE  LET L == Len(frontier)
         IN  MapOf(ToSet(sector_buffers) \cup (L + 1)..(L + r), L + r)
               = Ring!InsertNew(L..(L + r - 1))
<1> DEFINE k == Len(sector_buffers)
           L == Len(frontier)
           T == ToSet(sector_buffers)
           new == (L + 1)..(L + r)
           issue == L..(L + r - 1)
           f == Ring!InsertNew(issue)
<1>1. /\ n_io_in_q = 0 /\ n_proc_in_q < BeamWidth \div 2 /\ flying = {} /\ k = n_proc_in_q
      /\ k \in Nat /\ L \in Nat /\ r \in Nat /\ r <= BeamWidth
  <2>1. n_io_in_q = Cardinality(flying) /\ n_proc_in_q = k /\ IsFiniteSet(flying)
    BY TypeFacts DEF Inv, ReadsInv, Traversal
  <2>2. flying = {}
    BY <2>1, FS_EmptySet DEF RoundOpen
  <2> QED BY <2>1, <2>2, TypeFacts, ConstantFacts DEF RoundOpen, Inv
<1>2. /\ BeamWidth \in Nat \ {0} /\ BeamWidth \div 2 \in Nat /\ MaxReads \in Nat \ {0}
      /\ 2 * BeamWidth + BeamWidth \div 2 - 2 <= MaxReads /\ BeamWidth <= MaxReads
  BY ConstantFacts, RingAssumption DEF Ring!PipelineAssumption, RingFits
<1>3. /\ TraversalReads = T
      /\ \A i \in 1..k : sector_buffers[i] \in Nat
      /\ T = {sector_buffers[i] : i \in 1..k}
      /\ T \subseteq 1..L
      /\ \A i \in 1..k : L - (sector_buffers[i] - 1) <= BeamWidth + (k - i) + n_io_in_q
  <2>1. pc \in Traversal
    BY DEF Traversal
  <2> QED BY <1>1, <2>1, RingFacts, QueueFacts DEF Inv
<1>4. \A t \in T \cup new : t \in 1..(L + r) /\ (L + r) - (t - 1) <= MaxReads
  <2>1. ASSUME NEW t \in T PROVE t \in 1..(L + r) /\ (L + r) - (t - 1) <= MaxReads
    <3>1. PICK i \in 1..k : t = sector_buffers[i]
      BY <1>3
    <3>2. L - (t - 1) <= BeamWidth + (k - i) + n_io_in_q /\ t \in 1..L
      BY <1>3, <3>1
    <3> DEFINE half == BeamWidth \div 2
    <3>3. k < half /\ half \in Nat /\ 2 * BeamWidth + half - 2 <= MaxReads
      BY <1>1, <1>2
    <3> HIDE DEF half, k, L
    <3> QED BY <1>1, <1>2, <3>2, <3>3
  <2>2. ASSUME NEW t \in new PROVE t \in 1..(L + r) /\ (L + r) - (t - 1) <= MaxReads
    BY <1>1, <1>2
  <2> QED BY <2>1, <2>2
<1>5. ASSUME NEW s \in T \cup new, NEW t \in T \cup new,
             (s - 1) % MaxReads = (t - 1) % MaxReads
      PROVE  s = t
  <2> DEFINE x == s - 1
             y == t - 1
             next == L + r
  <2>1. /\ next \in Nat /\ x \in 0..(next - 1) /\ y \in 0..(next - 1)
        /\ next - x <= MaxReads /\ next - y <= MaxReads
    <3>1. /\ s \in 1..(L + r) /\ (L + r) - (s - 1) <= MaxReads
          /\ t \in 1..(L + r) /\ (L + r) - (t - 1) <= MaxReads
      BY <1>4
    <3>2. L + r \in Nat
      BY <1>1
    <3> HIDE DEF L
    <3> QED BY ONLY <3>1, <3>2
  <2>2. Ring!Buffer(x) = Ring!Buffer(y)
    BY <1>5 DEF Ring!Buffer
  <2> HIDE DEF x, y, next
  <2>3. x = y
    BY <2>1, <2>2, RingAssumption, Ring!WindowExclusive
  <2>4. s \in Nat /\ t \in Nat
    BY <1>4
  <2> QED BY <2>3, <2>4 DEF x, y
<1>6. /\ DOMAIN PipeMap = {(t - 1) % MaxReads : t \in T}
      /\ \A t \in T : PipeMap[(t - 1) % MaxReads] = t - 1
  <2>1. pc \in Traversal
    BY DEF Traversal
  <2> QED BY <1>3, <2>1, MapEntries
<1>7. f = [b \in DOMAIN PipeMap \cup {t % MaxReads : t \in issue} |->
             IF b \in DOMAIN PipeMap THEN PipeMap[b]
             ELSE CHOOSE t \in issue : t % MaxReads = b]
  BY Zenon DEF Ring!InsertNew, Ring!Buffer
<1>8. /\ \A t \in new : t - 1 \in issue /\ t \in Nat
      /\ \A u \in issue : u + 1 \in new /\ (u + 1) - 1 = u
  BY <1>1
<1> HIDE DEF f, issue, new, T, k, L
<1>9. {t % MaxReads : t \in issue} = {(t - 1) % MaxReads : t \in new}
  BY <1>8
<1>10. /\ DOMAIN f = {(t - 1) % MaxReads : t \in T \cup new}
       /\ f = [b \in DOMAIN f |-> f[b]]
  <2>1. DOMAIN f = DOMAIN PipeMap \cup {t % MaxReads : t \in issue}
    BY <1>7
  <2>2. DOMAIN f = {(t - 1) % MaxReads : t \in T \cup new}
    <3>1. {(t - 1) % MaxReads : t \in T \cup new}
            = {(t - 1) % MaxReads : t \in T} \cup {(t - 1) % MaxReads : t \in new}
      OBVIOUS
    <3> QED BY <1>6, <1>9, <2>1, <3>1
  <2>3. f = [b \in DOMAIN f |-> f[b]]
    BY <1>7
  <2> QED BY <2>2, <2>3
<1>11. ASSUME NEW t \in T PROVE f[(t - 1) % MaxReads] = t - 1
  <2>1. (t - 1) % MaxReads \in DOMAIN PipeMap
    BY <1>6
  <2>2. f[(t - 1) % MaxReads] = PipeMap[(t - 1) % MaxReads]
    BY <1>7, <2>1
  <2> QED BY <1>6, <2>2
<1>12. ASSUME NEW t \in new, t \notin T PROVE f[(t - 1) % MaxReads] = t - 1
  <2> DEFINE b == (t - 1) % MaxReads
  <2>1. b \notin DOMAIN PipeMap
    BY <1>5, <1>6, <1>12
  <2>2. b \in {u % MaxReads : u \in issue}
    BY <1>9
  <2>3. f[b] = CHOOSE u \in issue : u % MaxReads = b
    BY <1>7, <2>1, <2>2
  <2> DEFINE P(u) == u \in issue /\ u % MaxReads = b
  <2>4. P(t - 1)
    BY <1>8
  <2>5. ASSUME NEW u, P(u) PROVE u = t - 1
    <3>1. u + 1 \in new /\ (u + 1) - 1 = u
      BY <1>8, <2>5
    <3>2. ((u + 1) - 1) % MaxReads = (t - 1) % MaxReads
      BY <2>5, <3>1
    <3>3. u + 1 = t
      BY <1>5, <3>1, <3>2
    <3> QED BY <3>1, <3>3
  <2> HIDE DEF P
  <2>6. (CHOOSE u : P(u)) = t - 1
    BY <2>4, <2>5
  <2> QED BY Zenon, <2>3, <2>6 DEF P
<1>13. \A t \in T \cup new : f[(t - 1) % MaxReads] = t - 1
  BY <1>11, <1>12
<1>14. L + r \in Nat /\ T \cup new \subseteq 1..(L + r)
  BY <1>1, <1>4
<1>15. \A s, t \in T \cup new : (s - 1) % MaxReads = (t - 1) % MaxReads => s = t
  BY <1>5
<1>16. MapOf(T \cup new, L + r) = f
  BY ONLY <1>10, <1>13, <1>14, <1>15, MapIs
<1> QED BY <1>16 DEF f, issue, new, T, L

\* A round of the search is a round of the pipeline.
LEMMA DispatchStep ==
  ASSUME RingFits, Inv, Inv', Counted, Ring!IInv, Dispatch
  PROVE  \E r \in 0..BeamWidth, c \in 0..(BeamWidth + 0) : Ring!Dispatch(r, c)
<1> DEFINE r == Len(Round.reads)
           c == Len(Round.cached)
           L == Len(frontier)
<1>1. /\ pc = "dispatch" /\ RoundOpen /\ flying = {} /\ n_io_in_q = 0 /\ n_cached_in_q = 0
      /\ frontier' = frontier \o Round.reads
      /\ flying' = (L + 1)..(L + r)
      /\ n_io_in_q' = r /\ n_cached_in_q' = c
      /\ pc' = IF LoopEnds(Round) THEN "refine" ELSE "process"
      /\ UNCHANGED <<sector_buffers, n_proc_in_q, embedding_search_L, l_idx, n_ops>>
  BY DispatchParts DEF RoundOpen, refine
<1>2. /\ Round.num_seen = r + c /\ Round.num_seen <= BeamWidth
      /\ selected' = selected + Round.num_seen /\ selected' <= Cardinality(Nodes)
  <2>1. /\ Counted' /\ Round.num_seen = r + c /\ Round.num_seen <= BeamWidth
        /\ selected' = selected + Round.num_seen
    BY DispatchCounted
  <2>2. Chosen' \subseteq Nodes
    BY DEF Chosen, Inv, TypeOK
  <2>3. /\ Cardinality(Chosen') \in Nat /\ Cardinality(Nodes) \in Nat
        /\ Cardinality(Chosen') <= Cardinality(Nodes)
    BY <2>2, FS_Subset, FS_CardinalityType DEF RingFits
  <2>4. selected' \in Nat /\ selected' <= Cardinality(Chosen')
    BY <2>1 DEF Counted
  <2>5. selected' <= Cardinality(Nodes)
    BY <2>3, <2>4
  <2> QED BY <2>1, <2>5
<1>3. /\ Round.reads \in Seq([id : Nodes, pid : Pages]) /\ Round.cached \in Seq(Nodes)
      /\ frontier \in Seq([id : Nodes \cup {NoNode}, pid : Pages])
  BY RoundFacts DEF SelectState, Inv, TypeOK
<1>4. /\ r \in Nat /\ c \in Nat /\ L \in Nat /\ BeamWidth \in Nat
      /\ selected \in Nat /\ L <= selected /\ Cardinality(Nodes) \in Nat
  <2>1. r \in Nat /\ c \in Nat
    BY <1>3, LenProperties
  <2>2. L <= selected /\ selected \in Nat
    BY <1>1, RingFacts DEF Traversal
  <2> QED BY <2>1, <2>2, TypeFacts, ConstantFacts, FS_CardinalityType DEF RingFits, Inv
<1>5. Len(frontier') = L + r
  <2>1. Round.reads \in Seq([id : Nodes \cup {NoNode}, pid : Pages])
    <3> DEFINE F == [id : Nodes, pid : Pages]
               G == [id : Nodes \cup {NoNode}, pid : Pages]
    <3>1. F \subseteq G
      OBVIOUS
    <3>2. Round.reads \in [1..r -> F] /\ r \in Nat
      BY <1>3, <1>4, LenProperties
    <3> HIDE DEF F, G, r
    <3>3. Round.reads \in [1..r -> G]
      BY <3>1, <3>2
    <3>4. Round.reads \in Seq(G)
      BY <3>2, <3>3
    <3> QED BY <3>4 DEF G
  <2>2. Len(frontier \o Round.reads) = Len(frontier) + Len(Round.reads)
    BY ONLY <1>3, <2>1, Joined
  <2> QED BY <1>1, <2>2
<1> HIDE DEF r, c, L
<1>6. r \in 0..BeamWidth /\ c \in 0..(BeamWidth + 0) /\ r + c <= BeamWidth + 0
  BY <1>2, <1>4
<1>7. selected' = selected + r + c /\ selected + r + c <= Cardinality(Nodes)
  BY <1>2, <1>4
<1>8. PipeFlying' = PipeFlying \cup L..(L + r - 1)
  <2>1. PipeFlying' = {t - 1 : t \in (L + 1)..(L + r)} /\ PipeFlying = {}
    BY <1>1 DEF PipeFlying
  <2>2. \A u \in L..(L + r - 1) : u + 1 \in (L + 1)..(L + r) /\ (u + 1) - 1 = u
    BY <1>4
  <2>3. \A t \in (L + 1)..(L + r) : t - 1 \in L..(L + r - 1)
    BY <1>4
  <2> QED BY <2>1, <2>2, <2>3
<1>9. PipeQueue' = PipeQueue
  BY <1>1 DEF PipeQueue
<1>10. TraversalReads' = ToSet(sector_buffers) \cup (L + 1)..(L + r)
  <2>1. pc' # "drain" /\ flying' = (L + 1)..(L + r) /\ sector_buffers' = sector_buffers
    BY <1>1
  <2> QED BY <2>1 DEF TraversalReads
<1>11. PipeMap' = Ring!InsertNew(L..(L + r - 1))
  <2>1. PipeMap' = MapOf(ToSet(sector_buffers) \cup (L + 1)..(L + r), L + r)
    BY <1>5, <1>10 DEF PipeMap
  <2> QED BY <1>1, <1>6, <2>1, DispatchMap DEF L
<1>12. Ring!LoopEntry(L + r - 0) = "process"
  <2>1. L + r - 0 \in Nat /\ L + r - 0 <= Cardinality(Nodes)
    BY <1>4, <1>7
  <2> QED BY <2>1, LoopGoesOn
<1>13. LoopEnds(Round) <=> Ring!LoopEnds(r, c)
  BY DEF LoopEnds, Ring!LoopEnds, r, c
<1>14. PipePc = "dispatch" /\ PipeQuery' = PipeQuery
       /\ PipePc' = IF Ring!LoopEnds(r, c) THEN "refine" ELSE Ring!LoopEntry(L + r - 0)
  <2>1. PipePc = "dispatch" /\ PipeQuery' = PipeQuery /\ PipePc' = pc'
    BY <1>1 DEF PipePc, PipeQuery, Refined
  <2> QED BY <1>1, <1>12, <1>13, <2>1
<1>15. Ring!RoundOpen
  BY <1>1 DEF RoundOpen, Ring!RoundOpen
<1>16. n_io_in_q' = n_io_in_q + r /\ n_cached_in_q' = n_cached_in_q + c
  BY <1>1, <1>4
<1>17. Ring!Dispatch(r, c)
  BY <1>1, <1>5, <1>6, <1>7, <1>8, <1>9, <1>11, <1>14, <1>15, <1>16
     DEF Ring!Dispatch, Ring!embedding, L
<1> QED BY <1>6, <1>17

\* A batch of the refinement is one of the pipeline; the map stays empty.
LEMMA SubmitStep ==
  ASSUME RingFits, Inv, Ring!IInv, SubmitEmbeddings
  PROVE  \E r \in 0..MaxReads : Ring!SubmitEmbeddings(r)
<1> DEFINE r == Len(Batch.reads)
           L == Len(frontier)
<1>1. /\ pc = "embed" /\ pc' = "drain" /\ l_idx < embedding_search_L
      /\ frontier' = frontier \o Batch.reads
      /\ flying' = flying \cup (L + 1)..(L + r)
      /\ n_ops' = r
      /\ l_idx' = l_idx + BatchSize
      /\ UNCHANGED <<sector_buffers, n_io_in_q, n_proc_in_q, n_cached_in_q,
                     embedding_search_L, selected>>
  BY Zenon DEF SubmitEmbeddings, Batch, cached
<1>2. BatchSize \in Nat /\ Batch \in BatchState /\ r <= BatchSize
  BY <1>1, BatchFacts DEF BatchAt
<1>3. BatchSize <= MaxReads /\ BatchSize = Ring!BatchSize
  <2>1. l_idx \in Nat /\ embedding_search_L \in Nat /\ MaxReads \in Nat
    BY ConstantFacts DEF Inv, TypeOK
  <2> QED BY <2>1 DEF BatchSize, Ring!BatchSize
<1>4. /\ Batch.reads \in Seq([id : Nodes \cup {NoNode}, pid : Pages])
      /\ frontier \in Seq([id : Nodes \cup {NoNode}, pid : Pages])
  BY <1>2 DEF BatchState, Inv, TypeOK
<1>5. r \in Nat /\ L \in Nat /\ MaxReads \in Nat
  BY <1>4, LenProperties, ConstantFacts
<1>6. Len(frontier') = L + r
  <2>1. Len(frontier \o Batch.reads) = Len(frontier) + Len(Batch.reads)
    BY ONLY <1>4, Joined
  <2> QED BY <1>1, <2>1
<1> HIDE DEF r, L
<1>7. r \in 0..MaxReads
  BY <1>2, <1>3, <1>5
<1>8. PipeFlying' = PipeFlying \cup L..(L + r - 1)
  <2>1. PipeFlying' = {t - 1 : t \in flying \cup (L + 1)..(L + r)}
    BY <1>1 DEF PipeFlying
  <2>2. \A u \in L..(L + r - 1) : u + 1 \in (L + 1)..(L + r) /\ (u + 1) - 1 = u
    BY <1>5
  <2>3. \A t \in (L + 1)..(L + r) : t - 1 \in L..(L + r - 1)
    BY <1>5
  <2>4. {t - 1 : t \in (L + 1)..(L + r)} = L..(L + r - 1)
    BY <2>2, <2>3
  <2>5. {t - 1 : t \in flying \cup (L + 1)..(L + r)}
          = {t - 1 : t \in flying} \cup {t - 1 : t \in (L + 1)..(L + r)}
    OBVIOUS
  <2> QED BY <2>1, <2>4, <2>5 DEF PipeFlying
<1>9. PipeQueue' = PipeQueue
  BY <1>1 DEF PipeQueue
<1>10. TraversalReads = {} /\ TraversalReads' = {}
  BY <1>1, RingFacts DEF Traversal, TraversalReads
<1>11. PipeMap' = PipeMap
  BY <1>10, QuietMap DEF Inv
<1>12. PipePc = "embed" /\ PipePc' = "drain" /\ PipeQuery' = PipeQuery
  BY <1>1 DEF PipePc, PipeQuery, Refined
<1>13. Ring!SubmitEmbeddings(r)
  BY <1>1, <1>2, <1>3, <1>6, <1>8, <1>9, <1>11, <1>12
     DEF Ring!SubmitEmbeddings, Ring!counters, L
<1> QED BY <1>7, <1>13

\* The pipeline's module counts as this one does.
LEMMA RingCardinality ==
  ASSUME NEW S
  PROVE  Ring!Cardinality(S) = Cardinality(S)
BY DEF Ring!Cardinality, Cardinality

\* The refinement's reads complete.
LEMMA DrainStep ==
  ASSUME RingFits, Inv, Ring!IInv, NEW finished \in SUBSET flying, DrainEmbeddings(finished)
  PROVE  \E done \in SUBSET PipeFlying : Ring!DrainEmbeddings(done)
<1> DEFINE done == {t - 1 : t \in finished}
<1>1. /\ pc = "drain" /\ pc' = "drain"
      /\ Cardinality(finished) \in 1..n_ops
      /\ flying' = flying \ finished /\ n_ops' = n_ops - Cardinality(finished)
      /\ UNCHANGED <<frontier, sector_buffers, n_io_in_q, n_proc_in_q, n_cached_in_q,
                     embedding_search_L, l_idx, selected>>
  BY Zenon DEF DrainEmbeddings, cached
<1>2. flying \subseteq Nat /\ IsFiniteSet(flying)
  BY TypeFacts DEF Inv, TypeOK
<1>3. finished \subseteq Nat /\ IsFiniteSet(finished)
  BY <1>2, FS_Subset
<1>4. Cardinality(done) = Cardinality(finished)
  BY <1>3, SameNumber
<1>5. PipeFlying' = PipeFlying \ done /\ done \in SUBSET PipeFlying
  <2>1. PipeFlying' = {t - 1 : t \in flying \ finished}
    BY <1>1 DEF PipeFlying
  <2>2. \A t, u \in flying : t - 1 = u - 1 => t = u
    <3> SUFFICES ASSUME NEW t \in flying, NEW u \in flying, t - 1 = u - 1 PROVE t = u
      OBVIOUS
    <3>1. t \in Nat /\ u \in Nat
      BY <1>2
    <3> QED BY <3>1
  <2> QED BY <2>1, <2>2 DEF PipeFlying
<1>6. PipeQueue' = PipeQueue
  BY <1>1 DEF PipeQueue
<1>7. TraversalReads = {} /\ TraversalReads' = {}
  BY <1>1 DEF TraversalReads
<1>8. PipeMap' = PipeMap
  BY <1>7, QuietMap DEF Inv
<1>9. PipePc = "drain" /\ PipePc' = "drain" /\ PipeQuery' = PipeQuery
      /\ Len(frontier') = Len(frontier)
  BY <1>1 DEF PipePc, PipeQuery, Refined
<1> HIDE DEF done
<1>10. Ring!DrainEmbeddings(done)
  BY <1>1, <1>4, <1>5, RingCardinality, <1>6, <1>8, <1>9 DEF Ring!DrainEmbeddings,
     Ring!counters
<1> QED BY <1>5, <1>10

\* Every step of the search is one of the pipeline, or none of its business.
LEMMA RingNext ==
  ASSUME RingFits, Inv, Inv', Counted, Ring!IInv, [Next]_vars
  PROVE  [Ring!Next]_(Ring!vars)
<1>1. CASE \E list \in StartLists : StartQuery(list)
  BY <1>1, StartQueryStep DEF Ring!Next
<1>2. CASE Process
  BY <1>2, ProcessStep DEF Ring!Next
<1>3. CASE \E n \in 0..n_io_in_q : Collect(n)
  BY <1>3, CollectStep DEF Ring!Next
<1>4. CASE Dispatch
  BY <1>4, DispatchStep DEF Ring!Next
<1>5. CASE SkipDispatch
  BY <1>5, SkipDispatchStep DEF Ring!Next
<1>6. CASE BeginRefine
  BY <1>6, BeginRefineStep DEF Ring!Next
<1>7. CASE SubmitEmbeddings
  BY <1>7, SubmitStep DEF Ring!Next
<1>8. CASE \E finished \in SUBSET flying : DrainEmbeddings(finished)
  BY <1>8, DrainStep DEF Ring!Next
<1>9. CASE EndBatch
  BY <1>9, EndBatchStep DEF Ring!Next
<1>10. CASE SortResults
  BY <1>10, SortResultsStep DEF Ring!Next
<1>11. CASE (\E n \in Nodes : CopyEntry(n)) \/ EndQuery
  <2>1. /\ pc \in Refined /\ pc' \in Refined
        /\ UNCHANGED <<frontier, flying, sector_buffers, n_io_in_q, n_proc_in_q, n_cached_in_q,
                       embedding_search_L, l_idx, n_ops, selected>>
    BY <1>11 DEF CopyEntry, EndQuery, Refined, ring, cached, refine
  <2> QED BY <2>1, CopyStep
<1>12. CASE UNCHANGED vars
  <2>1. /\ pc' = pc
        /\ UNCHANGED <<frontier, flying, sector_buffers, n_io_in_q, n_proc_in_q, n_cached_in_q,
                       embedding_search_L, l_idx, n_ops, selected>>
    BY <1>12 DEF vars, ring, cached, refine
  <2>2. PipePc' = PipePc /\ PipeQuery' = PipeQuery
    BY <2>1 DEF PipePc, PipeQuery
  <2>3. PipeFlying' = PipeFlying /\ PipeQueue' = PipeQueue /\ TraversalReads' = TraversalReads
    BY <2>1 DEF PipeFlying, PipeQueue, TraversalReads
  <2>4. PipeMap' = PipeMap
    BY <2>1, <2>3 DEF PipeMap
  <2> QED BY <2>1, <2>2, <2>3, <2>4 DEF Ring!vars, Ring!ring, Ring!counters, Ring!embedding
<1> QED BY Zenon, <1>1, <1>2, <1>3, <1>4, <1>5, <1>6, <1>7, <1>8, <1>9, <1>10, <1>11, <1>12
        DEF Next, Stopped

\* A query and the pipeline start with nothing read.
LEMMA RingBegins ==
  ASSUME RingFits, Init
  PROVE  Counted /\ Ring!Init
<1>1. /\ pc = "start" /\ frontier = <<>> /\ flying = {} /\ sector_buffers = <<>>
      /\ n_io_in_q = 0 /\ n_proc_in_q = 0 /\ n_cached_in_q = 0
      /\ embedding_search_L = 0 /\ l_idx = 0 /\ n_ops = 0 /\ selected = 0
  BY DEF Init
<1>2. Counted
  <2>1. Cardinality(Chosen) \in Nat
    BY InitInv, ChosenFinite DEF Inv
  <2> QED BY <1>1, <2>1 DEF Counted
<1>3. PipePc = "start" /\ PipeQuery = 0 /\ PipeFlying = {} /\ PipeQueue = <<>>
      /\ Len(frontier) = 0
  BY <1>1 DEF PipePc, PipeQuery, PipeFlying, PipeQueue, Refined
<1>4. PipeMap = Ring!NoEntries
  <2>1. TraversalReads = {}
    BY <1>1 DEF TraversalReads, ToSet
  <2> QED BY <2>1, EmptyMap DEF PipeMap
<1> QED BY <1>1, <1>2, <1>3, <1>4 DEF Ring!Init

\* The pipeline of PageSearch and of its proofs are the same.
LEMMA SamePipeline ==
  /\ Ring!Init => Pipeline!Init
  /\ [Ring!Next]_(Ring!vars) => [Pipeline!Next]_(Pipeline!vars)
<1> USE DEF PipePc, PipeQuery, PipeFlying, PipeQueue, PipeMap, MapOf
<1>1. Ring!Init => Pipeline!Init
  BY DEF Ring!Init, Pipeline!Init, Ring!NoEntries, Pipeline!NoEntries, Ring!NoNode,
     Pipeline!NoNode
<1>2. Ring!vars = Pipeline!vars
  BY DEF Ring!vars, Ring!ring, Ring!counters, Ring!embedding,
         Pipeline!vars, Pipeline!ring, Pipeline!counters, Pipeline!embedding
<1>3. Ring!StartQuery => Pipeline!StartQuery
  BY DEF Ring!StartQuery, Pipeline!StartQuery, Ring!NoEntries, Pipeline!NoEntries,
     Ring!LoopEntry, Pipeline!LoopEntry, Ring!NoNode, Pipeline!NoNode
<1>4. Ring!Process => Pipeline!Process
  BY DEF Ring!Process, Pipeline!Process, Ring!Buffer, Pipeline!Buffer, Ring!Erase,
     Pipeline!Erase, Ring!NoNode, Pipeline!NoNode, Ring!embedding, Pipeline!embedding
<1>5. ASSUME NEW n, Ring!Collect(n) PROVE Pipeline!Collect(n)
  BY <1>5 DEF Ring!Collect, Pipeline!Collect, Ring!Arrivals, Pipeline!Arrivals,
     Ring!ReadsOf, Pipeline!ReadsOf, Ring!TouchAll, Pipeline!TouchAll, Ring!Buffer,
     Pipeline!Buffer, Ring!NoNode, Pipeline!NoNode, Ring!embedding, Pipeline!embedding
<1>6. ASSUME NEW r, NEW c, Ring!Dispatch(r, c) PROVE Pipeline!Dispatch(r, c)
  BY <1>6 DEF Ring!Dispatch, Pipeline!Dispatch, Ring!RoundOpen, Pipeline!RoundOpen,
     Ring!InsertNew, Pipeline!InsertNew, Ring!Buffer, Pipeline!Buffer, Ring!LoopEnds,
     Pipeline!LoopEnds, Ring!LoopEntry, Pipeline!LoopEntry, Ring!embedding,
     Pipeline!embedding
<1>7. Ring!SkipDispatch => Pipeline!SkipDispatch
  BY DEF Ring!SkipDispatch, Pipeline!SkipDispatch, Ring!RoundOpen, Pipeline!RoundOpen,
     Ring!LoopEntry, Pipeline!LoopEntry, Ring!ring, Pipeline!ring, Ring!counters,
     Pipeline!counters, Ring!embedding, Pipeline!embedding
<1>8. Ring!BeginRefine => Pipeline!BeginRefine
  BY DEF Ring!BeginRefine, Pipeline!BeginRefine, Ring!ring, Pipeline!ring, Ring!counters,
     Pipeline!counters
<1>9. ASSUME NEW r, Ring!SubmitEmbeddings(r) PROVE Pipeline!SubmitEmbeddings(r)
  BY <1>9 DEF Ring!SubmitEmbeddings, Pipeline!SubmitEmbeddings, Ring!BatchSize,
     Pipeline!BatchSize, Ring!counters, Pipeline!counters
<1>10. ASSUME NEW done, Ring!DrainEmbeddings(done) PROVE Pipeline!DrainEmbeddings(done)
  BY <1>10 DEF Ring!DrainEmbeddings, Pipeline!DrainEmbeddings, Ring!Cardinality,
     Pipeline!Cardinality, Ring!counters, Pipeline!counters
<1>11. Ring!EndBatch => Pipeline!EndBatch
  BY DEF Ring!EndBatch, Pipeline!EndBatch, Ring!ring, Pipeline!ring, Ring!counters,
     Pipeline!counters, Ring!embedding, Pipeline!embedding
<1>12. Ring!EndQuery => Pipeline!EndQuery
  BY DEF Ring!EndQuery, Pipeline!EndQuery, Ring!ring, Pipeline!ring, Ring!counters,
     Pipeline!counters, Ring!embedding, Pipeline!embedding
<1>13. Ring!Stopped => Pipeline!Stopped
  BY DEF Ring!Stopped, Pipeline!Stopped, Ring!vars, Ring!ring, Ring!counters,
     Ring!embedding,
         Pipeline!vars, Pipeline!ring, Pipeline!counters, Pipeline!embedding
<1>14. Ring!Next => Pipeline!Next
  BY Zenon, <1>3, <1>4, <1>5, <1>6, <1>7, <1>8, <1>9, <1>10, <1>11, <1>12, <1>13
     DEF Ring!Next, Pipeline!Next
<1>15. [Ring!Next]_(Ring!vars) => [Pipeline!Next]_(Pipeline!vars)
  <2>1. (Ring!vars)' = (Pipeline!vars)'
    BY DEF Ring!vars, Ring!ring, Ring!counters, Ring!embedding,
           Pipeline!vars, Pipeline!ring, Pipeline!counters, Pipeline!embedding
  <2> QED BY Zenon, <1>2, <1>14, <2>1
<1> QED BY <1>1, <1>15

\* What every step preserves: the search's invariant, how many candidates were
\* selected, and the pipeline's invariant of the search's reads.
PipeInv == Inv /\ Counted /\ Ring!IInv

\* It is inductive, and makes every step one of the pipeline.
LEMMA PipeInvHolds ==
  ASSUME RingFits
  PROVE  /\ Init => PipeInv
         /\ PipeInv /\ [Next]_vars => PipeInv' /\ [Ring!Next]_(Ring!vars)
<1>1. Init => PipeInv
  BY InitInv, RingBegins, RingInit DEF PipeInv
<1>2. ASSUME PipeInv, [Next]_vars PROVE PipeInv' /\ [Ring!Next]_(Ring!vars)
  <2> USE DEF PipeInv
  <2>1. Inv'
    BY <1>2, NextInv
  <2>2. Counted'
    BY <1>2, <2>1, NextCounted
  <2>3. [Ring!Next]_(Ring!vars)
    BY <1>2, <2>1, RingNext
  <2>4. Ring!IInv'
    BY <1>2, <2>3, RingStep
  <2> QED BY <2>1, <2>2, <2>3, <2>4
<1> QED BY <1>1, <1>2

\* ImplementsPipeline: when the ring has room for the beam, a query issues,
\* collects and parses its reads as the pipeline does, whatever the graph, the
\* distances and the order of completions; which candidates a round selects and
\* how many a batch has to read are among the choices the pipeline leaves open.
THEOREM SearchImplementsPipeline ==
  ASSUME RingFits
  PROVE  Spec => ImplementsPipeline
<1>1. Init => PipeInv /\ Pipeline!Init
  BY PipeInvHolds, RingBegins, SamePipeline
<1>2. PipeInv /\ [Next]_vars => PipeInv' /\ [Pipeline!Next]_(Pipeline!vars)
  BY PipeInvHolds, SamePipeline
<1> QED BY <1>1, <1>2, PTL DEF Spec, ImplementsPipeline, Pipeline!Spec

\* What is proved of the pipeline holds of the search: no sector buffer is handed
\* to the kernel while a page in it is owed to the query, a page is parsed under
\* the node it was read for, the loop's counters are exact, the refinement and
\* the next query find the ring quiet, and the queue of reads and that of nodes
\* that need none stay within their places.
RingSafe ==
  /\ Ring!BuffersExclusive /\ Ring!RightNode /\ Ring!CountersExact
  /\ Ring!QuietHandover /\ Ring!QueuesFit

\* RingSafe holds throughout every query of page_search, with its real choice of
\* candidates, when the ring has room for the beam.
THEOREM SearchKeepsRingSafe ==
  ASSUME RingFits
  PROVE  Spec => []RingSafe
<1>1. Init => PipeInv
  BY PipeInvHolds
<1>2. PipeInv /\ [Next]_vars => PipeInv'
  BY PipeInvHolds
<1>3. ASSUME PipeInv PROVE RingSafe
  <2>1. Ring!IInv
    BY <1>3 DEF PipeInv
  <2>2. Ring!BuffersExclusive
    BY <2>1, RingAssumption, Ring!Exclusive
  <2>3. Ring!RightNode
    BY <2>1, RingAssumption, Ring!HeadRecorded DEF Ring!RightNode, Ring!Traversal
  <2>4. Ring!CountersExact /\ Ring!QuietHandover
    BY <2>1 DEF Ring!IInv, Ring!QuietHandover, Ring!Owed, Ring!InQueue, Ring!Traversal
  <2>5. Ring!CachedQueueHoldsRound
    BY ConstantFacts DEF RingFits, Ring!CachedQueueHoldsRound
  <2>6. Ring!QueuesFit
    BY <2>1, <2>5, RingAssumption, Ring!QueuesBounded
  <2> QED BY <2>2, <2>3, <2>4, <2>6 DEF RingSafe
<1>4. PipeInv => RingSafe
  BY <1>3
<1> QED BY <1>1, <1>2, <1>4, PTL DEF Spec
=============================================================================
