---------------------------- MODULE VamanaBuild ----------------------------
(***************************************************************************)
(* Building a Vamana graph in memory (Index::build and link, src/index.cpp) *)
(* as a function of the points.  A point is a place on a line, pts[n + 1]  *)
(* that of node n, and the distance of two is the square of the difference; *)
(* a graph gives every node the list of its neighbours.  The threads of a  *)
(* batch only differ in the order in which they append to a list, which    *)
(* nothing depends on when the distances of a node are all different.      *)
(***************************************************************************)
EXTENDS CandidateList

CONSTANTS NumSyncs,     \* batches of a round (at least 40 in the code)
          MaxC          \* C: the candidates that pruning looks at

DivRoundUp(a, b) == (a + b - 1) \div b
Square(x) == x * x
NodesOf(pts) == 0..(Len(pts) - 1)
NodeSeq(pts) == [i \in 1..Len(pts) |-> i - 1]
DistFrom(pts, n) == [m \in NodesOf(pts) |-> Square(pts[m + 1] - pts[n + 1])]

\* The node nearest to the mean, the first of several.
calculate_entry_point(pts) ==
  LET sum == FoldLeft(LAMBDA s, x : s + x, 0, pts)
      off(n) == Square(Len(pts) * pts[n + 1] - sum)
  IN  CHOOSE n \in NodesOf(pts) :
        /\ \A m \in NodesOf(pts) : off(n) <= off(m)
        /\ \A m \in 0..(n - 1) : off(n) < off(m)
-----------------------------------------------------------------------------
(* Search and pruning of one node.                                         *)

\* Expand the nearest candidate that is still flagged.
ExpandNext(s, graph, d) ==
  LET flagged == {i \in 1..Len(s.retset) : s.retset[i].flag}
      k == CHOOSE i \in flagged : \A j \in flagged : i <= j
  IN  IF flagged = {} THEN s
      ELSE Offer([s EXCEPT !.retset[k].flag = FALSE,
                           !.expanded = Append(@, s.retset[k].id)],
                 graph[s.retset[k].id], d)

\* The nodes expanded from start on; each is expanded once at most.
iterate_to_fixed_point(pts, graph, start, d) ==
  FoldLeft(LAMBDA s, i : ExpandNext(s, graph, d),
           [retset |-> <<Candidate(d, start, TRUE)>>, visited |-> {start}, expanded |-> <<>>],
           NodeSeq(pts)).expanded

\* A chosen candidate occludes a farther one that is nearer to it than to the
\* node, by the factor alpha (in tenths).
Occludes(pts, d, alpha, i, t) ==
  LET djk == Square(pts[i + 1] - pts[t + 1])
  IN  d[i] < d[t] /\ (djk = 0 \/ 10 * d[t] > alpha * djk)

\* One pass over the pool, from the nearest on.
OccludePass(pts, pool, d, alpha, degree, chosen) ==
  FoldLeft(LAMBDA result, t :
             IF \/ Len(result) = degree \/ t \in ToSet(result)
                \/ \E i \in ToSet(result) : Occludes(pts, d, alpha, i, t)
             THEN result
             ELSE Append(result, t), chosen, pool)

\* Passes with a growing alpha: 1, then 1.2 if the last round's alpha allows it.
occlude_list(pts, pool, d, alpha, degree) ==
  FoldLeft(LAMBDA result, a : OccludePass(pts, pool, d, a, degree, result),
           <<>>, IF alpha >= 12 THEN <<10, 12>> ELSE <<10>>)

\* The neighbours kept of a pool.  The node itself may be in it: it takes one
\* of the places and is left out of the list.
prune_neighbors(pts, location, candidates, range, alpha, saturate) ==
  LET d == DistFrom(pts, location)
      sorted == SortSeq(candidates, LAMBDA a, b : d[a] < d[b])
      pool == SubSeq(sorted, 1, IF Len(sorted) > MaxC THEN MaxC ELSE Len(sorted))
      others(list) == SelectSeq(list, LAMBDA m : m # location)
      pruned == others(occlude_list(pts, pool, d, alpha, range))
  IN  IF saturate /\ alpha > 10
      THEN FoldLeft(LAMBDA list, m :
                      IF Len(list) < range /\ m \notin ToSet(list) THEN Append(list, m) ELSE list,
                    pruned, others(pool))
      ELSE pruned

\* Candidates of a node: what the search for it expands, then its neighbours.
SearchAndPrune(pts, graph, start, node, p) ==
  LET expanded == iterate_to_fixed_point(pts, graph, start, DistFrom(pts, node))
      more == SelectSeq(graph[node], LAMBDA m : m # node /\ m \notin ToSet(expanded))
  IN  prune_neighbors(pts, node, expanded \o more, p.range, p.alpha, p.saturate)
-----------------------------------------------------------------------------
(* Rounds and batches.                                                     *)

\* n is added to the lists of its neighbours.
batch_inter_insert(graph, n, list) ==
  FoldLeft(LAMBDA g, des :
             IF des = n \/ n \in ToSet(g[des]) THEN g ELSE [g EXCEPT ![des] = Append(@, n)],
           graph, list)

\* A list longer than limit is pruned again.
PruneLong(pts, graph, limit, p) ==
  [n \in {m \in DOMAIN graph : Len(graph[m]) > limit} |->
     prune_neighbors(pts, n, graph[n], p.range, p.alpha, p.saturate)] @@ graph

\* The nodes of a batch search the graph as it was before it.
LinkBatch(pts, graph, start, batch, p) ==
  LET lists == [n \in ToSet(batch) |-> SearchAndPrune(pts, graph, start, n, p)]
      back == FoldLeft(LAMBDA g, n : batch_inter_insert(g, n, lists[n]), lists @@ graph, batch)
  IN  PruneLong(pts, back, (13 * p.range) \div 10, p)

\* One round over all nodes, in batches of equal size.
LinkRound(pts, graph, start, p) ==
  LET size == DivRoundUp(Len(pts), NumSyncs)
  IN  FoldLeft(LAMBDA g, b :
                 LinkBatch(pts, g, start,
                           SelectSeq(NodeSeq(pts), LAMBDA n : n \div size = b), p),
               graph, [i \in 1..NumSyncs |-> i - 1])

\* Two rounds, the second with alpha 1.2, then no list longer than the range.
link(pts, range, saturate) ==
  LET start == calculate_entry_point(pts)
      p(alpha) == [range |-> range, alpha |-> alpha, saturate |-> saturate]
      first == LinkRound(pts, [n \in NodesOf(pts) |-> <<>>], start, p(10))
  IN  [start |-> start,
       lists |-> PruneLong(pts, LinkRound(pts, first, start, p(12)), range, p(12))]
=============================================================================
