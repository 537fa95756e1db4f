--------------------------- MODULE CandidateList ---------------------------
(***************************************************************************)
(* The sorted candidate list (retset) that the searches share: what        *)
(* InsertIntoPool (include/neighbor.h) and the lambdas around it do to it. *)
(* A list is a sequence of candidates, a candidate its id, its distance to *)
(* the query and whether it is still to be expanded.                       *)
(***************************************************************************)
EXTENDS Integers, FiniteSets, SequencesExt

CONSTANT LSearch    \* l_search, the capacity of the list

Candidate(d, n, flag) == [id |-> n, distance |-> d[n], flag |-> flag]
Ids(list) == {list[i].id : i \in 1..Len(list)}

\* Where InsertIntoPool puts a distance in a sorted list.  Its binary search
\* ends before the first larger distance, and before the last candidate when
\* that one is as far.  The exit for an equal id is not reached: an id is
\* offered once (visited).
InsertPos(list, d) ==
  IF list[1].distance > d THEN 1
  ELSE IF Last(list).distance < d THEN Len(list) + 1
  ELSE IF Last(list).distance = d THEN Len(list)
  ELSE CHOOSE i \in 1..Len(list) :
         list[i].distance > d /\ \A j \in 1..(i - 1) : list[j].distance <= d

\* Faulty: a candidate behind the last is refused although there is room.
add_to_retset_Refuses(list, c) ==
  IF c.distance >= Last(list).distance THEN list
  ELSE LET longer == InsertAt(list, InsertPos(list, c.distance), c)
       IN  IF Len(longer) > LSearch THEN Front(longer) ELSE longer

add_to_retset(list, c) ==
  IF Len(list) = LSearch /\ c.distance >= Last(list).distance THEN list
  ELSE LET longer == InsertAt(list, InsertPos(list, c.distance), c)
       IN  IF Len(longer) > LSearch THEN Front(longer) ELSE longer

\* What a query may start from: compute_and_add_to_retset, then a sort, which
\* may leave equal distances in any order.
Started(ids, d) ==
  {list \in [1..Len(ids) -> {Candidate(d, n, TRUE) : n \in ToSet(ids)}] :
     /\ Ids(list) = ToSet(ids)
     /\ \A i, j \in 1..Len(ids) :
          i < j => list[i].distance <= list[j].distance /\ list[i].id # list[j].id}

\* The neighbours that were not seen before, each once: visited.insert(m) took it.
TakeUnseen(a, m) ==
  IF m \in a.visited THEN a
  ELSE [visited |-> a.visited \cup {m}, ids |-> Append(a.ids, m)]
Fresh(s, nbrs) == FoldLeft(TakeUnseen, [visited |-> s.visited, ids |-> <<>>], nbrs).ids

\* Offer a node that was not seen before to the list of the search state s.
Offered(s, m, d) ==
  IF m \in s.visited THEN s
  ELSE [s EXCEPT !.visited = @ \cup {m},
                 !.retset = add_to_retset(@, Candidate(d, m, TRUE))]

\* compute_and_push_nbrs.
Offer(s, nbrs, d) == FoldLeft(LAMBDA a, m : Offered(a, m, d), s, nbrs)
-----------------------------------------------------------------------------
\* Sorted, without repetitions, and the nearest of all that were seen.
KeepsBest(list, seen, d) ==
  /\ \A i, j \in 1..Len(list) :
       i < j => list[i].distance <= list[j].distance /\ list[i].id # list[j].id
  /\ Ids(list) \subseteq seen
  /\ \A n \in seen \ Ids(list) : Len(list) = LSearch /\ d[n] >= Last(list).distance
=============================================================================
