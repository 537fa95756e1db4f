------------------------ MODULE CandidateListProofs ------------------------
(***************************************************************************)
(* Proofs about the candidate list: where a candidate is put, what the     *)
(* list holds afterwards, and that it keeps the nearest of all that was    *)
(* offered, whatever the distances are and whether they are distinct.      *)
(*                                                                         *)
(* Before them, what a fold from the left with the operator Op keeps,      *)
(* place by place: the fold of the community modules is an iteration over  *)
(* subsets of the places; the iteration exists, and the theorem is         *)
(* induction along it.  A search takes this module as an instance for each *)
(* of its loops, with the body of the loop for Op, and extends it for the  *)
(* lemmas about the list, which Op does not occur in.                      *)
(***************************************************************************)
EXTENDS CandidateList, SequenceTheorems, FiniteSetTheorems, WellFoundedInduction, TLAPS

CONSTANT Op(_, _)    \* what a loop does with the state so far and the next element

\* A set of numbers that is not empty has a least element.
LEMMA Least ==
  ASSUME NEW T, T \subseteq Nat, T # {}
  PROVE  \E x \in T : \A y \in T : x <= y
<1> DEFINE Below == {ss \in Nat \X Nat : ss[1] < ss[2]}
<1>1. \E x \in T : \A y \in T : ~ (<<y, x>> \in OpToRel(<, Nat))
  BY NatLessThanWellFounded, WFMin
<1>2. OpToRel(<, Nat) = Below
  BY Zenon DEF OpToRel
<1>3. \E x \in T : \A y \in T : ~ (<<y, x>> \in Below)
  BY <1>1, <1>2
<1>4. \A x, y \in T : ~ (<<y, x>> \in Below) => x <= y
  OBVIOUS
<1> QED BY <1>3, <1>4

\* The iteration g at the set s of places.
Iterated(base, seq, g, s) ==
  IF s = {} THEN base ELSE Op(g[s \ {Max(s)}], seq[Max(s)])

\* The iteration of the fold exists, on the subsets of the first n places.
LEMMA IterationOn ==
  ASSUME NEW base, NEW seq, NEW n \in Nat
  PROVE  \E g : g = [s \in SUBSET (1..n) |-> Iterated(base, seq, g, s)]
<1> DEFINE Is(g, k) == g = [s \in SUBSET (1..k) |-> Iterated(base, seq, g, s)]
           Without == {k \in Nat : ~ \E g : Is(g, k)}
<1> SUFFICES ASSUME n \in Without PROVE FALSE
  OBVIOUS
<1>1. PICK k \in Without : \A j \in Without : k <= j
  <2> HIDE DEF Without
  <2>1. Without \subseteq Nat
    BY DEF Without
  <2> QED BY <2>1, Least
<1>2. k # 0
  <2> SUFFICES ASSUME k = 0 PROVE FALSE
    OBVIOUS
  <2> DEFINE g == [s \in SUBSET (1..0) |-> base]
  <2>1. SUBSET (1..0) = {{}}
    BY SMT
  <2>2. Is(g, 0)
    BY <2>1 DEF Iterated
  <2> QED BY <2>2
<1>3. k \in Nat /\ k - 1 \in Nat /\ k - 1 \notin Without
  <2>1. k \in Nat
    BY <1>1
  <2> HIDE DEF Without
  <2> QED BY <1>1, <1>2, <2>1
<1>4. PICK g : Is(g, k - 1)
  BY <1>3
<1> DEFINE h == [s \in SUBSET (1..k) |-> IF s \subseteq 1..(k - 1) THEN g[s]
                                         ELSE Op(g[s \ {k}], seq[k])]
<1>5. ASSUME NEW s \in SUBSET (1..k) PROVE h[s] = Iterated(base, seq, h, s)
  <2>1. CASE s \subseteq 1..(k - 1)
    <3>1. h[s] = g[s]
      BY <2>1
    <3>2. g[s] = Iterated(base, seq, g, s)
      BY <1>4, <2>1
    <3>3. s # {} => h[s \ {Max(s)}] = g[s \ {Max(s)}]
      BY <2>1
    <3> QED BY <3>1, <3>2, <3>3 DEF Iterated
  <2>2. CASE ~(s \subseteq 1..(k - 1))
    <3>1. k \in s
      BY <1>1, <1>3, <2>2
    <3>2. Max(s) = k
      <4>1. s \subseteq Int /\ \A y \in s : k >= y
        BY <1>3
      <4>2. \A x \in s : (\A y \in s : x >= y) => x = k
        BY <1>3, <3>1, <4>1
      <4> QED BY <3>1, <4>1, <4>2 DEF Max
    <3>3. s \ {k} \subseteq 1..(k - 1)
      BY <1>1
    <3>4. h[s \ {k}] = g[s \ {k}]
      BY <3>3
    <3> QED BY <2>2, <3>1, <3>2, <3>4 DEF Iterated
  <2> QED BY <2>1, <2>2
<1>6. h = [s \in SUBSET (1..k) |-> Iterated(base, seq, h, s)]
  <2> DEFINE r == [s \in SUBSET (1..k) |-> Iterated(base, seq, h, s)]
  <2>1. DOMAIN h = SUBSET (1..k) /\ DOMAIN r = SUBSET (1..k)
    OBVIOUS
  <2>2. \A s \in SUBSET (1..k) : h[s] = r[s]
    BY <1>5
  <2>3. h = [s \in DOMAIN h |-> h[s]] /\ r = [s \in DOMAIN r |-> r[s]]
    OBVIOUS
  <2> HIDE DEF h, r
  <2>4. h = r
    BY <2>1, <2>2, <2>3
  <2> QED BY <2>4 DEF r
<1> HIDE DEF h
<1> QED BY <1>1, <1>6

\* What holds of the base, and at every place of what Op makes of it, holds of
\* the fold: S[i] is what is known of the result after i places.  The searches
\* go through their neighbours, pages and candidates by such folds.
THEOREM FoldKeeps ==
  ASSUME NEW base, NEW seq, NEW n \in Nat, NEW S,
         DOMAIN seq = 1..n,
         base \in S[0],
         \A i \in 1..n : \A s \in S[i - 1] : Op(s, seq[i]) \in S[i]
  PROVE  FoldLeft(Op, base, seq) \in S[n]
<1> DEFINE iter == CHOOSE g : g = [s \in SUBSET (1..n) |-> Iterated(base, seq, g, s)]
<1>1. iter = [s \in SUBSET (1..n) |-> Iterated(base, seq, iter, s)]
  BY IterationOn
<1>2. FoldLeft(Op, base, seq) = iter[1..n]
  BY DEF FoldLeft, MapThenFoldSet, Iterated
<1> HIDE DEF iter
<1> DEFINE Wrong == {k \in 0..n : iter[1..k] \notin S[k]}
<1>3. SUFFICES ASSUME Wrong # {} PROVE FALSE
  BY <1>2
<1>4. PICK k \in Wrong : \A j \in Wrong : k <= j
  <2>1. Wrong \subseteq Nat
    OBVIOUS
  <2> HIDE DEF Wrong
  <2> QED BY <1>3, <2>1, Least
<1>5. k \in 0..n /\ iter[1..k] \notin S[k]
  BY <1>4
<1>6. k # 0
  <2> SUFFICES ASSUME k = 0 PROVE FALSE
    OBVIOUS
  <2>1. 1..k = {} /\ 1..k \in SUBSET (1..n)
    OBVIOUS
  <2>2. iter[1..k] = base
    BY <1>1, <2>1 DEF Iterated
  <2> QED BY <1>5, <2>2
<1>7. k - 1 \in 0..n /\ k - 1 \notin Wrong
  <2> HIDE DEF Wrong
  <2> QED BY <1>4, <1>5, <1>6
<1>8. iter[1..(k - 1)] \in S[k - 1]
  BY <1>7
<1>9. 1..k \in SUBSET (1..n) /\ 1..k # {} /\ (1..k) \ {k} = 1..(k - 1)
  <2>1. n \in Nat /\ k \in 1..n
    BY <1>5, <1>6
  <2> QED BY ONLY <2>1
<1>10. Max(1..k) = k
  <2>1. k \in 1..k /\ \A x \in 1..k : k >= x /\ (x >= k => x = k)
    BY <1>5, <1>6
  <2> QED BY <2>1 DEF Max
<1>11. iter[1..k] = Op(iter[1..(k - 1)], seq[k])
  BY <1>1, <1>9, <1>10 DEF Iterated
<1> QED BY <1>5, <1>6, <1>8, <1>11
-----------------------------------------------------------------------------
(* The candidate list.                                                     *)

\* A list of nodes of N with their distances to the query.
ListOver(N, d) ==
  {list \in Seq([id : N, distance : Int, flag : BOOLEAN]) :
     \A i \in 1..Len(list) : list[i].distance = d[list[i].id]}

Sorted(list) == \A i, j \in 1..Len(list) : i < j => list[i].distance <= list[j].distance

\* What an entry of a list is.
LEMMA EntryType ==
  ASSUME NEW N, NEW d, NEW list \in ListOver(N, d), NEW i \in 1..Len(list)
  PROVE  /\ list[i] = [id |-> list[i].id, distance |-> list[i].distance, flag |-> list[i].flag]
         /\ list[i].id \in N /\ list[i].distance = d[list[i].id] /\ list[i].distance \in Int
         /\ list[i].flag \in BOOLEAN
<1>1. list \in Seq([id : N, distance : Int, flag : BOOLEAN])
  BY DEF ListOver
<1>2. list[i] \in [id : N, distance : Int, flag : BOOLEAN]
  BY <1>1, ElementOfSeq
<1>3. list[i].distance = d[list[i].id]
  BY DEF ListOver
<1> QED BY <1>2, <1>3

\* InsertPos finds the place that keeps a list sorted, behind the last
\* candidate only if that one is nearer.
LEMMA PlaceIsRight ==
  ASSUME NEW N, NEW d, NEW list \in ListOver(N, d), Len(list) >= 1, Sorted(list), NEW x \in Int
  PROVE  /\ InsertPos(list, x) \in 1..(Len(list) + 1)
         /\ \A j \in 1..Len(list) : j < InsertPos(list, x) => list[j].distance <= x
         /\ \A j \in 1..Len(list) : j >= InsertPos(list, x) => x <= list[j].distance
         /\ x < list[Len(list)].distance => InsertPos(list, x) <= Len(list)
<1> DEFINE n == Len(list)
           p == InsertPos(list, x)
<1>1. n \in Nat /\ n >= 1 /\ Last(list) = list[n]
  BY LenProperties DEF Last, ListOver
<1>2. \A i \in 1..n : list[i].distance \in Int
  BY EntryType
<1>3. \A i, j \in 1..n : i < j => list[i].distance <= list[j].distance
  BY DEF Sorted
<1>4. 1 \in 1..n /\ n \in 1..n
  BY <1>1
<1>5. CASE list[1].distance > x
  <2>1. p = 1
    BY <1>5 DEF InsertPos
  <2>2. \A j \in 1..n : x <= list[j].distance
    BY <1>1, <1>2, <1>3, <1>4, <1>5
  <2> QED BY <2>1, <2>2, <1>1
<1>6. CASE list[n].distance < x
  <2>1. p = n + 1
    BY <1>1, <1>2, <1>3, <1>4, <1>6 DEF InsertPos
  <2>2. \A j \in 1..n : list[j].distance <= x
    BY <1>1, <1>2, <1>3, <1>4, <1>6
  <2> QED BY <2>1, <2>2, <1>1, <1>2, <1>4, <1>6
<1>7. CASE list[n].distance = x
  <2>1. p = n
    BY <1>1, <1>2, <1>3, <1>4, <1>7 DEF InsertPos
  <2>2. \A j \in 1..n : list[j].distance <= x
    BY <1>1, <1>2, <1>3, <1>4, <1>7
  <2> QED BY <2>1, <2>2, <1>1, <1>7
<1>8. CASE list[1].distance <= x /\ x < list[n].distance
  <2> DEFINE Larger == {i \in 1..n : list[i].distance > x}
             First(i) == /\ list[i].distance > x
                         /\ \A j \in 1..(i - 1) : list[j].distance <= x
  <2>1. \E i \in Larger : \A j \in Larger : i <= j
    <3>1. Larger \subseteq Nat /\ Larger # {}
      BY <1>2, <1>4, <1>8
    <3> HIDE DEF Larger
    <3> QED BY <3>1, Least
  <2>2. \E i \in 1..n : First(i)
    <3>1. PICK i \in Larger : \A j \in Larger : i <= j
      BY <2>1
    <3>2. i \in 1..n /\ list[i].distance > x
      BY <3>1
    <3>3. ASSUME NEW j \in 1..(i - 1) PROVE list[j].distance <= x
      <4>1. j \in 1..n /\ j < i
        BY <1>1, <3>2
      <4>2. j \notin Larger
        BY <3>1, <3>2, <4>1
      <4> QED BY <4>1, <4>2, <1>2
    <3> QED BY <3>2, <3>3
  <2>3. p = CHOOSE i \in 1..n : First(i)
    <3>1. /\ ~(list[1].distance > x) /\ ~(Last(list).distance < x)
          /\ Last(list).distance # x
      BY <1>1, <1>2, <1>4, <1>8
    <3> QED BY ONLY <3>1 DEF InsertPos
  <2> HIDE DEF First, p
  <2>4. p \in 1..n /\ First(p)
    BY <2>2, <2>3
  <2> USE DEF First
  <2>5. \A j \in 1..n : j < p => list[j].distance <= x
    BY <1>1, <2>4
  <2>6. \A j \in 1..n : j >= p => x <= list[j].distance
    <3> SUFFICES ASSUME NEW j \in 1..n, j >= p PROVE x <= list[j].distance
      OBVIOUS
    <3>1. list[p].distance <= list[j].distance
      BY <1>1, <1>2, <1>3, <2>4
    <3> QED BY <3>1, <1>2, <2>4
  <2> QED BY <2>4, <2>5, <2>6, <1>1 DEF p
<1> QED BY <1>1, <1>2, <1>4, <1>5, <1>6, <1>7, <1>8

\* The list with c at place p.
LEMMA InsertAtFacts ==
  ASSUME NEW S, NEW s \in Seq(S), NEW p \in 1..(Len(s) + 1), NEW c \in S
  PROVE  /\ InsertAt(s, p, c) \in Seq(S)
         /\ Len(InsertAt(s, p, c)) = Len(s) + 1
         /\ \A i \in 1..(Len(s) + 1) :
              InsertAt(s, p, c)[i] = IF i < p THEN s[i] ELSE IF i = p THEN c ELSE s[i - 1]
<1> DEFINE n == Len(s)
           front == SubSeq(s, 1, p - 1)
           back == SubSeq(s, p, n)
<1>1. n \in Nat /\ p \in Int /\ 1 <= p /\ p <= n + 1 /\ \A i \in 1..n : s[i] \in S
  BY LenProperties, ElementOfSeq
<1>2. /\ front \in Seq(S) /\ Len(front) = p - 1
      /\ \A i \in 1..(p - 1) : front[i] = s[i]
  <2>1. \A i \in 1..(p - 1) : s[i] \in S
    BY <1>1
  <2>2. 1 \in Int /\ p - 1 \in Int
    BY <1>1
  <2>3. /\ front \in Seq(S) /\ Len(front) = IF 1 <= p - 1 THEN (p - 1) - 1 + 1 ELSE 0
        /\ \A i \in 1..((p - 1) - 1 + 1) : front[i] = s[1 + i - 1]
    BY ONLY <2>1, <2>2, SubSeqProperties
  <2> QED BY <2>3, <1>1
<1>3. /\ back \in Seq(S) /\ Len(back) = n + 1 - p
      /\ \A i \in 1..(n + 1 - p) : back[i] = s[p + i - 1]
  <2>1. \A i \in p..n : s[i] \in S
    BY <1>1
  <2>2. /\ back \in Seq(S) /\ Len(back) = IF p <= n THEN n - p + 1 ELSE 0
        /\ \A i \in 1..(n - p + 1) : back[i] = s[p + i - 1]
    BY ONLY <2>1, <1>1, SubSeqProperties
  <2> QED BY <2>2, <1>1
<1>4. <<c>> \in Seq(S) /\ Len(<<c>>) = 1 /\ <<c>>[1] = c
  OBVIOUS
<1>5. InsertAt(s, p, c) = front \o <<c>> \o back
  BY DEF InsertAt
<1> HIDE DEF front, back
<1> DEFINE left == front \o <<c>>
<1>6. /\ left \in Seq(S) /\ Len(left) = p
      /\ \A i \in 1..p : left[i] = IF i < p THEN front[i] ELSE c
  <2>1. /\ left \in Seq(S) /\ Len(left) = Len(front) + Len(<<c>>)
        /\ \A i \in 1..(Len(front) + Len(<<c>>)) :
             left[i] = IF i <= Len(front) THEN front[i] ELSE <<c>>[i - Len(front)]
    BY <1>2, <1>4, ConcatProperties
  <2> HIDE DEF left
  <2> QED BY <2>1, <1>1, <1>2, <1>4
<1> HIDE DEF left
<1>7. /\ left \o back \in Seq(S) /\ Len(left \o back) = Len(left) + Len(back)
      /\ \A i \in 1..(Len(left) + Len(back)) :
           (left \o back)[i] = IF i <= Len(left) THEN left[i] ELSE back[i - Len(left)]
  BY <1>3, <1>6, ConcatProperties
<1>8. InsertAt(s, p, c) = left \o back
  BY <1>5 DEF left
<1>9. ASSUME NEW i \in 1..(n + 1)
      PROVE  (left \o back)[i] = IF i < p THEN s[i] ELSE IF i = p THEN c ELSE s[i - 1]
  <2>1. CASE i < p
    BY <2>1, <1>1, <1>2, <1>3, <1>6, <1>7
  <2>2. CASE i = p
    BY <2>2, <1>1, <1>3, <1>6, <1>7
  <2>3. CASE i > p
    <3>1. i - p \in 1..(n + 1 - p) /\ p + (i - p) - 1 = i - 1
      BY <2>3, <1>1
    <3>2. back[i - p] = s[i - 1]
      BY <3>1, <1>3
    <3>3. i \in 1..(Len(left) + Len(back)) /\ ~(i <= Len(left)) /\ i - Len(left) = i - p
      BY <2>3, <1>1, <1>3, <1>6
    <3>4. (left \o back)[i] = back[i - p]
      BY <3>3, <1>7
    <3> QED BY <2>3, <3>2, <3>4, <1>1
  <2>4. i < p \/ i = p \/ i > p
    BY <1>1
  <2> QED BY <2>1, <2>2, <2>3, <2>4
<1> QED BY <1>1, <1>3, <1>6, <1>7, <1>8, <1>9

\* Entry i of a list with c put at place p.
Shifted(list, p, c, i) == IF i < p THEN list[i] ELSE IF i = p THEN c ELSE list[i - 1]

\* The place p keeps a list sorted.
RightPlace(list, p, x) ==
  /\ p \in 1..(Len(list) + 1)
  /\ \A j \in 1..Len(list) : (j < p => list[j].distance <= x) /\ (j >= p => x <= list[j].distance)

\* What added is when c was put at place p of the list: a list that was full has
\* lost its last.
Placed(N, list, p, c, added) ==
  /\ RightPlace(list, p, c.distance)
  /\ Len(list) = LSearch => p <= Len(list)
  /\ added \in Seq([id : N, distance : Int, flag : BOOLEAN])
  /\ Len(added) = IF Len(list) = LSearch THEN Len(list) ELSE Len(list) + 1
  /\ \A i \in 1..Len(added) : added[i] = Shifted(list, p, c, i)

\* add_to_retset refuses a candidate that is too far for a full list; else the
\* candidate is put in its place.
LEMMA AddShape ==
  ASSUME NEW N, NEW d, NEW list \in ListOver(N, d), LSearch \in Nat \ {0},
         Len(list) \in 1..LSearch, Sorted(list),
         NEW c \in [id : N, distance : Int, flag : BOOLEAN],
         ~(Len(list) = LSearch /\ c.distance >= Last(list).distance)
  PROVE  \E p \in 1..(Len(list) + 1) : Placed(N, list, p, c, add_to_retset(list, c))
<1> DEFINE E == [id : N, distance : Int, flag : BOOLEAN]
           n == Len(list)
           p == InsertPos(list, c.distance)
           longer == InsertAt(list, p, c)
           added == add_to_retset(list, c)
<1>1. n \in Nat /\ n >= 1 /\ n <= LSearch /\ LSearch \in Nat /\ list \in Seq(E)
      /\ Last(list) = list[n] /\ c.distance \in Int
  BY LenProperties DEF ListOver, Last
<1>2. RightPlace(list, p, c.distance) /\ p \in 1..(n + 1)
      /\ (c.distance < list[n].distance => p <= n)
  BY <1>1, PlaceIsRight DEF RightPlace
<1>3. n = LSearch => p <= n
  <2>1. n \in 1..Len(list)
    BY <1>1
  <2>2. list[n].distance \in Int
    BY <2>1, EntryType
  <2> QED BY <2>2, <1>1, <1>2
<1>4. added = IF Len(longer) > LSearch THEN Front(longer) ELSE longer
  BY Zenon DEF add_to_retset
<1> HIDE DEF p
<1>5. /\ longer \in Seq(E) /\ Len(longer) = n + 1
      /\ \A i \in 1..(n + 1) : longer[i] = Shifted(list, p, c, i)
  <2>1. list \in Seq(E) /\ p \in 1..(Len(list) + 1) /\ c \in E
    BY <1>1, <1>2
  <2> HIDE DEF E
  <2> QED BY <2>1, InsertAtFacts DEF Shifted
<1> HIDE DEF longer, added
<1>6. CASE n = LSearch
  <2>1. added = SubSeq(longer, 1, n)
    BY <1>1, <1>4, <1>5, <1>6 DEF Front
  <2>2. \A i \in 1..n : longer[i] \in E
    <3> HIDE DEF E
    <3>1. \A i \in 1..Len(longer) : longer[i] \in E
      BY <1>5, ElementOfSeq
    <3> QED BY <3>1, <1>1, <1>5
  <2>3. /\ SubSeq(longer, 1, n) \in Seq(E)
        /\ Len(SubSeq(longer, 1, n)) = IF 1 <= n THEN n - 1 + 1 ELSE 0
        /\ \A i \in 1..(n - 1 + 1) : SubSeq(longer, 1, n)[i] = longer[1 + i - 1]
    <3>1. 1 \in Int /\ n \in Int
      BY <1>1
    <3> QED BY ONLY <2>2, <3>1, SubSeqProperties
  <2>4. added \in Seq(E) /\ Len(added) = n /\ \A i \in 1..n : added[i] = longer[i]
    <3> DEFINE cut == SubSeq(longer, 1, n)
    <3> HIDE DEF E, cut
    <3>1. /\ cut \in Seq(E) /\ Len(cut) = IF 1 <= n THEN n - 1 + 1 ELSE 0
          /\ \A i \in 1..(n - 1 + 1) : cut[i] = longer[1 + i - 1]
      BY <2>3 DEF cut
    <3>2. cut \in Seq(E) /\ Len(cut) = n /\ \A i \in 1..n : cut[i] = longer[i]
      BY <3>1, <1>1
    <3> QED BY <2>1, <3>2 DEF cut
  <2>5. \A i \in 1..n : added[i] = Shifted(list, p, c, i)
    BY <2>4, <1>1, <1>5
  <2>6. Placed(N, list, p, c, added)
    BY <2>4, <2>5, <1>1, <1>2, <1>3, <1>6 DEF Placed
  <2> QED BY <2>6, <1>2 DEF added
<1>7. CASE n # LSearch
  <2>1. added = longer
    BY <1>1, <1>4, <1>5, <1>7
  <2>2. Placed(N, list, p, c, added)
    BY <2>1, <1>1, <1>2, <1>3, <1>5, <1>7 DEF Placed
  <2> QED BY <2>2, <1>2 DEF added
<1> QED BY <1>6, <1>7

\* A sorted list stays a sorted list of nodes with their distances, holds a
\* candidate at least, and everything in it was in it or is the new candidate.
LEMMA AddKeepsList ==
  ASSUME NEW N, NEW d, NEW list \in ListOver(N, d), LSearch \in Nat \ {0},
         Len(list) \in 1..LSearch, Sorted(list),
         NEW c \in [id : N, distance : Int, flag : BOOLEAN], c.distance = d[c.id]
  PROVE  /\ add_to_retset(list, c) \in ListOver(N, d)
         /\ Len(add_to_retset(list, c)) \in 1..LSearch
         /\ Sorted(add_to_retset(list, c))
         /\ \A i \in 1..Len(add_to_retset(list, c)) :
              \/ add_to_retset(list, c)[i] = c
              \/ \E j \in 1..Len(list) : add_to_retset(list, c)[i] = list[j]
<1> DEFINE n == Len(list)
           x == c.distance
           added == add_to_retset(list, c)
           m == Len(added)
<1>1. CASE Len(list) = LSearch /\ c.distance >= Last(list).distance
  <2>1. added = list
    BY <1>1 DEF add_to_retset
  <2> HIDE DEF added
  <2> QED BY <2>1 DEF added
<1>2. CASE ~(Len(list) = LSearch /\ c.distance >= Last(list).distance)
  <2>1. PICK p \in 1..(n + 1) : Placed(N, list, p, c, added)
    BY <1>2, AddShape
  <2>2. /\ RightPlace(list, p, c.distance)
        /\ n = LSearch => p <= n
        /\ added \in Seq([id : N, distance : Int, flag : BOOLEAN])
        /\ m = IF n = LSearch THEN n ELSE n + 1
        /\ \A i \in 1..m : added[i] = Shifted(list, p, c, i)
    BY <2>1 DEF Placed
  <2>3. n \in Nat /\ n >= 1 /\ n <= LSearch /\ LSearch \in Nat /\ m \in 1..LSearch /\ m <= n + 1
    BY <2>2, LenProperties DEF ListOver
  <2> HIDE DEF added, m
  <2>4. \A i \in 1..n : list[i].distance \in Int /\ list[i].distance = d[list[i].id]
    <3>1. \A i \in 1..n : list[i].distance \in Int
      BY EntryType
    <3>2. \A i \in 1..n : list[i].distance = d[list[i].id]
      BY DEF ListOver
    <3> QED BY <3>1, <3>2
  <2>5. \A i, j \in 1..n : i < j => list[i].distance <= list[j].distance
    BY DEF Sorted
  <2>6. \A i \in 1..m : added[i] = c \/ \E j \in 1..n : added[i] = list[j]
    <3> SUFFICES ASSUME NEW i \in 1..m PROVE added[i] = c \/ \E j \in 1..n : added[i] = list[j]
      OBVIOUS
    <3>1. i \in Int /\ p \in Int /\ i >= 1 /\ i <= n + 1 /\ p <= n + 1
      BY <2>2, <2>3
    <3>2. CASE i < p
      BY <3>1, <3>2, <2>2 DEF Shifted
    <3>3. CASE i = p
      BY <3>1, <3>3, <2>2 DEF Shifted
    <3>4. CASE i > p
      <4>1. i - 1 \in 1..n
        BY <3>1, <3>4, <2>2, <2>3
      <4>2. added[i] = list[i - 1]
        BY <3>1, <3>4, <2>2 DEF Shifted
      <4> QED BY <4>1, <4>2
    <3> QED BY <3>1, <3>2, <3>3, <3>4
  <2>7. \A i \in 1..m : added[i].distance = d[added[i].id]
    BY <2>4, <2>6
  <2>8. \A i, j \in 1..m : i < j => added[i].distance <= added[j].distance
    <3> SUFFICES ASSUME NEW i \in 1..m, NEW j \in 1..m, i < j
                 PROVE  added[i].distance <= added[j].distance
      OBVIOUS
    <3>1. /\ i \in Int /\ j \in Int /\ p \in Int /\ 1 <= i /\ i < j /\ j <= n + 1
          /\ x \in Int /\ 1 <= p
      BY <2>2, <2>3
    <3>2. /\ added[i] = Shifted(list, p, c, i) /\ added[j] = Shifted(list, p, c, j)
          /\ \A k \in 1..n : (k < p => list[k].distance <= x) /\ (k >= p => x <= list[k].distance)
      BY <2>2 DEF RightPlace
    <3>3. CASE j < p
      <4>1. added[i] = list[i] /\ added[j] = list[j] /\ i \in 1..n /\ j \in 1..n
        BY <3>1, <3>2, <3>3, <2>2, <2>3 DEF Shifted
      <4> QED BY <4>1, <2>5, <3>1
    <3>4. CASE j = p
      <4>1. added[i] = list[i] /\ added[j] = c /\ i \in 1..n
        BY <3>1, <3>2, <3>4, <2>3 DEF Shifted
      <4> QED BY <4>1, <3>1, <3>2, <3>4
    <3>5. CASE j > p /\ i < p
      <4>1. added[i] = list[i] /\ added[j] = list[j - 1] /\ i \in 1..n /\ j - 1 \in 1..n /\ j - 1 >= p
        BY <3>1, <3>2, <3>5, <2>3 DEF Shifted
      <4>2. list[i].distance <= x /\ x <= list[j - 1].distance
        BY <4>1, <3>2, <3>5
      <4>3. list[i].distance \in Int /\ list[j - 1].distance \in Int
        BY <4>1, <2>4
      <4> QED BY <4>1, <4>2, <4>3, <3>1
    <3>6. CASE j > p /\ i = p
      <4>1. added[i] = c /\ added[j] = list[j - 1] /\ j - 1 \in 1..n /\ j - 1 >= p
        BY <3>1, <3>2, <3>6, <2>3 DEF Shifted
      <4> QED BY <4>1, <3>1, <3>2
    <3>7. CASE j > p /\ i > p
      <4>1. /\ added[i] = list[i - 1] /\ added[j] = list[j - 1] /\ i - 1 < j - 1
            /\ i - 1 \in 1..n /\ j - 1 \in 1..n
        BY <3>1, <3>2, <3>7, <2>3 DEF Shifted
      <4> QED BY <4>1, <2>5
    <3> QED BY <3>1, <3>3, <3>4, <3>5, <3>6, <3>7
  <2> QED BY <2>2, <2>3, <2>6, <2>7, <2>8 DEF added, m, ListOver, Sorted
<1> QED BY <1>1, <1>2

\* The searches' claim about their list is kept when a node is offered that was
\* not seen before: also of all that were seen with it, the list holds the
\* nearest, sorted and each once.
LEMMA AddKeepsBest ==
  ASSUME NEW N, NEW d \in [N -> Int], NEW list \in ListOver(N, d), LSearch \in Nat \ {0},
         Len(list) \in 1..LSearch,
         NEW c \in [id : N, distance : Int, flag : BOOLEAN], c.distance = d[c.id],
         NEW seen, seen \subseteq N, c.id \notin seen, KeepsBest(list, seen, d)
  PROVE  KeepsBest(add_to_retset(list, c), seen \cup {c.id}, d)
<1> DEFINE n == Len(list)
           x == c.distance
           added == add_to_retset(list, c)
           m == Len(added)
           all == seen \cup {c.id}
<1>1. /\ n \in Nat /\ n >= 1 /\ n <= LSearch /\ LSearch \in Nat
      /\ Last(list) = list[n] /\ n \in 1..n
  BY LenProperties DEF ListOver, Last
<1>2. \A i \in 1..n : list[i].distance \in Int /\ list[i].distance = d[list[i].id]
  <2>1. \A i \in 1..n : list[i].distance \in Int
    BY EntryType
  <2>2. \A i \in 1..n : list[i].distance = d[list[i].id]
    BY DEF ListOver
  <2> QED BY <2>1, <2>2
<1>3. Sorted(list)
  BY DEF Sorted, KeepsBest
<1>4. \A i, j \in 1..n : i < j => list[i].id # list[j].id
  BY DEF KeepsBest
<1>5. \A i \in 1..n : list[i].id \in seen
  BY DEF KeepsBest, Ids
<1>6. \A k \in seen : (\A i \in 1..n : list[i].id # k) => n = LSearch /\ d[k] >= list[n].distance
  BY <1>1 DEF KeepsBest, Ids
<1>7. ASSUME NEW k \in all PROVE d[k] \in Int
  BY <1>7
<1>8. /\ added \in ListOver(N, d) /\ m \in 1..LSearch /\ Sorted(added)
      /\ \A i \in 1..m : added[i] = c \/ \E j \in 1..n : added[i] = list[j]
  BY <1>3, AddKeepsList
<1>9. m \in Nat /\ m >= 1 /\ Last(added) = added[m]
  BY <1>8 DEF Last
<1> HIDE DEF all
<1>10. SUFFICES /\ \A i, j \in 1..m : i < j => added[i].id # added[j].id
                /\ \A k \in all : (\A i \in 1..m : added[i].id # k) =>
                     m = LSearch /\ d[k] >= added[m].distance
  <2> HIDE DEF added
  <2>1. \A i, j \in 1..m : i < j => added[i].distance <= added[j].distance
    BY <1>8 DEF Sorted
  <2>2. \A i \in 1..m : added[i].id \in all
    BY <1>5, <1>8 DEF all
  <2>3. KeepsBest(added, all, d)
    BY <1>9, <1>10, <2>1, <2>2 DEF KeepsBest, Ids
  <2> QED BY <2>3 DEF added, all
<1>11. CASE Len(list) = LSearch /\ c.distance >= Last(list).distance
  <2>1. added = list
    BY <1>11 DEF add_to_retset
  <2> HIDE DEF added
  <2>2. ASSUME NEW k \in all, \A i \in 1..n : list[i].id # k
        PROVE  n = LSearch /\ d[k] >= list[n].distance
    <3>1. CASE k \in seen
      BY <2>2, <3>1, <1>6
    <3>2. CASE k = c.id
      BY <3>2, <1>1, <1>11
    <3> QED BY <3>1, <3>2 DEF all
  <2> QED BY <2>1, <2>2, <1>4
<1>12. CASE ~(Len(list) = LSearch /\ c.distance >= Last(list).distance)
  <2>1. PICK p \in 1..(n + 1) : Placed(N, list, p, c, added)
    BY <1>3, <1>12, AddShape
  <2> HIDE DEF added
  <2>2. /\ p \in 1..(n + 1) /\ p \in Int
        /\ \A k \in 1..n : (k < p => list[k].distance <= x) /\ (k >= p => x <= list[k].distance)
        /\ n = LSearch => p <= n
        /\ m = IF n = LSearch THEN n ELSE n + 1
        /\ \A i \in 1..m : added[i] = Shifted(list, p, c, i)
    BY <2>1, <1>1 DEF Placed, RightPlace
  <2>3. \A i \in 1..m : /\ i < p => added[i] = list[i] /\ i \in 1..n
                        /\ i = p => added[i] = c
                        /\ i > p => added[i] = list[i - 1] /\ i - 1 \in 1..n
    <3> SUFFICES ASSUME NEW i \in 1..m
                 PROVE  /\ i < p => added[i] = list[i] /\ i \in 1..n
                        /\ i = p => added[i] = c
                        /\ i > p => added[i] = list[i - 1] /\ i - 1 \in 1..n
      OBVIOUS
    <3>1. added[i] = Shifted(list, p, c, i) /\ i \in Int /\ i >= 1 /\ i <= n + 1
      BY <2>2, <1>1
    <3> QED BY <3>1, <2>2, <1>1 DEF Shifted
  <2>4. \A i, j \in 1..m : i < j => added[i].id # added[j].id
    <3> SUFFICES ASSUME NEW i \in 1..m, NEW j \in 1..m, i < j
                 PROVE  added[i].id # added[j].id
      OBVIOUS
    <3>1. i \in Int /\ j \in Int /\ c.id \notin seen
      OBVIOUS
    <3>2. CASE j < p
      <4>1. added[i] = list[i] /\ added[j] = list[j] /\ i \in 1..n /\ j \in 1..n
        BY <3>1, <3>2, <2>2, <2>3
      <4> QED BY <4>1, <1>4
    <3>3. CASE j = p
      <4>1. added[i] = list[i] /\ added[j] = c /\ i \in 1..n
        BY <3>1, <3>3, <2>2, <2>3
      <4> QED BY <4>1, <1>5, <3>1
    <3>4. CASE j > p /\ i < p
      <4>1. added[i] = list[i] /\ added[j] = list[j - 1] /\ i \in 1..n /\ j - 1 \in 1..n /\ i < j - 1
        BY <3>1, <3>4, <2>2, <2>3
      <4> QED BY <4>1, <1>4
    <3>5. CASE j > p /\ i = p
      <4>1. added[i] = c /\ added[j] = list[j - 1] /\ j - 1 \in 1..n
        BY <3>1, <3>5, <2>2, <2>3
      <4> QED BY <4>1, <1>5, <3>1
    <3>6. CASE j > p /\ i > p
      <4>1. /\ added[i] = list[i - 1] /\ added[j] = list[j - 1] /\ i - 1 < j - 1
            /\ i - 1 \in 1..n /\ j - 1 \in 1..n
        BY <3>1, <3>6, <2>2, <2>3
      <4> QED BY <4>1, <1>4
    <3> QED BY <3>1, <3>2, <3>3, <3>4, <3>5, <3>6, <2>2
  <2>5. ASSUME NEW k \in all, \A i \in 1..m : added[i].id # k
        PROVE  m = LSearch /\ d[k] >= added[m].distance
    <3>1. p \in 1..m /\ added[p] = c
      BY <2>2, <2>3, <1>1
    <3>2. k \in seen
      BY <3>1, <2>5 DEF all
    <3>3. \A j \in 1..n : list[j].id = k => j = m
      <4> SUFFICES ASSUME NEW j \in 1..n, list[j].id = k, j # m PROVE FALSE
        OBVIOUS
      <4>1. j \in 1..m /\ j + 1 \in 1..m /\ j \in Int /\ j + 1 - 1 = j
        BY <2>2, <1>1
      <4>2. added[j] = list[j] \/ added[j + 1] = list[j]
        BY <4>1, <2>2, <2>3
      <4> QED BY <4>1, <4>2, <2>5
    <3>4. n = LSearch /\ m = n
      <4>1. CASE \A i \in 1..n : list[i].id # k
        BY <4>1, <3>2, <1>6, <2>2
      <4>2. CASE \E i \in 1..n : list[i].id = k
        BY <4>2, <3>3, <1>1, <2>2
      <4> QED BY <4>1, <4>2
    <3>5. d[k] >= list[n].distance
      <4>1. CASE \A i \in 1..n : list[i].id # k
        BY <4>1, <3>2, <1>6
      <4>2. CASE \E i \in 1..n : list[i].id = k
        <5>1. list[n].id = k
          BY <4>2, <3>3, <3>4
        <5> QED BY <5>1, <1>1, <1>2
      <4> QED BY <4>1, <4>2
    <3>6. added[m].distance <= list[n].distance /\ added[m].distance \in Int
      <4>1. m \in 1..m /\ p <= m /\ m \in Int /\ n \in 1..n
        BY <3>1, <1>9, <1>1
      <4>2. CASE p = m
        <5>1. added[m] = c
          BY <4>1, <4>2, <3>1
        <5>2. x <= list[n].distance /\ x \in Int
          BY <4>1, <4>2, <3>4, <2>2
        <5> QED BY <5>1, <5>2
      <4>3. CASE p < m
        <5>1. added[m] = list[m - 1] /\ m - 1 \in 1..n /\ m - 1 < n
          BY <4>1, <4>3, <2>2, <2>3, <3>4
        <5>2. list[m - 1].distance <= list[n].distance
          BY <5>1, <1>1, <1>3 DEF Sorted
        <5> QED BY <5>1, <5>2, <1>2
      <4> QED BY <4>1, <4>2, <4>3, <2>2
    <3>7. d[k] \in Int /\ list[n].distance \in Int
      BY <1>1, <1>2, <1>7
    <3>8. d[k] >= added[m].distance
      BY <3>5, <3>6, <3>7
    <3> QED BY <3>4, <3>8
  <2> QED BY <2>4, <2>5
<1> QED BY <1>11, <1>12
-----------------------------------------------------------------------------
(* What the searches do with their lists and queues.                       *)

\* The list a query starts from.
LEMMA StartedFacts ==
  ASSUME NEW N, NEW d \in [N -> Int], NEW ids \in Seq(N), ids # <<>>, LSearch \in Nat,
         Len(ids) <= LSearch, NEW list \in Started(ids, d)
  PROVE  /\ list \in ListOver(N, d) /\ Len(list) \in 1..LSearch
         /\ \A i \in 1..Len(list) : list[i].flag
         /\ KeepsBest(list, ToSet(ids), d) /\ ToSet(ids) \subseteq N
<1> DEFINE k == Len(ids)
           C == {Candidate(d, n, TRUE) : n \in ToSet(ids)}
<1>1. ids \in Seq(N) /\ ids # <<>> /\ k <= LSearch
  OBVIOUS
<1>2. k \in Nat /\ k > 0 /\ ToSet(ids) \subseteq N
  <2>1. k \in Nat /\ k # 0 /\ DOMAIN ids = 1..k /\ \A i \in 1..k : ids[i] \in N
    BY <1>1, LenProperties, EmptySeq, ElementOfSeq
  <2> QED BY <2>1 DEF ToSet
<1>3. /\ list \in [1..k -> C] /\ Ids(list) = ToSet(ids)
      /\ \A i, j \in 1..k : i < j => list[i].distance <= list[j].distance /\ list[i].id # list[j].id
  BY DEF Started
<1>4. \A c \in C : /\ c \in [id : N, distance : Int, flag : BOOLEAN]
                   /\ c.distance = d[c.id] /\ c.flag
  <2> SUFFICES ASSUME NEW n \in N
               PROVE  LET c == Candidate(d, n, TRUE)
                      IN  /\ c \in [id : N, distance : Int, flag : BOOLEAN]
                          /\ c.distance = d[c.id] /\ c.flag
    BY <1>2
  <2> QED BY DEF Candidate
<1> HIDE DEF C, k
<1>5. /\ list \in Seq([id : N, distance : Int, flag : BOOLEAN]) /\ Len(list) = k
      /\ \A i \in 1..k : list[i] \in C
  <2> DEFINE E == [id : N, distance : Int, flag : BOOLEAN]
  <2>1. C \subseteq E
    BY <1>4
  <2> HIDE DEF E
  <2>2. list \in [1..k -> E]
    BY <2>1, <1>3
  <2>3. list \in Seq(E) /\ Len(list) = k
    BY <2>2, <1>2
  <2> QED BY <2>3, <1>3 DEF E
<1>6. list \in ListOver(N, d)
  BY <1>4, <1>5 DEF ListOver
<1>7. Len(list) \in 1..LSearch
  BY <1>1, <1>2, <1>5 DEF k
<1>8. KeepsBest(list, ToSet(ids), d)
  BY <1>3, <1>5 DEF KeepsBest
<1> QED BY <1>2, <1>4, <1>5, <1>6, <1>7, <1>8

\* Marking an entry changes nothing else of it.
LEMMA Marked ==
  ASSUME NEW N, NEW x \in [id : N, distance : Int, flag : BOOLEAN]
  PROVE  LET y == [x EXCEPT !.flag = FALSE]
         IN  /\ y \in [id : N, distance : Int, flag : BOOLEAN]
             /\ y.id = x.id /\ y.distance = x.distance /\ ~y.flag
OBVIOUS

\* A candidate is marked.
LEMMA Unflagged ==
  ASSUME NEW N, NEW d, NEW list \in ListOver(N, d), NEW k \in 1..Len(list)
  PROVE  LET new == [list EXCEPT ![k].flag = FALSE]
         IN  /\ new \in ListOver(N, d) /\ Len(new) = Len(list) /\ ~new[k].flag
             /\ \A i \in 1..Len(list) : i # k => new[i] = list[i]
             /\ \A i \in 1..Len(list) : new[i].id = list[i].id /\ new[i].distance = list[i].distance
<1> DEFINE E == [id : N, distance : Int, flag : BOOLEAN]
           e == [list[k] EXCEPT !.flag = FALSE]
           new == [list EXCEPT ![k] = e]
<1>1. list \in Seq(E) /\ \A i \in 1..Len(list) : list[i].distance = d[list[i].id]
  BY DEF ListOver
<1>2. list[k] \in E
  BY ONLY <1>1, k \in 1..Len(list), ElementOfSeq
<1>3. DOMAIN list = 1..Len(list) /\ Len(list) \in Nat
  BY ONLY <1>1, LenProperties
<1>4. [list EXCEPT ![k].flag = FALSE] = new
  OBVIOUS
<1>5. e \in E /\ ~e.flag /\ e.id = list[k].id /\ e.distance = list[k].distance
  BY ONLY <1>2, Marked
<1> HIDE DEF e, E
<1>6. /\ new \in Seq(E) /\ Len(new) = Len(list) /\ new[k] = e
      /\ \A i \in 1..Len(list) : i # k => new[i] = list[i]
  BY <1>1, <1>3, <1>5, ExceptSeq
<1> HIDE DEF new
<1>7. \A i \in 1..Len(list) : new[i].id = list[i].id /\ new[i].distance = list[i].distance
  BY <1>5, <1>6
<1>8. new \in ListOver(N, d)
  BY <1>1, <1>6, <1>7 DEF ListOver, E
<1> QED BY <1>4, <1>5, <1>6, <1>7, <1>8

\* Marks do not matter to what the list keeps.
LEMMA SameEntries ==
  ASSUME NEW d, NEW list, NEW new, NEW seen, Len(list) \in Nat \ {0}, Len(new) = Len(list),
         \A i \in 1..Len(list) : new[i].id = list[i].id /\ new[i].distance = list[i].distance,
         KeepsBest(list, seen, d)
  PROVE  KeepsBest(new, seen, d)
<1>1. Last(list) = list[Len(list)] /\ Last(new) = new[Len(list)] /\ Len(list) \in 1..Len(list)
  BY DEF Last
<1>2. Ids(new) = Ids(list)
  BY DEF Ids
<1>3. Last(new).distance = Last(list).distance
  BY <1>1
<1> QED BY <1>2, <1>3 DEF KeepsBest

\* Two lists joined.
LEMMA Joined ==
  ASSUME NEW S, NEW a \in Seq(S), NEW b \in Seq(S)
  PROVE  /\ a \o b \in Seq(S) /\ Len(a \o b) = Len(a) + Len(b)
         /\ \A i \in 1..Len(a) : i \in 1..Len(a \o b) /\ (a \o b)[i] = a[i]
         /\ \A i \in 1..Len(b) : /\ Len(a) + i \in 1..Len(a \o b)
                                 /\ (a \o b)[Len(a) + i] = b[i]
         /\ \A i \in 1..Len(a \o b) : i \in 1..Len(a) \/ \E j \in 1..Len(b) : i = Len(a) + j
         /\ ToSet(a \o b) = ToSet(a) \cup ToSet(b)
<1> DEFINE both == a \o b
           k == Len(a)
           l == Len(b)
<1>1. k \in Nat /\ l \in Nat
  BY LenProperties
<1>2. /\ both \in Seq(S) /\ Len(both) = k + l
      /\ \A i \in 1..(k + l) : both[i] = IF i <= k THEN a[i] ELSE b[i - k]
  BY ConcatProperties
<1>3. DOMAIN a = 1..k /\ DOMAIN b = 1..l /\ DOMAIN both = 1..(k + l)
  BY <1>2, LenProperties
<1> HIDE DEF both, k, l
<1>4. \A i \in 1..l : k + i \in 1..(k + l) /\ ~(k + i <= k) /\ (k + i) - k = i
  BY <1>1
<1>5. \A i \in 1..(k + l) : i \in 1..k \/ (i - k \in 1..l /\ i = k + (i - k))
  BY <1>1
<1>6. \A i \in 1..k : i \in 1..(k + l) /\ i <= k
  BY <1>1
<1>7. /\ \A i \in 1..k : i \in 1..Len(both) /\ both[i] = a[i]
      /\ \A i \in 1..l : k + i \in 1..Len(both) /\ both[k + i] = b[i]
      /\ \A i \in 1..Len(both) : i \in 1..k \/ \E j \in 1..l : i = k + j
  BY <1>2, <1>4, <1>5, <1>6
<1>8. ToSet(both) = ToSet(a) \cup ToSet(b)
  <2>1. /\ ToSet(both) = {both[i] : i \in 1..Len(both)} /\ ToSet(a) = {a[i] : i \in 1..k}
        /\ ToSet(b) = {b[i] : i \in 1..l}
    BY <1>2, <1>3 DEF ToSet
  <2>2. \A i \in 1..k : both[i] \in ToSet(both)
    BY <2>1, <1>7
  <2>3. \A i \in 1..l : both[k + i] \in ToSet(both)
    BY <2>1, <1>7
  <2>4. ToSet(a) \cup ToSet(b) \subseteq ToSet(both)
    BY <2>1, <2>2, <2>3, <1>7
  <2>5. \A i \in 1..Len(both) : both[i] \in ToSet(a) \cup ToSet(b)
    BY <2>1, <1>7
  <2> QED BY <2>1, <2>4, <2>5
<1> QED BY <1>2, <1>7, <1>8 DEF both, k, l

\* A list with one more.
LEMMA Appended ==
  ASSUME NEW S, NEW s \in Seq(S), NEW e \in S
  PROVE  /\ Append(s, e) \in Seq(S) /\ Len(Append(s, e)) = Len(s) + 1
         /\ ToSet(Append(s, e)) = ToSet(s) \cup {e}
         /\ e \in ToSet(Append(s, e)) /\ ToSet(s) \subseteq ToSet(Append(s, e))
<1> DEFINE a == Append(s, e)
<1>1. /\ a \in Seq(S) /\ Len(a) = Len(s) + 1 /\ Len(s) \in Nat
      /\ \A i \in 1..Len(s) : a[i] = s[i]
      /\ a[Len(s) + 1] = e
  BY AppendProperties, LenProperties
<1> HIDE DEF a
<1>2. ToSet(a) = {a[i] : i \in 1..Len(a)} /\ ToSet(s) = {s[i] : i \in 1..Len(s)}
  BY <1>1, LenProperties DEF ToSet
<1>3. ToSet(a) = ToSet(s) \cup {e}
  BY <1>1, <1>2
<1> QED BY <1>1, <1>3 DEF a

\* The orders in which the reads of a set can complete.
LEMMA CompletionOrder ==
  ASSUME NEW S, IsFiniteSet(S), NEW s \in SetToSeqs(S)
  PROVE  s \in Seq(S) /\ Len(s) = Cardinality(S) /\ S = {s[i] : i \in 1..Len(s)}
<1> DEFINE n == Cardinality(S)
<1>1. n \in Nat
  BY FS_CardinalityType
<1>2. s \in [1..n -> S] /\ \A i, j \in 1..n : i # j => s[i] # s[j]
  BY DEF SetToSeqs
<1> HIDE DEF n
<1>3. IsFiniteSet(1..n) /\ Cardinality(1..n) = n
  BY <1>1, FS_Interval
<1>4. s \in Injection(1..n, S)
  BY <1>2 DEF Injection, IsInjective
<1>5. s \in Surjection(1..n, S)
  BY <1>3, <1>4, FS_Injection DEF n
<1>6. s \in Seq(S) /\ Len(s) = n
  BY <1>1, <1>2
<1>7. S = {s[i] : i \in 1..n}
  BY <1>2, <1>5 DEF Surjection
<1> QED BY <1>6, <1>7 DEF n

\* New reads are numbered behind the old.
LEMMA Issued ==
  ASSUME NEW S, NEW f \in Seq(S), NEW r \in Seq(S)
  PROVE  LET w == (Len(f) + 1)..(Len(f) + Len(r))
         IN  /\ w \subseteq 1..Len(f \o r) /\ Cardinality(w) = Len(r)
             /\ \A i \in 1..Len(r) : Len(f) + i \in w
<1> DEFINE k == Len(f)
           l == Len(r)
           a == k + 1
           b == k + l
<1>1. k \in Nat /\ l \in Nat /\ Len(f \o r) = k + l
  BY LenProperties, ConcatProperties
<1> HIDE DEF k, l
<1>2. a \in Int /\ b \in Int
  BY <1>1
<1> HIDE DEF a, b
<1>3. Cardinality(a..b) = IF a > b THEN 0 ELSE b - a + 1
  BY <1>2, FS_Interval
<1>4. /\ IF a > b THEN l = 0 ELSE b - a + 1 = l
      /\ a..b \subseteq 1..(k + l)
      /\ \A i \in 1..l : k + i \in a..b
  BY <1>1 DEF a, b
<1>5. Cardinality(a..b) = l
  BY <1>3, <1>4
<1> QED BY <1>1, <1>4, <1>5 DEF a, b, k, l

\* A share of at most the whole is at most the whole.
LEMMA ShareBound ==
  ASSUME NEW d \in Nat \ {0}, NEW x \in Nat, NEW y \in Nat, y <= x * d
  PROVE  y \div d \in 0..x
<1> DEFINE q == y \div d
<1>1. q \in Int /\ y = d * q + (y % d) /\ y % d \in 0..(d - 1)
  BY SMT
<1> HIDE DEF q
<1>2. ASSUME q >= x + 1 PROVE FALSE
  <2>1. d * q >= d * (x + 1)
    BY <1>1, <1>2, SMT
  <2>2. d * (x + 1) = x * d + d
    BY SMT
  <2> QED BY <1>1, <2>1, <2>2, SMT
<1>3. ASSUME q <= -1 PROVE FALSE
  <2>1. d * q <= d * (-1)
    BY <1>1, <1>3, SMT
  <2> QED BY <1>1, <2>1, SMT
<1> QED BY <1>1, <1>2, <1>3 DEF q

\* A list without its first.
LEMMA TailIs ==
  ASSUME NEW S, NEW q \in Seq(S), Len(q) > 0
  PROVE  Tail(q) = [i \in 1..(Len(q) - 1) |-> q[i + 1]]
<1>1. Tail(q) \in Seq(S) /\ Len(Tail(q)) = Len(q) - 1
      /\ \A i \in 1..(Len(q) - 1) : Tail(q)[i] = q[i + 1]
  BY HeadTailProperties
<1>2. Len(q) - 1 \in Nat
  BY LenProperties
<1> QED BY <1>1, <1>2, LenProperties

\* Reads that are numbered one lower are as many.
LEMMA SameNumber ==
  ASSUME NEW S, S \subseteq Nat, IsFiniteSet(S)
  PROVE  Cardinality({t - 1 : t \in S}) = Cardinality(S)
<1> DEFINE R == {t - 1 : t \in S}
           f == [t \in S |-> t - 1]
<1>1. f \in [S -> R] /\ \A s, t \in S : f[s] = f[t] => s = t
  <2>1. \A s, t \in S : s - 1 = t - 1 => s = t
    <3> SUFFICES ASSUME NEW s \in S, NEW t \in S, s - 1 = t - 1 PROVE s = t
      OBVIOUS
    <3>1. s \in Nat /\ t \in Nat
      OBVIOUS
    <3> QED BY <3>1
  <2> QED BY <2>1
<1>2. \A u \in R : \E t \in S : f[t] = u
  OBVIOUS
<1>3. f \in Bijection(S, R)
  BY <1>1, <1>2 DEF Bijection, Injection, Surjection, IsInjective
<1>4. ExistsBijection(S, R)
  BY <1>3 DEF ExistsBijection
<1> QED BY <1>4, FS_Bijection
=============================================================================
