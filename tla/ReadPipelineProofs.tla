------------------------- MODULE ReadPipelineProofs -------------------------
(***************************************************************************)
(* Proofs about ReadPipeline for every beam, ring, graph and interleaving  *)
(* of completions: when MaxReads >= 2 * BeamWidth + DispatchBelow - 2 and  *)
(* no traversal is cut by io_limit, no sector buffer is reused while it is *)
(* owed, every sector is parsed under its own node, the counters are exact *)
(* and the thread hands a quiet ring from phase to phase and query to      *)
(* query.                                                                  *)
(***************************************************************************)
EXTENDS ReadPipeline, FiniteSetTheorems, SequenceTheorems, TLAPS

\* Quotient and remainder of a read number by the size of the ring.
LEMMA DivisionFacts ==
  ASSUME NEW M \in Nat \ {0}, NEW t \in Nat
  PROVE  /\ t % M \in 0..(M - 1)
         /\ t \div M \in Int
         /\ t = M * (t \div M) + (t % M)
BY SMT

\* A positive multiple of the ring's size is at least that size.
LEMMA MultipleBound ==
  ASSUME NEW M \in Nat \ {0}, NEW k \in Int, k >= 1
  PROVE  M * k >= M
<1>1. PICK j \in Nat : k = j + 1
  BY SMT
<1>2. M * k = M * j + M
  BY <1>1
<1>3. M * j >= 0
  BY SMT
<1> QED BY <1>2, <1>3

\* Two reads less than a turn of the ring apart use different buffers.
LEMMA SameTurn ==
  ASSUME NEW s \in Nat, NEW t \in Nat, s < t, t - s < MaxReads
  PROVE  Buffer(s) # Buffer(t)
<1> DEFINE M == MaxReads
           qs == s \div M
           qt == t \div M
<1> USE PipelineAssumption DEF PipelineAssumption
<1> SUFFICES ASSUME s % M = t % M PROVE FALSE
  BY DEF Buffer
<1>1. /\ qs \in Int /\ qt \in Int /\ s % M \in Int
      /\ s = M * qs + (s % M) /\ t = M * qt + (t % M)
  BY DivisionFacts
<1>2. t - s = M * qt - M * qs
  BY <1>1
<1>m. M \in Nat \ {0} /\ t - s < M
  OBVIOUS
<1> HIDE DEF M, qs, qt
<1>3. M * qt - M * qs = M * (qt - qs)
  BY <1>1, <1>m, SMT
<1>4. qt - qs >= 1
  <2>1. CASE qt - qs <= 0
    <3>1. M * (qs - qt) >= 0
      BY <2>1, <1>1, <1>m, SMT
    <3>2. M * (qs - qt) = -(t - s)
      BY <1>1, <1>2, <1>m, SMT
    <3> QED BY <3>1, <3>2
  <2> QED BY <2>1, <1>1
<1>5. M * (qt - qs) >= M
  BY <1>4, <1>1, <1>m, MultipleBound
<1> QED BY <1>2, <1>3, <1>5, <1>1, <1>m

\* Reads at most MaxReads numbers old share a buffer only with themselves.
LEMMA WindowExclusive ==
  ASSUME NEW next \in Nat, NEW s \in 0..(next - 1), NEW t \in 0..(next - 1),
         next - s <= MaxReads, next - t <= MaxReads, Buffer(s) = Buffer(t)
  PROVE  s = t
<1> USE PipelineAssumption DEF PipelineAssumption
<1>1. ~(s < t)
  BY SameTurn
<1>2. ~(t < s)
  BY SameTurn
<1> QED BY <1>1, <1>2

\* The reads in flight are finitely many.
LEMMA FlyingFinite ==
  ASSUME TypeOK
  PROVE  IsFiniteSet(flying) /\ Cardinality(flying) \in Nat
<1>1. IsFiniteSet(Reads)
  BY FS_Interval DEF TypeOK, Reads
<1>2. IsFiniteSet(flying)
  BY <1>1, FS_Subset DEF TypeOK
<1> QED BY <1>2, FS_CardinalityType

\* What get_events hands back: n different reads that were in flight.
LEMMA ArrivalFacts ==
  ASSUME TypeOK, NEW n \in Nat, NEW s \in Arrivals(n)
  PROVE  /\ s \in Seq(Reads) /\ Len(s) = n
         /\ \A i \in 1..n : s[i] \in flying
         /\ \A i, j \in 1..n : s[i] = s[j] => i = j
         /\ ReadsOf(s) = {s[i] : i \in 1..n}
         /\ ReadsOf(s) \subseteq flying
         /\ Cardinality(flying \ ReadsOf(s)) = Cardinality(flying) - n
<1>1. s \in [1..n -> flying] /\ \A i, j \in 1..n : s[i] = s[j] => i = j
  BY DEF Arrivals
<1>2. s \in Seq(Reads) /\ Len(s) = n
  BY <1>1 DEF TypeOK
<1>3. ReadsOf(s) = {s[i] : i \in 1..n} /\ ReadsOf(s) \subseteq flying
  BY <1>1, <1>2 DEF ReadsOf
<1>4. IsFiniteSet(1..n) /\ Cardinality(1..n) = n
  BY FS_Interval
<1>5. s \in Surjection(1..n, ReadsOf(s)) /\ s \in Injection(1..n, ReadsOf(s))
  <2>1. s \in [1..n -> ReadsOf(s)]
    BY <1>1, <1>3
  <2> QED BY <2>1, <1>1, <1>3 DEF Surjection, Injection, IsInjective
<1>6. Cardinality(ReadsOf(s)) = n
  BY <1>4, <1>5, FS_Surjection
<1>7. flying \cap ReadsOf(s) = ReadsOf(s)
  BY <1>3
<1>8. Cardinality(flying \ ReadsOf(s)) = Cardinality(flying) - n
  BY FlyingFinite, FS_Difference, <1>6, <1>7
<1> QED BY <1>1, <1>2, <1>3, <1>8
-----------------------------------------------------------------------------
\* A query thread starts with the inductive invariant.
LEMMA InitIInv == Init /\ NoIoLimit => IInv
<1> SUFFICES ASSUME Init, NoIoLimit PROVE IInv
  OBVIOUS
<1> USE PipelineAssumption DEF PipelineAssumption, Init, Traversal, InQueue, NoEntries
<1>1. TypeOK
  BY DEF TypeOK, Reads
<1>2. CountersExact
  BY DEF CountersExact
<1>3. OwedOnce /\ Window /\ MapExact
  BY DEF OwedOnce, Window, MapExact
<1> QED BY <1>1, <1>2, <1>3 DEF IInv

\* Outside the traversal the steps that only move on keep the invariant.
LEMMA MoveOnIInv ==
  ASSUME IInv, NoIoLimit, BeginRefine \/ EndBatch \/ EndQuery \/ Stopped \/ SkipDispatch
  PROVE  IInv'
<1> USE PipelineAssumption DEF PipelineAssumption, IInv, ring, counters, embedding
<1>1. CASE BeginRefine \/ EndBatch \/ EndQuery
  <2>1. flying = {}
    BY <1>1, FlyingFinite, FS_EmptySet DEF BeginRefine, EndBatch, EndQuery, CountersExact
  <2>2. TypeOK'
    <3>1. CASE BeginRefine
      <4>1. embedding_search_L' \in 0..EmbeddingL /\ l_idx' \in 0..embedding_search_L'
        BY <3>1 DEF BeginRefine
      <4> QED BY <3>1, <4>1 DEF BeginRefine, TypeOK, Reads, Traversal
    <3>2. CASE EndBatch \/ EndQuery
      BY <3>2 DEF EndBatch, EndQuery, TypeOK, Reads
    <3> QED BY <1>1, <3>1, <3>2
  <2>3. CountersExact' /\ OwedOnce' /\ Window' /\ MapExact'
    BY <1>1 DEF BeginRefine, EndBatch, EndQuery, CountersExact, OwedOnce, InQueue, Window,
                MapExact, Traversal
  <2> QED BY <1>1, <2>1, <2>2, <2>3 DEF BeginRefine, EndBatch, EndQuery, Traversal
<1>2. CASE Stopped
  BY <1>2 DEF Stopped, vars, TypeOK, Reads, CountersExact, OwedOnce, InQueue,
              Window, MapExact, Owed
<1>3. CASE SkipDispatch
  <2>1. pc' = "process"
    BY <1>3 DEF SkipDispatch, LoopEntry, NoIoLimit, TypeOK, Traversal
  <2>2. TypeOK'
    BY <1>3, <2>1 DEF SkipDispatch, TypeOK, Reads, Traversal
  <2>3. CountersExact' /\ OwedOnce' /\ Window' /\ MapExact'
    BY <1>3, <2>1 DEF SkipDispatch, CountersExact, OwedOnce, InQueue, Window,
                      MapExact, Traversal, Owed
  <2> QED BY <1>3, <2>1, <2>2, <2>3 DEF SkipDispatch, Traversal
<1> QED BY <1>1, <1>2, <1>3

\* A query starts with an empty ring, wherever the last one left it.
LEMMA StartQueryIInv ==
  ASSUME IInv, NoIoLimit, StartQuery
  PROVE  IInv'
<1> USE PipelineAssumption DEF PipelineAssumption, IInv, StartQuery
<1>1. flying = {} /\ sector_buffers = <<>>
  BY DEF Traversal
<1>2. base' \in Nat /\ issued' = base' /\ base' >= issued
  <2>1. PICK k \in 0..issued : MaxReads * k >= issued /\ base' = MaxReads * k
    OBVIOUS
  <2> HIDE DEF IInv, StartQuery
  <2>2. MaxReads \in Nat /\ k \in Nat /\ issued \in Nat
    BY DEF IInv, TypeOK
  <2>3. MaxReads * k \in Nat
    BY <2>2, SMT
  <2> QED BY <2>1, <2>3 DEF StartQuery
<1>3. pc' = "process"
  BY DEF LoopEntry, NoIoLimit
<1>4. TypeOK'
  BY <1>1, <1>2, <1>3 DEF TypeOK, Reads, NoEntries, Traversal
<1>5. CountersExact'
  BY <1>1, <1>3, FS_EmptySet DEF CountersExact
<1>6. OwedOnce' /\ Window' /\ MapExact'
  BY <1>1, <1>3 DEF OwedOnce, Window, MapExact, Owed, InQueue, Traversal, NoEntries
<1> QED BY <1>1, <1>2, <1>3, <1>4, <1>5, <1>6 DEF Traversal
-----------------------------------------------------------------------------
\* A read that is owed is at most one turn of the ring old.
LEMMA OwedInWindow ==
  ASSUME IInv, RingHoldsWindow, NEW t \in Owed
  PROVE  t \in Reads /\ issued - t <= MaxReads
<1> USE PipelineAssumption DEF PipelineAssumption, IInv
<1>1. CASE t \in flying
  BY <1>1 DEF TypeOK, Window, Traversal, Reads
<1>2. CASE t \in InQueue
  <2>1. PICK i \in 1..Len(sector_buffers) : t = sector_buffers[i]
    BY <1>2 DEF InQueue
  <2>2. pc \in Traversal
    BY <2>1
  <2>3. t \in Reads /\ Len(sector_buffers) = n_proc_in_q
    BY <2>1, <2>2 DEF TypeOK, CountersExact
  <2>4. issued - t <= BeamWidth + (n_proc_in_q - i) + n_io_in_q
    BY <2>1, <2>2, <2>3 DEF Window
  <2>5. i >= 1 /\ n_proc_in_q + n_io_in_q < BeamWidth + DispatchBelow
    BY <2>1, <2>2 DEF Window
  <2>6. /\ issued \in Nat /\ t \in Nat /\ i \in Nat
        /\ n_proc_in_q \in Nat /\ n_io_in_q \in Nat
    BY <2>1, <2>3 DEF TypeOK, Reads
  <2> HIDE DEF IInv
  <2> QED BY <2>3, <2>4, <2>5, <2>6 DEF RingHoldsWindow
<1> QED BY <1>1, <1>2 DEF Owed

\* Hence no two of them share a buffer.
LEMMA Exclusive ==
  ASSUME IInv, RingHoldsWindow
  PROVE  BuffersExclusive
<1> SUFFICES ASSUME NEW s \in Owed, NEW t \in Owed, Buffer(s) = Buffer(t)
             PROVE  s = t
  BY DEF BuffersExclusive
<1>1. issued \in Nat
  BY DEF IInv, TypeOK
<1> QED BY <1>1, OwedInWindow, WindowExclusive DEF Reads
-----------------------------------------------------------------------------
\* The sector at the head of the queue is recorded under its own read.
LEMMA HeadRecorded ==
  ASSUME IInv, pc \in Traversal, n_proc_in_q > 0
  PROVE  /\ sector_buffers # <<>>
         /\ Head(sector_buffers) = sector_buffers[1]
         /\ Head(sector_buffers) \in Owed
         /\ Buffer(Head(sector_buffers)) \in DOMAIN sec_buf2ftr
         /\ sec_buf2ftr[Buffer(Head(sector_buffers))] = Head(sector_buffers)
<1>1. Len(sector_buffers) = n_proc_in_q /\ sector_buffers \in Seq(Reads)
  BY DEF IInv, CountersExact, TypeOK
<1>2. sector_buffers # <<>> /\ 1 \in 1..Len(sector_buffers)
  BY <1>1 DEF IInv, TypeOK
<1>3. Head(sector_buffers) = sector_buffers[1]
  BY <1>1, <1>2
<1>4. Head(sector_buffers) \in Owed
  BY <1>2, <1>3 DEF Owed, InQueue
<1> QED BY <1>2, <1>3, <1>4 DEF IInv, MapExact

\* Processing takes the oldest sector and its entry away, and no other.
LEMMA ProcessIInv ==
  ASSUME IInv, RingHoldsWindow, Process
  PROVE  IInv'
<1> USE PipelineAssumption DEF PipelineAssumption
<1>a. pc \in Traversal /\ pc = "process"
  BY DEF Process, Traversal
<1>1. CASE n_proc_in_q = 0
  <2>1. TypeOK'
    BY <1>1 DEF IInv, Process, TypeOK, Reads, Traversal, embedding
  <2>2. CountersExact' /\ OwedOnce' /\ Window' /\ MapExact'
    BY <1>1, <1>a DEF IInv, Process, CountersExact, OwedOnce, Window, MapExact,
                      Owed, InQueue, Traversal, embedding
  <2> QED BY <1>1, <1>a, <2>1, <2>2 DEF IInv, Process, Traversal, TypeOK, embedding
<1>2. CASE n_proc_in_q # 0
  <2> DEFINE h == Head(sector_buffers)
  <2>1. n_proc_in_q > 0
    BY <1>2 DEF IInv, TypeOK
  <2>2. /\ sector_buffers # <<>> /\ h = sector_buffers[1] /\ h \in Owed
        /\ Buffer(h) \in DOMAIN sec_buf2ftr /\ sec_buf2ftr[Buffer(h)] = h
    BY <2>1, <1>a, HeadRecorded
  <2>3. /\ sector_buffers' = Tail(sector_buffers)
        /\ sec_buf2ftr' = Erase(Buffer(h))
        /\ n_proc_in_q' = n_proc_in_q - 1
        /\ n_cached_in_q' = 0
        /\ UNCHANGED <<query, base, issued, flying, n_io_in_q, selected, n_ops,
                       embedding_search_L, l_idx>>
    BY <1>2 DEF Process, embedding
  <2>4. h # NoNode
    BY <2>2, OwedInWindow DEF Reads, NoNode
  <2>5. pc' = "collect" /\ pc' \in Traversal
    BY <1>2, <2>2, <2>4 DEF Process, Traversal
  <2>6. /\ sector_buffers \in Seq(Reads) /\ Len(sector_buffers) = n_proc_in_q
        /\ sector_buffers' \in Seq(Reads) /\ Len(sector_buffers') = n_proc_in_q - 1
        /\ \A i \in 1..(n_proc_in_q - 1) : sector_buffers'[i] = sector_buffers[i + 1]
    <3>1. sector_buffers \in Seq(Reads) /\ Len(sector_buffers) = n_proc_in_q
      BY <1>a DEF IInv, TypeOK, CountersExact
    <3> QED BY <3>1, <2>2, <2>3, HeadTailProperties
  <2>t. n_proc_in_q \in Nat /\ n_io_in_q \in Nat /\ issued \in Nat
    BY DEF IInv, TypeOK
  <2>7. TypeOK'
    <3>1. \A b \in DOMAIN sec_buf2ftr' : sec_buf2ftr'[b] \in Reads \cup {NoNode}
      BY <2>3 DEF IInv, TypeOK, Erase
    <3> QED BY <3>1, <2>1, <2>3, <2>5, <2>6 DEF IInv, TypeOK, Reads
  <2>8. CountersExact'
    BY <1>a, <2>3, <2>5, <2>6 DEF IInv, CountersExact, Traversal
  <2>9. InQueue' = InQueue \ {h} /\ h \notin flying
    <3>1. \A i, j \in 1..n_proc_in_q : sector_buffers[i] = sector_buffers[j] => i = j
      BY <2>6 DEF IInv, OwedOnce
    <3>2. InQueue = {sector_buffers[i] : i \in 1..n_proc_in_q}
      BY <2>6 DEF InQueue
    <3>3. InQueue' = {sector_buffers[i + 1] : i \in 1..(n_proc_in_q - 1)}
      BY <2>6 DEF InQueue
    <3>4. InQueue' \subseteq InQueue \ {h}
      BY <3>1, <3>2, <3>3, <2>2, <2>t, <2>1
    <3>5. ASSUME NEW x \in InQueue, x # h PROVE x \in InQueue'
      <4>1. PICK i \in 1..n_proc_in_q : x = sector_buffers[i]
        BY <3>2
      <4>2. i # 1
        BY <4>1, <3>5, <2>2
      <4>3. i - 1 \in 1..(n_proc_in_q - 1) /\ x = sector_buffers[(i - 1) + 1]
        BY <4>1, <4>2, <2>t
      <4> QED BY <4>3, <3>3
    <3>6. h \in InQueue
      BY <3>2, <2>2, <2>1, <2>t
    <3> QED BY <3>4, <3>5, <3>6 DEF IInv, OwedOnce
  <2>10. OwedOnce'
    <3>1. flying' \cap InQueue' = {}
      BY <2>3, <2>9 DEF IInv, OwedOnce
    <3>2. ASSUME NEW i \in 1..(n_proc_in_q - 1), NEW j \in 1..(n_proc_in_q - 1),
                 sector_buffers'[i] = sector_buffers'[j]
          PROVE  i = j
      <4>1. sector_buffers[i + 1] = sector_buffers[j + 1]
        BY <2>6, <3>2
      <4>2. i + 1 \in 1..Len(sector_buffers) /\ j + 1 \in 1..Len(sector_buffers)
        BY <2>6, <2>t
      <4>3. i + 1 = j + 1
        BY <4>1, <4>2 DEF IInv, OwedOnce
      <4> QED BY <4>3
    <3> QED BY <3>1, <3>2, <2>6 DEF OwedOnce
  <2>11. Window'
    <3>1. n_proc_in_q' + n_io_in_q' < BeamWidth + DispatchBelow
      BY <1>a, <2>3, <2>t DEF IInv, Window
    <3>2. \A t \in flying' : issued' - t <= BeamWidth
      BY <1>a, <2>3 DEF IInv, Window
    <3>3. ASSUME NEW i \in 1..(n_proc_in_q - 1)
          PROVE  issued' - sector_buffers'[i]
                   <= BeamWidth + (n_proc_in_q - 1 - i) + n_io_in_q'
      <4>1. i + 1 \in 1..Len(sector_buffers) /\ sector_buffers'[i] = sector_buffers[i + 1]
        BY <2>6, <2>t
      <4>2. issued - sector_buffers[i + 1]
              <= BeamWidth + (n_proc_in_q - (i + 1)) + n_io_in_q
        BY <4>1, <1>a, <2>6 DEF IInv, Window
      <4>3. sector_buffers[i + 1] \in Nat
        BY <4>1, <2>6, <2>t, ElementOfSeq DEF Reads
      <4>4. issued' = issued /\ n_io_in_q' = n_io_in_q /\ i \in Nat
        BY <2>3
      <4> HIDE DEF h
      <4> QED BY <4>2, <4>3, <4>4, <4>1, <2>t
    <3> QED BY <3>1, <3>2, <3>3, <2>5, <2>6 DEF Window
  <2>12. MapExact'
    <3>1. DOMAIN sec_buf2ftr = {Buffer(t) : t \in Owed}
          /\ \A t \in Owed : sec_buf2ftr[Buffer(t)] = t
      BY <1>a DEF IInv, MapExact
    <3>2. Owed' = Owed \ {h}
      BY <2>3, <2>9 DEF Owed
    <3>3. \A t \in Owed' : Buffer(t) # Buffer(h)
      BY <3>2, <2>2, Exclusive DEF BuffersExclusive
    <3>4. DOMAIN sec_buf2ftr' = DOMAIN sec_buf2ftr \ {Buffer(h)}
          /\ \A b \in DOMAIN sec_buf2ftr' : sec_buf2ftr'[b] = sec_buf2ftr[b]
      BY <2>3 DEF Erase
    <3>5. DOMAIN sec_buf2ftr' = {Buffer(t) : t \in Owed'}
      BY <3>1, <3>2, <3>3, <3>4
    <3>6. \A t \in Owed' : sec_buf2ftr'[Buffer(t)] = t
      BY <3>1, <3>2, <3>3, <3>4
    <3>7. \A t : Buffer(t)' = Buffer(t)
      BY DEF Buffer
    <3> QED BY <3>5, <3>6, <3>7 DEF MapExact, Buffer
  <2> QED BY <1>a, <2>3, <2>5, <2>7, <2>8, <2>10, <2>11, <2>12 DEF IInv, Traversal
<1> QED BY <1>1, <1>2

\* Completions move from the kernel to the queue; nothing else changes owner.
LEMMA CollectIInv ==
  ASSUME IInv, NEW n \in 0..n_io_in_q, Collect(n)
  PROVE  IInv'
<1> USE PipelineAssumption DEF PipelineAssumption
<1>a. pc \in Traversal /\ pc = "collect" /\ pc' = "dispatch" /\ pc' \in Traversal
  BY DEF Collect, Traversal
<1>t. /\ n_proc_in_q \in Nat /\ n_io_in_q \in Nat /\ issued \in Nat /\ n \in Nat
      /\ TypeOK
  BY DEF IInv, TypeOK
<1>1. PICK s \in Arrivals(n) : /\ sector_buffers' = sector_buffers \o s
                               /\ flying' = flying \ ReadsOf(s)
                               /\ sec_buf2ftr' = TouchAll(ReadsOf(s))
  BY DEF Collect
<1>2. /\ n_io_in_q' = n_io_in_q - n /\ n_proc_in_q' = n_proc_in_q + n
      /\ UNCHANGED <<query, base, issued, n_cached_in_q, selected, n_ops,
                       embedding_search_L, l_idx>>
  BY DEF Collect, embedding
<1>3. /\ s \in Seq(Reads) /\ Len(s) = n
      /\ \A i \in 1..n : s[i] \in flying
      /\ \A i, j \in 1..n : s[i] = s[j] => i = j
      /\ ReadsOf(s) = {s[i] : i \in 1..n}
      /\ ReadsOf(s) \subseteq flying
      /\ Cardinality(flying \ ReadsOf(s)) = Cardinality(flying) - n
  BY <1>t, ArrivalFacts
<1>4. /\ sector_buffers \in Seq(Reads) /\ Len(sector_buffers) = n_proc_in_q
      /\ Cardinality(flying) = n_io_in_q
  BY <1>a DEF IInv, TypeOK, CountersExact
<1>5. /\ sector_buffers' \in Seq(Reads) /\ Len(sector_buffers') = n_proc_in_q + n
      /\ \A i \in 1..n_proc_in_q : sector_buffers'[i] = sector_buffers[i]
      /\ \A i \in 1..n : sector_buffers'[n_proc_in_q + i] = s[i]
  <2>1. /\ sector_buffers' \in Seq(Reads) /\ Len(sector_buffers') = n_proc_in_q + n
        /\ \A i \in 1..(n_proc_in_q + n) : sector_buffers'[i] =
             IF i <= n_proc_in_q THEN sector_buffers[i] ELSE s[i - n_proc_in_q]
    <3>1. s \in Seq(Reads) /\ sector_buffers \in Seq(Reads)
      BY <1>3, <1>4
    <3>2. /\ sector_buffers \o s \in Seq(Reads)
          /\ Len(sector_buffers \o s) = Len(sector_buffers) + Len(s)
          /\ \A i \in 1..(Len(sector_buffers) + Len(s)) : (sector_buffers \o s)[i] =
               IF i <= Len(sector_buffers) THEN sector_buffers[i]
               ELSE s[i - Len(sector_buffers)]
      BY <3>1, ConcatProperties
    <3> QED BY <3>2, <1>1, <1>3, <1>4
  <2>2. \A i \in 1..n_proc_in_q : sector_buffers'[i] = sector_buffers[i]
    BY <2>1, <1>t
  <2>3. ASSUME NEW i \in 1..n PROVE sector_buffers'[n_proc_in_q + i] = s[i]
    <3>1. /\ n_proc_in_q + i \in 1..(n_proc_in_q + n)
          /\ ~(n_proc_in_q + i <= n_proc_in_q)
          /\ (n_proc_in_q + i) - n_proc_in_q = i
      BY <1>t
    <3> QED BY <3>1, <2>1
  <2> QED BY <2>1, <2>2, <2>3
<1>6. \A k \in 1..(n_proc_in_q + n) :
        \/ k \in 1..n_proc_in_q /\ sector_buffers'[k] = sector_buffers[k]
        \/ \E i \in 1..n : k = n_proc_in_q + i /\ sector_buffers'[k] = s[i]
  <2> SUFFICES ASSUME NEW k \in 1..(n_proc_in_q + n), k \notin 1..n_proc_in_q
               PROVE  \E i \in 1..n : k = n_proc_in_q + i /\ sector_buffers'[k] = s[i]
    BY <1>5
  <2>1. k - n_proc_in_q \in 1..n /\ k = n_proc_in_q + (k - n_proc_in_q)
    BY <1>t
  <2> QED BY <2>1, <1>5
<1>7. InQueue' = InQueue \cup ReadsOf(s)
  <2>1. InQueue' = {sector_buffers'[k] : k \in 1..(n_proc_in_q + n)}
    BY <1>5 DEF InQueue
  <2>2. InQueue = {sector_buffers[k] : k \in 1..n_proc_in_q}
    BY <1>4 DEF InQueue
  <2>3. InQueue' \subseteq InQueue \cup ReadsOf(s)
    BY <2>1, <2>2, <1>6, <1>3
  <2>4. InQueue \subseteq InQueue'
    BY <2>1, <2>2, <1>5, <1>t
  <2>5. ASSUME NEW i \in 1..n PROVE s[i] \in InQueue'
    <3>1. n_proc_in_q + i \in 1..(n_proc_in_q + n)
      BY <1>t
    <3> QED BY <3>1, <2>1, <1>5
  <2> QED BY <2>3, <2>4, <2>5, <1>3
<1>8. Owed' = Owed
  BY <1>1, <1>3, <1>7 DEF Owed
<1>9. sec_buf2ftr' = [b \in DOMAIN sec_buf2ftr |-> sec_buf2ftr[b]]
  <2>1. DOMAIN sec_buf2ftr = {Buffer(t) : t \in Owed}
    BY <1>a DEF IInv, MapExact
  <2>2. ReadsOf(s) \subseteq Owed
    BY <1>3 DEF Owed
  <2>3. DOMAIN sec_buf2ftr \cup {Buffer(t) : t \in ReadsOf(s)} = DOMAIN sec_buf2ftr
    BY <2>1, <2>2
  <2> QED BY <1>1, <2>3 DEF TouchAll
<1>10. TypeOK'
  <2>1. n_io_in_q' \in Nat /\ n_proc_in_q' \in Nat
    BY <1>2, <1>t
  <2>2. flying' \subseteq Reads' /\ sector_buffers' \in Seq(Reads')
    BY <1>1, <1>2, <1>t, <1>5 DEF TypeOK, Reads
  <2>3. \A b \in DOMAIN sec_buf2ftr' : sec_buf2ftr'[b] \in Reads' \cup {NoNode}
    BY <1>9, <1>2, <1>t DEF TypeOK, Reads
  <2> QED BY <2>1, <2>2, <2>3, <1>a, <1>2, <1>t DEF TypeOK
<1>11. CountersExact'
  BY <1>a, <1>1, <1>2, <1>3, <1>4, <1>5 DEF CountersExact
<1>12. OwedOnce'
  <2>1. InQueue \cap flying = {}
    BY DEF IInv, OwedOnce
  <2>2. flying' \cap InQueue' = {}
    BY <2>1, <1>1, <1>7
  <2>3. \A k \in 1..n_proc_in_q : sector_buffers[k] \in InQueue
    BY <1>4 DEF InQueue
  <2>4. \A k, l \in 1..n_proc_in_q : sector_buffers[k] = sector_buffers[l] => k = l
    BY <1>4 DEF IInv, OwedOnce
  <2>5. ASSUME NEW k \in 1..(n_proc_in_q + n), NEW l \in 1..(n_proc_in_q + n),
               sector_buffers'[k] = sector_buffers'[l]
        PROVE  k = l
    <3>1. CASE k \in 1..n_proc_in_q /\ l \in 1..n_proc_in_q
      BY <3>1, <2>5, <2>4, <1>5
    <3>2. CASE k \in 1..n_proc_in_q /\ l \notin 1..n_proc_in_q
      BY <3>2, <2>5, <2>1, <2>3, <1>6, <1>3
    <3>3. CASE k \notin 1..n_proc_in_q /\ l \in 1..n_proc_in_q
      BY <3>3, <2>5, <2>1, <2>3, <1>6, <1>3
    <3>4. CASE k \notin 1..n_proc_in_q /\ l \notin 1..n_proc_in_q
      BY <3>4, <2>5, <1>6, <1>3
    <3> QED BY <3>1, <3>2, <3>3, <3>4
  <2> QED BY <2>2, <2>5, <1>5 DEF OwedOnce
<1>13. Window'
  <2>1. /\ n_proc_in_q + n_io_in_q < BeamWidth + DispatchBelow
        /\ \A t \in flying : issued - t <= BeamWidth
        /\ \A i \in 1..n_proc_in_q : issued - sector_buffers[i]
             <= BeamWidth + (n_proc_in_q - i) + n_io_in_q
    BY <1>a, <1>4 DEF IInv, Window
  <2>2. n_proc_in_q' + n_io_in_q' < BeamWidth + DispatchBelow
    BY <2>1, <1>2, <1>t
  <2>3. \A t \in flying' : issued' - t <= BeamWidth
    BY <2>1, <1>1, <1>2
  <2>4. ASSUME NEW k \in 1..Len(sector_buffers')
        PROVE  issued' - sector_buffers'[k]
                 <= BeamWidth + (Len(sector_buffers') - k) + n_io_in_q'
    <3>0. k \in 1..(n_proc_in_q + n) /\ Len(sector_buffers') = n_proc_in_q + n
      BY <1>5
    <3>1. CASE k \in 1..n_proc_in_q
      <4>1. sector_buffers[k] \in Nat /\ sector_buffers'[k] = sector_buffers[k]
        BY <3>1, <1>4, <1>5, <1>t, ElementOfSeq DEF Reads
      <4>2. issued - sector_buffers[k] <= BeamWidth + (n_proc_in_q - k) + n_io_in_q
        BY <3>1, <2>1
      <4> QED BY <3>0, <4>1, <4>2, <1>2, <1>t
    <3>2. CASE k \notin 1..n_proc_in_q
      <4>1. PICK i \in 1..n : sector_buffers'[k] = s[i]
        BY <3>0, <3>2, <1>6
      <4>2. s[i] \in Nat /\ issued - s[i] <= BeamWidth
        BY <1>3, <2>1, <1>t DEF TypeOK, Reads
      <4> QED BY <3>0, <4>1, <4>2, <1>2, <1>t
    <3> QED BY <3>1, <3>2
  <2> QED BY <2>2, <2>3, <2>4, <1>a DEF Window
<1>14. MapExact'
  <2>1. DOMAIN sec_buf2ftr = {Buffer(t) : t \in Owed}
        /\ \A t \in Owed : sec_buf2ftr[Buffer(t)] = t
    BY <1>a DEF IInv, MapExact
  <2>2. DOMAIN sec_buf2ftr' = {Buffer(t) : t \in Owed'}
    BY <2>1, <1>8, <1>9
  <2>3. \A t \in Owed' : sec_buf2ftr'[Buffer(t)] = t
    BY <2>1, <1>8, <1>9
  <2> QED BY <2>2, <2>3 DEF MapExact, Buffer
<1> QED BY <1>a, <1>t, <1>2, <1>10, <1>11, <1>12, <1>13, <1>14 DEF IInv, Traversal

\* A round only starts with nothing in flight, so its reads are the youngest.
LEMMA DispatchIInv ==
  ASSUME IInv, RingHoldsWindow, NoIoLimit, NEW r \in 0..BeamWidth,
         NEW c \in 0..(BeamWidth + MemoryShare), Dispatch(r, c)
  PROVE  IInv'
<1> DEFINE new == issued..(issued + r - 1)
<1> USE PipelineAssumption DEF PipelineAssumption
<1>a. pc \in Traversal /\ pc = "dispatch"
  BY DEF Dispatch, Traversal
<1>t. /\ n_proc_in_q \in Nat /\ n_io_in_q \in Nat /\ n_cached_in_q \in Nat
      /\ issued \in Nat /\ r \in Nat /\ c \in Nat /\ base \in Nat
      /\ selected \in 0..MaxCandidates /\ TypeOK
  BY DEF IInv, TypeOK
<1>1. /\ n_io_in_q = 0 /\ n_cached_in_q = 0 /\ n_proc_in_q < DispatchBelow
      /\ r + c <= BeamWidth + MemoryShare
      /\ selected + r + c <= MaxCandidates /\ selected' = selected + r + c
      /\ flying' = flying \cup new /\ sec_buf2ftr' = InsertNew(new)
      /\ issued' = issued + r
      /\ n_io_in_q' = n_io_in_q + r /\ n_cached_in_q' = n_cached_in_q + c
      /\ UNCHANGED <<query, base, sector_buffers, n_proc_in_q, n_ops,
                     embedding_search_L, l_idx>>
  BY DEF Dispatch, RoundOpen, embedding
<1>2. /\ sector_buffers \in Seq(Reads) /\ Len(sector_buffers) = n_proc_in_q
      /\ flying = {}
  <2>1. Cardinality(flying) = 0 /\ Len(sector_buffers) = n_proc_in_q
    BY <1>a, <1>1 DEF IInv, CountersExact
  <2> QED BY <2>1, <1>t, FlyingFinite, FS_EmptySet DEF TypeOK
<1>3. IsFiniteSet(new) /\ Cardinality(new) = r /\ new \subseteq Nat
      /\ \A t \in new : t >= issued /\ t < issued + r
  <2>1. IsFiniteSet(new) /\ Cardinality(new) = r
    <3>1. issued \in Int /\ issued + r - 1 \in Int
      BY <1>t
    <3>2. /\ IsFiniteSet(new)
          /\ Cardinality(new) = IF issued > issued + r - 1 THEN 0
                                ELSE issued + r - 1 - issued + 1
      BY <3>1, FS_Interval
    <3> QED BY <3>2, <1>t
  <2> QED BY <2>1, <1>t
<1>4. /\ base <= issued /\ issued - base <= selected
  BY <1>a DEF IInv
<1>5. \/ pc' = "process"
      \/ pc' = "refine" /\ r = 0 /\ n_proc_in_q = 0 /\ sector_buffers = <<>>
  <2>1. issued + r - base < IoLimit
    BY <1>1, <1>4, <1>t DEF NoIoLimit
  <2>2. LoopEntry(issued + r - base) = "process"
    BY <2>1 DEF LoopEntry
  <2>3. CASE LoopEnds(r, c)
    <3>1. r = 0 /\ n_proc_in_q = 0 /\ pc' = "refine"
      BY <2>3, <1>1, <1>t DEF LoopEnds, Dispatch
    <3> QED BY <3>1, <1>2
  <2>4. CASE ~LoopEnds(r, c)
    BY <2>2, <2>4 DEF Dispatch
  <2> QED BY <2>3, <2>4
<1>6. InQueue' = InQueue /\ Owed' = InQueue \cup new /\ Owed = InQueue
  BY <1>1, <1>2 DEF InQueue, Owed
<1>7. \A t \in InQueue : t \in Nat /\ t < issued
  BY <1>2, <1>t DEF InQueue, Reads
<1>8. \A i \in 1..n_proc_in_q : issued' - sector_buffers[i]
        <= BeamWidth + (n_proc_in_q - i) + n_io_in_q'
  <2> SUFFICES ASSUME NEW i \in 1..n_proc_in_q
               PROVE  issued' - sector_buffers[i]
                        <= BeamWidth + (n_proc_in_q - i) + n_io_in_q'
    OBVIOUS
  <2>1. sector_buffers[i] \in Nat
    BY <1>2, <1>7 DEF InQueue
  <2>2. issued - sector_buffers[i] <= BeamWidth + (n_proc_in_q - i) + n_io_in_q
    BY <1>a, <1>2 DEF IInv, Window
  <2> QED BY <2>1, <2>2, <1>1, <1>t
<1>9. \A t \in Owed' : t \in 0..(issued' - 1) /\ issued' - t <= MaxReads
  <2>1. ASSUME NEW t \in InQueue PROVE t \in 0..(issued' - 1) /\ issued' - t <= MaxReads
    <3>1. PICK i \in 1..n_proc_in_q : t = sector_buffers[i]
      BY <1>2 DEF InQueue
    <3>2. issued' - t <= BeamWidth + (n_proc_in_q - i) + n_io_in_q'
      BY <3>1, <1>8
    <3> QED BY <3>1, <3>2, <1>1, <1>7, <1>t DEF RingHoldsWindow
  <2>2. ASSUME NEW t \in new PROVE t \in 0..(issued' - 1) /\ issued' - t <= MaxReads
    BY <1>1, <1>3, <1>t
  <2> QED BY <2>1, <2>2, <1>6
<1>10. \A s, t \in Owed' : Buffer(s) = Buffer(t) => s = t
  <2>1. issued' \in Nat
    BY <1>1, <1>t
  <2> QED BY <2>1, <1>9, WindowExclusive
<1>11. DOMAIN sec_buf2ftr' = {Buffer(t) : t \in Owed'}
       /\ \A t \in Owed' : sec_buf2ftr'[Buffer(t)] = t
  <2>1. DOMAIN sec_buf2ftr = {Buffer(t) : t \in InQueue}
        /\ \A t \in InQueue : sec_buf2ftr[Buffer(t)] = t
    BY <1>a, <1>6 DEF IInv, MapExact
  <2>2. DOMAIN sec_buf2ftr' = {Buffer(t) : t \in Owed'}
    BY <2>1, <1>1, <1>6 DEF InsertNew
  <2>3. ASSUME NEW t \in InQueue PROVE sec_buf2ftr'[Buffer(t)] = t
    BY <2>1, <2>3, <1>1 DEF InsertNew
  <2>4. ASSUME NEW t \in new PROVE sec_buf2ftr'[Buffer(t)] = t
    <3>1. Buffer(t) \notin DOMAIN sec_buf2ftr
      <4>1. ASSUME NEW q \in InQueue PROVE Buffer(t) # Buffer(q)
        BY <4>1, <2>4, <1>6, <1>7, <1>3, <1>10, <1>t
      <4> QED BY <4>1, <2>1
    <3>2. sec_buf2ftr'[Buffer(t)] = CHOOSE u \in new : Buffer(u) = Buffer(t)
      BY <3>1, <2>4, <1>1 DEF InsertNew
    <3>3. \A u \in new : Buffer(u) = Buffer(t) => u = t
      BY <2>4, <1>6, <1>10
    <3> HIDE DEF new
    <3> QED BY <3>2, <3>3, <2>4
  <2> QED BY <2>2, <2>3, <2>4, <1>6
<1>12. TypeOK'
  <2>1. flying' \subseteq Reads' /\ sector_buffers' \in Seq(Reads')
    <3>1. Reads \subseteq Reads' /\ new \subseteq Reads'
      BY <1>1, <1>t DEF Reads
    <3> QED BY <3>1, <1>1, <1>2
  <2>2. \A b \in DOMAIN sec_buf2ftr' : sec_buf2ftr'[b] \in Reads' \cup {NoNode}
    BY <1>9, <1>11 DEF Reads
  <2> QED BY <2>1, <2>2, <1>1, <1>5, <1>t DEF TypeOK, Traversal
<1>13. CountersExact'
  <2>1. Cardinality(flying') = n_io_in_q'
    BY <1>1, <1>2, <1>3, <1>t
  <2>2. Len(sector_buffers') = n_proc_in_q' /\ pc' # "drain"
    BY <1>1, <1>2, <1>5
  <2> QED BY <2>1, <2>2 DEF CountersExact
<1>14. OwedOnce'
  <2>1. new \cap InQueue = {}
    BY <1>3, <1>7, <1>t
  <2> QED BY <2>1, <1>1, <1>2, <1>6 DEF IInv, OwedOnce
<1>15. Window'
  <2>1. n_proc_in_q' + n_io_in_q' < BeamWidth + DispatchBelow
    BY <1>1, <1>t
  <2>2. \A t \in flying' : issued' - t <= BeamWidth
    BY <1>1, <1>2, <1>3, <1>t
  <2>3. \A i \in 1..Len(sector_buffers') : issued' - sector_buffers'[i]
          <= BeamWidth + (Len(sector_buffers') - i) + n_io_in_q'
    BY <1>1, <1>2, <1>8
  <2> QED BY <2>1, <2>2, <2>3, <1>5 DEF Window
<1>16. MapExact'
  BY <1>11 DEF MapExact, Buffer
<1>17. pc' \in {"start", "refine", "embed"} => flying' = {}
  BY <1>1, <1>2, <1>3, <1>5, <1>t
<1>18. pc' \notin Traversal => sector_buffers' = <<>>
  BY <1>1, <1>5 DEF Traversal
<1>19. /\ pc' \notin {"read_error", "crash"}
       /\ base' <= issued' /\ issued' - base' <= selected'
       /\ n_cached_in_q' <= BeamWidth + MemoryShare
  BY <1>1, <1>4, <1>5, <1>t
<1> QED BY <1>12, <1>13, <1>14, <1>15, <1>16, <1>17, <1>18, <1>19 DEF IInv, Traversal

\* A batch of the embedding phase is at most one turn of the ring.
LEMMA SubmitIInv ==
  ASSUME IInv, NEW r \in 0..MaxReads, SubmitEmbeddings(r)
  PROVE  IInv'
<1> DEFINE new == issued..(issued + r - 1)
<1> USE PipelineAssumption DEF PipelineAssumption
<1>t. issued \in Nat /\ r \in Nat /\ l_idx \in 0..embedding_search_L /\ embedding_search_L \in Nat
      /\ base \in Nat /\ TypeOK
  BY DEF IInv, TypeOK
<1>1. /\ pc = "embed" /\ pc' = "drain"
      /\ flying = {} /\ sector_buffers = <<>>
      /\ l_idx' = l_idx + BatchSize /\ l_idx < embedding_search_L
      /\ flying' = flying \cup new /\ issued' = issued + r /\ n_ops' = r
      /\ UNCHANGED <<query, base, sector_buffers, sec_buf2ftr, n_io_in_q,
                     n_proc_in_q, n_cached_in_q, selected, embedding_search_L>>
  BY DEF IInv, SubmitEmbeddings, counters, Traversal
<1>2. Cardinality(new) = r /\ \A t \in new : t \in 0..(issued' - 1) /\ issued' - t <= MaxReads
  <2>1. issued \in Int /\ issued + r - 1 \in Int
    BY <1>t
  <2>2. Cardinality(new) = IF issued > issued + r - 1 THEN 0
                           ELSE issued + r - 1 - issued + 1
    BY <2>1, FS_Interval
  <2> QED BY <2>2, <1>1, <1>t
<1>3. l_idx' \in 0..embedding_search_L
  BY <1>1, <1>t DEF BatchSize
<1>4. flying' = new
  BY <1>1
<1>5. TypeOK'
  BY <1>1, <1>2, <1>3, <1>4, <1>t DEF TypeOK, Reads, Traversal
<1>6. CountersExact' /\ OwedOnce' /\ Window' /\ MapExact'
  BY <1>1, <1>2, <1>4 DEF CountersExact, OwedOnce, Window, MapExact, InQueue, Traversal
<1> QED BY <1>1, <1>5, <1>6 DEF IInv, Traversal

\* Draining takes finished reads out of flight.
LEMMA DrainIInv ==
  ASSUME IInv, NEW finished \in SUBSET flying, DrainEmbeddings(finished)
  PROVE  IInv'
<1> USE PipelineAssumption DEF PipelineAssumption
<1>1. /\ pc = "drain" /\ pc' = "drain" /\ sector_buffers = <<>>
      /\ Cardinality(finished) \in 1..n_ops
      /\ flying' = flying \ finished /\ n_ops' = n_ops - Cardinality(finished)
      /\ UNCHANGED <<query, base, issued, sector_buffers, sec_buf2ftr, n_io_in_q,
                     n_proc_in_q, n_cached_in_q, selected, embedding_search_L, l_idx>>
  BY DEF IInv, DrainEmbeddings, counters, Traversal
<1>t. TypeOK /\ n_ops \in Nat
  BY DEF IInv, TypeOK
<1>2. Cardinality(flying') = Cardinality(flying) - Cardinality(finished)
  <2>1. flying \cap finished = finished
    OBVIOUS
  <2> QED BY <2>1, <1>1, <1>t, FlyingFinite, FS_Difference
<1>3. TypeOK'
  BY <1>1, <1>t DEF TypeOK, Reads, Traversal
<1>4. CountersExact' /\ OwedOnce' /\ Window' /\ MapExact'
  BY <1>1, <1>2 DEF IInv, CountersExact, OwedOnce, Window, MapExact, InQueue, Traversal
<1> QED BY <1>1, <1>3, <1>4 DEF IInv, Traversal
-----------------------------------------------------------------------------
\* Every step preserves the invariant.
LEMMA NextIInv ==
  ASSUME RingHoldsWindow, NoIoLimit, IInv, [Next]_vars
  PROVE  IInv'
<1>1. CASE StartQuery
  BY <1>1, StartQueryIInv
<1>2. CASE Process
  BY <1>2, ProcessIInv
<1>3. CASE \E n \in 0..n_io_in_q : Collect(n)
  BY <1>3, CollectIInv
<1>4. CASE \E r \in 0..BeamWidth, c \in 0..(BeamWidth + MemoryShare) : Dispatch(r, c)
  BY <1>4, DispatchIInv
<1>5. CASE BeginRefine \/ EndBatch \/ EndQuery \/ Stopped \/ SkipDispatch
  BY <1>5, MoveOnIInv
<1>6. CASE \E r \in 0..MaxReads : SubmitEmbeddings(r)
  BY <1>6, SubmitIInv
<1>7. CASE \E finished \in SUBSET flying : DrainEmbeddings(finished)
  BY <1>7, DrainIInv
<1>8. CASE UNCHANGED vars
  BY <1>8 DEF vars, ring, counters, embedding, IInv, TypeOK, Reads, CountersExact,
              OwedOnce, InQueue, Window, MapExact, Owed
<1> QED BY <1>1, <1>2, <1>3, <1>4, <1>5, <1>6, <1>7, <1>8 DEF Next

\* The inductive invariant holds of every query thread whose ring is large
\* enough and whose traversals are not cut by io_limit.
THEOREM Invariance ==
  ASSUME RingHoldsWindow, NoIoLimit
  PROVE  Spec => []IInv
<1>1. Init => IInv
  BY InitIInv
<1>2. IInv /\ [Next]_vars => IInv'
  BY NextIInv
<1> QED BY <1>1, <1>2, PTL DEF Spec

\* The types of the pipeline's variables are invariant.
THEOREM TypeCorrect ==
  ASSUME RingHoldsWindow, NoIoLimit
  PROVE  Spec => []TypeOK
<1>1. IInv => TypeOK
  BY DEF IInv
<1> QED BY <1>1, Invariance, PTL

\* A sector buffer is never handed out while a read in it is owed: the ring of
\* MAX_N_SECTOR_READS needs no occupancy check as long as it has
\* 2 * BeamWidth + DispatchBelow - 2 buffers.
THEOREM RingIsSafe ==
  ASSUME RingHoldsWindow, NoIoLimit
  PROVE  Spec => []BuffersExclusive
<1>1. IInv => BuffersExclusive
  BY Exclusive
<1> QED BY <1>1, Invariance, PTL

\* Every sector is parsed under the node it was read for, and so the search
\* never reaches its "(bug) read error!" exit.
THEOREM SectorsAreTheirOwn ==
  ASSUME RingHoldsWindow, NoIoLimit
  PROVE  Spec => []RightNode /\ []NoReadError
<1>1. IInv => RightNode
  BY HeadRecorded DEF RightNode, Traversal
<1>2. IInv => NoReadError
  BY DEF IInv, NoReadError
<1> QED BY <1>1, <1>2, Invariance, PTL

\* The counters of the loop are exact.
THEOREM CountersAreExact ==
  ASSUME RingHoldsWindow, NoIoLimit
  PROVE  Spec => []CountersExact
<1>1. IInv => CountersExact
  BY DEF IInv
<1> QED BY <1>1, Invariance, PTL

\* The traversal hands over a quiet ring, and so does the query.
THEOREM HandoverIsQuiet ==
  ASSUME RingHoldsWindow, NoIoLimit
  PROVE  Spec => []QuietHandover
<1>1. IInv => QuietHandover
  BY DEF IInv, QuietHandover, Owed, InQueue, Traversal
<1> QED BY <1>1, Invariance, PTL

\* The queues have room for all that the loop's counters allow.
LEMMA QueuesBounded ==
  ASSUME RingHoldsWindow, CachedQueueHoldsRound, IInv
  PROVE  QueuesFit
<1> USE PipelineAssumption DEF PipelineAssumption
<1>1. n_cached_in_q <= MaxReads
  BY DEF IInv, TypeOK, CachedQueueHoldsRound
<1>2. CASE pc \in Traversal
  BY <1>1, <1>2 DEF IInv, TypeOK, Window, CountersExact, RingHoldsWindow, QueuesFit
<1>3. CASE pc \notin Traversal
  BY <1>1, <1>3 DEF IInv, QueuesFit
<1> QED BY <1>2, <1>3

\* The unchecked circular queues hold what the loop puts in them.
THEOREM QueuesSuffice ==
  ASSUME RingHoldsWindow, NoIoLimit, CachedQueueHoldsRound
  PROVE  Spec => []QueuesFit
<1>1. IInv => QueuesFit
  BY QueuesBounded
<1> QED BY <1>1, Invariance, PTL
=============================================================================
